------------------------- MODULE HeaderChainsProofs -------------------------
(***************************************************************************)
(* Lemmas about trees of headers and the chains that a bitcoinx.Headers     *)
(* object keeps of them, for every tree.                                    *)
(***************************************************************************)
EXTENDS HeaderChains, Integers, SequencesExt, SequenceTheorems, WellFoundedInduction,
        FiniteSetTheorems, TLAPS

-----------------------------------------------------------------------------
(* Numbers and sequences.  A fact about all numbers is proved by looking at  *)
(* the least for which it would be false: that there is one follows from a   *)
(* theorem of the library about well-founded relations.                      *)

(* The library's theorem on minimal elements takes a relation, not an       *)
(* operator: for < on the naturals it says that a set has a least element.  *)
LEMMA LeastNatural ==
    ASSUME NEW T \in SUBSET Nat, T # {}
    PROVE  \E n \in T : \A m \in T : n <= m
<1> DEFINE R == {ss \in Nat \X Nat : ss[1] < ss[2]}
<1>1. IsWellFoundedOn(R, Nat)
  BY NatLessThanWellFounded DEF OpToRel
<1>2. \A x, y \in Nat : y < x => <<y, x>> \in R
  OBVIOUS
<1> HIDE DEF R
<1>3. PICK x \in T : \A y \in T : ~ (<<y, x>> \in R)
  BY <1>1, WFMin
<1>4. \A y \in T : ~ (y < x)
  BY <1>2, <1>3, Zenon
<1>5. \A y \in T : x <= y
  BY <1>4
<1> QED BY <1>5

(* A set of naturals with an upper bound has a greatest element, Max.       *)
LEMMA GreatestNatural ==
    ASSUME NEW n \in Nat, NEW T \in SUBSET (0..n), T # {}
    PROVE  \E x \in T : \A y \in T : y <= x
<1> DEFINE U == {m \in Nat : \A y \in T : y <= m}
<1>1. n \in U
  OBVIOUS
<1>2. PICK x \in U : \A m \in U : x <= m
  BY <1>1, LeastNatural
<1>3. ASSUME x \notin T PROVE FALSE
  <2>1. \A y \in T : y < x
    BY <1>2, <1>3
  <2>2. x > 0
    <3>1. PICK y \in T : TRUE
      OBVIOUS
    <3> QED BY <2>1, <3>1
  <2>3. x - 1 \in U
    BY <2>1, <2>2
  <2> QED BY <1>2, <2>3
<1> QED BY <1>2, <1>3

(* The greatest of a bounded set of naturals, with Max of the community     *)
(* modules.                                                                 *)
LEMMA MaxBounded ==
    ASSUME NEW n \in Nat, NEW T \in SUBSET (0..n), T # {}
    PROVE  Max(T) \in T /\ \A y \in T : y <= Max(T)
BY GreatestNatural DEF Max

(* The lesser of two.                                                       *)
LEMMA MinPair ==
    ASSUME NEW a \in Nat, NEW b \in Nat
    PROVE  Min({a, b}) = IF a <= b THEN a ELSE b
BY DEF Min

(* The least of any set of naturals.                                        *)
LEMMA MinNatural ==
    ASSUME NEW T \in SUBSET Nat, T # {}
    PROVE  Min(T) \in T /\ \A y \in T : Min(T) <= y
BY LeastNatural DEF Min

(* The elements of a sequence.                                               *)
LEMMA ToSetIn ==
    ASSUME NEW S, NEW s \in Seq(S)
    PROVE  /\ ToSet(s) \subseteq S /\ s \in Seq(ToSet(s))
           /\ \A x : x \in ToSet(s) <=> \E i \in 1..Len(s) : s[i] = x
<1>1. DOMAIN s = 1..Len(s) /\ Len(s) \in Nat
  OBVIOUS
<1>2. ToSet(s) \subseteq S /\ \A x : x \in ToSet(s) <=> \E i \in 1..Len(s) : s[i] = x
  BY <1>1 DEF ToSet
<1>3. s \in Seq(Range(s))
  BY SeqOfRange
<1>4. Range(s) = ToSet(s)
  BY DEF Range, ToSet
<1> QED BY <1>2, <1>3, <1>4

(* What Append() does to the elements of a sequence.                        *)
LEMMA AppendElements ==
    ASSUME NEW S, NEW s \in Seq(S), NEW e \in S
    PROVE  /\ Append(s, e) \in Seq(S) /\ Append(s, e) # <<>>
           /\ Len(Append(s, e)) = Len(s) + 1
           /\ ToSet(Append(s, e)) = ToSet(s) \cup {e}
           /\ IsInjective(s) /\ e \notin ToSet(s) => IsInjective(Append(s, e))
<1> DEFINE t == Append(s, e)
<1>1. /\ t \in Seq(S) /\ t # <<>> /\ Len(t) = Len(s) + 1 /\ Len(s) \in Nat
      /\ \A i \in 1..Len(s) : t[i] = s[i]
      /\ t[Len(s) + 1] = e
  BY AppendProperties
<1>2. DOMAIN t = 1..Len(s)+1 /\ DOMAIN s = 1..Len(s)
  BY <1>1
<1> HIDE DEF t
<1>3. ToSet(t) = ToSet(s) \cup {e}
  <2>1. ASSUME NEW x \in ToSet(t) PROVE x \in ToSet(s) \cup {e}
    BY <1>1, <1>2 DEF ToSet
  <2>2. ASSUME NEW x \in ToSet(s) PROVE x \in ToSet(t)
    BY <1>1, <1>2 DEF ToSet
  <2>3. e \in ToSet(t)
    BY <1>1, <1>2 DEF ToSet
  <2> QED BY <2>1, <2>2, <2>3
<1>4. IsInjective(s) /\ e \notin ToSet(s) => IsInjective(t)
  BY <1>1, <1>2 DEF IsInjective, ToSet
<1> QED BY <1>1, <1>3, <1>4 DEF t

(* Head and Tail take a sequence apart.                                      *)
LEMMA HeadTailElements ==
    ASSUME NEW S, NEW s \in Seq(S), s # <<>>
    PROVE  /\ Head(s) \in S /\ Head(s) = s[1] /\ Tail(s) \in Seq(S)
           /\ Len(s) \in Nat \ {0} /\ Len(Tail(s)) = Len(s) - 1
           /\ \A i \in 1 .. Len(s) - 1 : Tail(s)[i] = s[i + 1]
           /\ ToSet(s) = {Head(s)} \cup ToSet(Tail(s))
<1>1. /\ Head(s) \in S /\ Head(s) = s[1] /\ Tail(s) \in Seq(S)
      /\ Len(s) \in Nat \ {0} /\ Len(Tail(s)) = Len(s) - 1
      /\ \A i \in 1 .. Len(Tail(s)) : Tail(s)[i] = s[i + 1]
  BY HeadTailProperties, EmptySeq
<1> DEFINE t == Tail(s)
<1>2. /\ t \in Seq(S) /\ Len(t) = Len(s) - 1 /\ Len(s) \in Nat \ {0}
      /\ \A i \in 1 .. Len(s) - 1 : t[i] = s[i + 1]
  BY <1>1
<1> HIDE DEF t
<1>s. \A x : x \in ToSet(s) <=> \E i \in 1..Len(s) : s[i] = x
  BY ToSetIn
<1>t. \A x : x \in ToSet(t) <=> \E i \in 1..Len(t) : t[i] = x
  <2>1. t \in Seq(S)
    BY <1>2
  <2> QED BY <2>1, ToSetIn
<1>3. /\ \A x : x \in ToSet(s) <=> \E i \in 1..Len(s) : s[i] = x
      /\ \A x : x \in ToSet(t) <=> \E i \in 1..Len(t) : t[i] = x
  BY <1>s, <1>t
<1>4. ASSUME NEW x, x \in ToSet(s) PROVE x = s[1] \/ x \in ToSet(t)
  <2>1. PICK i \in 1..Len(s) : s[i] = x
    BY <1>3, <1>4
  <2>2. i = 1 \/ (i - 1 \in 1 .. Len(s) - 1 /\ (i - 1) + 1 = i)
    BY <1>2
  <2>3. i = 1 \/ t[i - 1] = x
    BY <1>2, <2>1, <2>2
  <2> QED BY <1>2, <1>3, <2>1, <2>2, <2>3
<1>5. ASSUME NEW x, x \in ToSet(t) PROVE x \in ToSet(s)
  <2>1. PICK i \in 1 .. Len(s) - 1 : t[i] = x
    BY <1>2, <1>3, <1>5
  <2>2. i + 1 \in 1..Len(s) /\ s[i + 1] = x
    BY <1>2, <2>1
  <2> QED BY <1>3, <2>2
<1>6. s[1] \in ToSet(s)
  <2>1. 1 \in 1..Len(s)
    BY <1>2
  <2> QED BY <1>3, <2>1
<1>7. ToSet(s) = {Head(s)} \cup ToSet(t)
  BY <1>1, <1>4, <1>5, <1>6
<1> QED BY <1>1, <1>2, <1>7 DEF t

-----------------------------------------------------------------------------
(* The chains of a Headers object.                                          *)

(* A chain goes on from each header to a child of it; every chain but the   *)
(* first leaves an earlier one below its tip.                               *)
Linked(cs) ==
    \A i \in 1..Len(cs) :
        /\ \A n \in 1..Len(cs[i]) :
              n > 1 => cs[i][n] # Genesis /\ Parent[cs[i][n]] = cs[i][n - 1]
        /\ i > 1 => /\ cs[i][1] # Genesis
                    /\ \E j \in 1..i-1 : \E m \in 1..Len(cs[j])-1 :
                          cs[j][m] = Parent[cs[i][1]]

(* No header is in two places.                                              *)
Distinct(cs) ==
    \A i, j \in 1..Len(cs) : \A n \in 1..Len(cs[i]), m \in 1..Len(cs[j]) :
        cs[i][n] = cs[j][m] => i = j /\ n = m

GoodChains(cs) == IsChains(cs) /\ Linked(cs) /\ Distinct(cs)

(* The chains ds are cs with h at the end of chain k, which may be a new one. *)
Grows(cs, ds, k, h) ==
    /\ Len(ds) \in {Len(cs), Len(cs) + 1}
    /\ Len(ds) = Len(cs) + 1 => k = Len(ds)
    /\ k \in 1..Len(ds)
    /\ \A i \in 1..Len(cs) : i # k => ds[i] = cs[i]
    /\ k <= Len(cs) => /\ Len(ds[k]) = Len(cs[k]) + 1
                       /\ \A n \in 1..Len(cs[k]) : ds[k][n] = cs[k][n]
                       /\ cs[k][Len(cs[k])] = Parent[h]
    /\ k > Len(cs) => /\ Len(ds[k]) = 1
                      /\ \A i \in 1..Len(cs) : cs[i][Len(cs[i])] # Parent[h]
    /\ ds[k][Len(ds[k])] = h

(* A list of chains, place by place.                                        *)
LEMMA ChainsType ==
    ASSUME NEW cs, IsChains(cs)
    PROVE  /\ cs \in Seq(Seq(Headers)) /\ Len(cs) \in Nat \ {0} /\ DOMAIN cs = 1..Len(cs)
           /\ \A i \in 1..Len(cs) :
                 /\ cs[i] \in Seq(Headers) /\ Len(cs[i]) \in Nat \ {0}
                 /\ DOMAIN cs[i] = 1..Len(cs[i])
                 /\ \A n \in 1..Len(cs[i]) : cs[i][n] \in Headers
           /\ cs[1][1] = Genesis
<1>1. cs \in Seq(Seq(Headers)) /\ cs # <<>> /\ cs[1][1] = Genesis
      /\ \A i \in DOMAIN cs : cs[i] # <<>>
  BY DEF IsChains
<1>2. Len(cs) \in Nat /\ Len(cs) # 0 /\ DOMAIN cs = 1..Len(cs)
  BY <1>1, EmptySeq
<1>3. ASSUME NEW i \in 1..Len(cs)
      PROVE  /\ cs[i] \in Seq(Headers) /\ Len(cs[i]) \in Nat \ {0}
             /\ DOMAIN cs[i] = 1..Len(cs[i])
             /\ \A n \in 1..Len(cs[i]) : cs[i][n] \in Headers
  <2>1. cs[i] \in Seq(Headers) /\ cs[i] # <<>>
    BY <1>1, <1>2
  <2> DEFINE c == cs[i]
  <2>2. c \in Seq(Headers) /\ c # <<>>
    BY <2>1
  <2> HIDE DEF c
  <2>3. /\ c \in Seq(Headers) /\ Len(c) \in Nat \ {0} /\ DOMAIN c = 1..Len(c)
        /\ \A n \in 1..Len(c) : c[n] \in Headers
    BY <2>2, EmptySeq
  <2> QED BY <2>3 DEF c
<1> QED BY <1>1, <1>2, <1>3

(* What the chains know is what stands somewhere in them.                   *)
LEMMA KnownWhere ==
    ASSUME NEW cs, IsChains(cs)
    PROVE  \A h : h \in Known(cs) <=> \E i \in 1..Len(cs) : \E n \in 1..Len(cs[i]) : cs[i][n] = h
<1>1. \A i \in 1..Len(cs) : \A h :
         h \in ToSet(cs[i]) <=> \E n \in 1..Len(cs[i]) : cs[i][n] = h
  BY ChainsType DEF ToSet
<1>2. DOMAIN cs = 1..Len(cs)
  BY ChainsType
<1>3. \A h : h \in Known(cs) <=> \E i \in 1..Len(cs) : h \in ToSet(cs[i])
  BY <1>2 DEF Known
<1> QED BY <1>1, <1>3

(* Connect() adds the header at the end of one chain, old or new, whatever  *)
(* the headers are.                                                         *)
LEMMA ConnectGrows ==
    ASSUME NEW cs, GoodChains(cs), NEW h \in Headers, h \notin Known(cs)
    PROVE  /\ IsChains(Connect(cs, h))
           /\ \E k \in Nat : Grows(cs, Connect(cs, h), k, h)
<1> DEFINE ds == Connect(cs, h)
<1>0. /\ cs \in Seq(Seq(Headers)) /\ Len(cs) \in Nat \ {0} /\ DOMAIN cs = 1..Len(cs)
      /\ \A i \in 1..Len(cs) :
            cs[i] \in Seq(Headers) /\ Len(cs[i]) \in Nat \ {0} /\ cs[i] # <<>>
      /\ cs[1][1] = Genesis /\ 1 \in 1..Len(cs)
  BY ChainsType DEF GoodChains, IsChains
<1>1. \A i \in 1..Len(cs) : Last(cs[i]) = cs[i][Len(cs[i])]
  BY DEF Last
<1>l. \A i \in 1..Len(cs) : Len(cs[i]) \in 1..Len(cs[i])
  <2>1. \A x \in Nat \ {0} : x \in 1..x
    OBVIOUS
  <2> QED BY <1>0, <2>1
<1>2. CASE \E i \in 1..Len(cs) : cs[i][Len(cs[i])] = Parent[h]
  <2>1. PICK k \in 1..Len(cs) : cs[k][Len(cs[k])] = Parent[h]
    BY <1>2
  <2>2. \A i \in 1..Len(cs) : cs[i][Len(cs[i])] = Parent[h] => i = k
    <3> SUFFICES ASSUME NEW i \in 1..Len(cs), cs[i][Len(cs[i])] = Parent[h] PROVE i = k
      OBVIOUS
    <3>1. \A n \in 1..Len(cs[i]), m \in 1..Len(cs[k]) : cs[i][n] = cs[k][m] => i = k
      BY DEF GoodChains, Distinct
    <3> QED BY <1>l, <2>1, <3>1
  <2>3. ds = [i \in 1..Len(cs) |-> IF i = k THEN Append(cs[i], h) ELSE cs[i]]
    <3>1. ds = [i \in 1..Len(cs) |-> IF Last(cs[i]) = Parent[h] THEN Append(cs[i], h)
                                     ELSE cs[i]]
      BY <1>0, <1>1, <2>1 DEF Connect
    <3>2. \A i \in 1..Len(cs) : Last(cs[i]) = Parent[h] <=> i = k
      BY <1>1, <2>1, <2>2
    <3> QED BY <3>1, <3>2
  <2>4. \A i \in 1..Len(cs) : i # k => ds[i] = cs[i]
    BY <2>3
  <2>5. ds[k] = Append(cs[k], h)
    BY <2>3
  <2>6. /\ ds[k] \in Seq(Headers) /\ ds[k] # <<>> /\ Len(ds[k]) = Len(cs[k]) + 1
        /\ \A n \in 1..Len(cs[k]) : ds[k][n] = cs[k][n]
        /\ ds[k][Len(cs[k]) + 1] = h
    <3> DEFINE c == cs[k]
    <3>1. c \in Seq(Headers) /\ ds[k] = Append(c, h)
      BY <1>0, <2>5
    <3> HIDE DEF c
    <3>2. /\ ds[k] \in Seq(Headers) /\ ds[k] # <<>> /\ Len(ds[k]) = Len(c) + 1
          /\ \A n \in 1..Len(c) : ds[k][n] = c[n]
          /\ ds[k][Len(c) + 1] = h
      BY <3>1, AppendProperties
    <3> QED BY <3>2 DEF c
  <2>7. /\ ds \in Seq(Seq(Headers)) /\ Len(ds) = Len(cs) /\ DOMAIN ds = 1..Len(cs)
    <3>1. \A i \in 1..Len(cs) : ds[i] \in Seq(Headers)
      BY <1>0, <2>4, <2>6
    <3>2. ds \in [1..Len(cs) -> Seq(Headers)]
      BY <2>3, <3>1
    <3>3. ASSUME NEW n \in Nat, NEW S, NEW f \in [1..n -> S]
          PROVE  f \in Seq(S) /\ Len(f) = n /\ DOMAIN f = 1..n
      OBVIOUS
    <3> QED BY <1>0, <3>2, <3>3
  <2> HIDE DEF ds
  <2>8. IsChains(ds)
    <3>1. \A i \in DOMAIN ds : ds[i] # <<>>
      BY <1>0, <2>4, <2>6, <2>7
    <3>2. ds[1] # <<>> /\ ds # <<>>
      BY <1>0, <2>7, <3>1
    <3>3. ds[1][1] = Genesis
      BY <1>0, <2>4, <2>6
    <3> QED BY <2>7, <3>1, <3>2, <3>3 DEF IsChains
  <2>9. Grows(cs, ds, k, h)
    <3>1. k \in 1..Len(ds) /\ Len(ds) = Len(cs) /\ Len(ds) # Len(cs) + 1 /\ ~(k > Len(cs))
      <4>1. \A x \in Nat : x # x + 1 /\ \A y \in 1..x : ~(y > x)
        OBVIOUS
      <4> QED BY <1>0, <2>7, <4>1
    <3>2. ds[k][Len(ds[k])] = h
      BY <2>6
    <3> QED BY <2>1, <2>4, <2>6, <3>1, <3>2 DEF Grows
  <2> QED BY <2>8, <2>9 DEF ds
<1>3. CASE ~ \E i \in 1..Len(cs) : cs[i][Len(cs[i])] = Parent[h]
  <2>1. ds = Append(cs, <<h>>)
    BY <1>0, <1>1, <1>3 DEF Connect
  <2>2. <<h>> \in Seq(Headers) /\ Len(<<h>>) = 1 /\ <<h>>[1] = h
    OBVIOUS
  <2>3. /\ ds \in Seq(Seq(Headers)) /\ Len(ds) = Len(cs) + 1
        /\ \A i \in 1..Len(cs) : ds[i] = cs[i]
        /\ ds[Len(cs) + 1] = <<h>>
    BY <1>0, <2>1, <2>2, AppendProperties
  <2> HIDE DEF ds
  <2>4. IsChains(ds)
    <3>1. \A i \in 1..Len(ds) : ds[i] # <<>>
      <4>1. \A x \in Nat : \A i \in 1..x+1 : i \in 1..x \/ i = x + 1
        OBVIOUS
      <4>2. \A i \in 1..Len(ds) : i \in 1..Len(cs) \/ i = Len(cs) + 1
        BY <1>0, <2>3, <4>1
      <4>3. <<h>> # <<>>
        OBVIOUS
      <4> QED BY <1>0, <2>3, <4>2, <4>3
    <3>2. ds[1] = cs[1] /\ ds # <<>> /\ DOMAIN ds = 1..Len(ds) /\ 1 \in 1..Len(ds)
      <4>1. Len(ds) \in Nat /\ 1 \in 1..Len(ds) /\ Len(ds) # 0
        <5>1. \A x \in Nat : x + 1 \in Nat /\ 1 \in 1..x+1 /\ x + 1 # 0
          OBVIOUS
        <5> QED BY <1>0, <2>3, <5>1
      <4>2. DOMAIN ds = 1..Len(ds) /\ ds # <<>>
        BY <2>3, <4>1, EmptySeq
      <4> QED BY <1>0, <2>3, <4>1, <4>2
    <3> QED BY <1>0, <2>3, <3>1, <3>2 DEF IsChains
  <2>5. Grows(cs, ds, Len(cs) + 1, h)
    BY <1>0, <1>3, <2>2, <2>3 DEF Grows
  <2> QED BY <1>0, <2>4, <2>5 DEF ds
<1> QED BY <1>2, <1>3

(* Where the headers of ds come from.                                       *)
LEMMA GrowsPlaces ==
    ASSUME NEW cs, NEW ds, IsChains(cs), IsChains(ds), NEW k, NEW h, Grows(cs, ds, k, h)
    PROVE  /\ k \in 1..Len(ds) /\ Len(ds[k]) \in 1..Len(ds[k]) /\ ds[k][Len(ds[k])] = h
           /\ Len(cs) <= Len(ds)
           /\ \A i \in 1..Len(cs) :
                 /\ i \in 1..Len(ds) /\ Len(cs[i]) <= Len(ds[i])
                 /\ \A n \in 1..Len(cs[i]) : n \in 1..Len(ds[i]) /\ ds[i][n] = cs[i][n]
           /\ \A i \in 1..Len(ds) : \A n \in 1..Len(ds[i]) :
                 \/ i = k /\ n = Len(ds[k])
                 \/ i \in 1..Len(cs) /\ n \in 1..Len(cs[i]) /\ ds[i][n] = cs[i][n]
           /\ k \in 1..Len(cs) => Len(ds[k]) = Len(cs[k]) + 1
           /\ k \notin 1..Len(cs) => Len(ds[k]) = 1 /\ k = Len(cs) + 1
<1>1. /\ Len(cs) \in Nat \ {0} /\ Len(ds) \in Nat \ {0}
      /\ \A i \in 1..Len(cs) : Len(cs[i]) \in Nat \ {0}
      /\ \A i \in 1..Len(ds) : Len(ds[i]) \in Nat \ {0}
  BY ChainsType
<1>2. /\ Len(ds) = Len(cs) \/ (Len(ds) = Len(cs) + 1 /\ k = Len(ds))
      /\ k \in 1..Len(ds) /\ ds[k][Len(ds[k])] = h
  BY DEF Grows
<1>3. Len(cs) <= Len(ds) /\ \A i \in 1..Len(cs) : i \in 1..Len(ds)
  BY <1>1, <1>2
<1>4. ASSUME NEW i \in 1..Len(cs)
      PROVE  /\ Len(cs[i]) <= Len(ds[i])
             /\ \A n \in 1..Len(cs[i]) : n \in 1..Len(ds[i]) /\ ds[i][n] = cs[i][n]
  <2>1. CASE i # k
    <3>1. ds[i] = cs[i] /\ Len(cs[i]) \in Nat
      BY <1>1, <2>1 DEF Grows
    <3> QED BY <3>1
  <2>2. CASE i = k
    <3>1. /\ Len(ds[i]) = Len(cs[i]) + 1 /\ Len(cs[i]) \in Nat
          /\ \A n \in 1..Len(cs[i]) : ds[i][n] = cs[i][n]
      <4>1. k <= Len(cs)
        BY <2>2
      <4> QED BY <1>1, <2>2, <4>1 DEF Grows
    <3> QED BY <3>1
  <2> QED BY <2>1, <2>2
<1>5. k \in 1..Len(cs) => Len(ds[k]) = Len(cs[k]) + 1
  <2>1. k \in 1..Len(cs) => k <= Len(cs)
    OBVIOUS
  <2> QED BY <2>1 DEF Grows
<1>6. k \notin 1..Len(cs) => Len(ds[k]) = 1 /\ k = Len(cs) + 1
  <2>1. k \notin 1..Len(cs) => k > Len(cs) /\ k = Len(cs) + 1
    BY <1>1, <1>2
  <2> QED BY <2>1 DEF Grows
<1>7. ASSUME NEW i \in 1..Len(ds), NEW n \in 1..Len(ds[i])
      PROVE  \/ i = k /\ n = Len(ds[k])
             \/ i \in 1..Len(cs) /\ n \in 1..Len(cs[i]) /\ ds[i][n] = cs[i][n]
  <2>1. CASE i # k
    <3>1. i \in 1..Len(cs)
      BY <1>1, <1>2, <2>1
    <3>2. ds[i] = cs[i]
      BY <2>1, <3>1 DEF Grows
    <3> QED BY <3>1, <3>2
  <2>2. CASE i = k /\ k \in 1..Len(cs)
    <3>1. Len(ds[i]) = Len(cs[i]) + 1 /\ Len(cs[i]) \in Nat
      BY <1>1, <1>5, <2>2
    <3>2. n = Len(ds[i]) \/ n \in 1..Len(cs[i])
      BY <3>1
    <3> QED BY <1>4, <2>2, <3>2
  <2>3. CASE i = k /\ k \notin 1..Len(cs)
    <3>1. Len(ds[i]) = 1
      BY <1>6, <2>3
    <3>2. n = 1
      BY <3>1
    <3> QED BY <2>3, <3>1, <3>2
  <2> QED BY <2>1, <2>2, <2>3
<1>8. Len(ds[k]) \in 1..Len(ds[k])
  <2>1. \A x \in Nat \ {0} : x \in 1..x
    OBVIOUS
  <2> QED BY <1>1, <1>2, <2>1
<1> QED BY <1>2, <1>3, <1>4, <1>5, <1>6, <1>7, <1>8

(* Chains stay good when a header whose parent is known is added.           *)
LEMMA GrowsGood ==
    ASSUME NEW cs, NEW ds, GoodChains(cs), IsChains(ds),
           NEW h \in Headers \ {Genesis}, h \notin Known(cs), Parent[h] \in Known(cs),
           NEW k, Grows(cs, ds, k, h)
    PROVE  /\ GoodChains(ds)
           /\ \A x : x \in Known(ds) <=> x \in Known(cs) \/ x = h
<1>0. IsChains(cs)
  BY DEF GoodChains
<1>1. /\ Len(cs) \in Nat \ {0} /\ Len(ds) \in Nat \ {0}
      /\ \A i \in 1..Len(cs) : Len(cs[i]) \in Nat \ {0}
      /\ \A i \in 1..Len(ds) : Len(ds[i]) \in Nat \ {0}
  BY <1>0, ChainsType
<1>p. k \in 1..Len(ds) /\ Len(ds[k]) \in 1..Len(ds[k]) /\ ds[k][Len(ds[k])] = h
  BY <1>0, GrowsPlaces
<1>q. \A i \in 1..Len(ds) : \A n \in 1..Len(ds[i]) :
         \/ i = k /\ n = Len(ds[k])
         \/ i \in 1..Len(cs) /\ n \in 1..Len(cs[i]) /\ ds[i][n] = cs[i][n]
  BY <1>0, GrowsPlaces
<1>r. \A i \in 1..Len(cs) :
         /\ i \in 1..Len(ds) /\ Len(cs[i]) <= Len(ds[i])
         /\ \A n \in 1..Len(cs[i]) : n \in 1..Len(ds[i]) /\ ds[i][n] = cs[i][n]
  BY <1>0, GrowsPlaces
<1>s. /\ k \in 1..Len(cs) => Len(ds[k]) = Len(cs[k]) + 1
      /\ k \notin 1..Len(cs) => Len(ds[k]) = 1 /\ k = Len(cs) + 1
  BY <1>0, GrowsPlaces
<1>2. \A i \in 1..Len(cs) : \A n \in 1..Len(cs[i]) : cs[i][n] # h
  BY <1>0, KnownWhere
<1>3. Distinct(ds)
  <2> SUFFICES ASSUME NEW i \in 1..Len(ds), NEW j \in 1..Len(ds),
                      NEW n \in 1..Len(ds[i]), NEW m \in 1..Len(ds[j]),
                      ds[i][n] = ds[j][m]
               PROVE  i = j /\ n = m
    BY DEF Distinct
  <2>1. CASE i = k /\ n = Len(ds[k])
    BY <1>0, <1>2, <2>1, <1>p, <1>q, <1>r, <1>s
  <2>2. CASE j = k /\ m = Len(ds[k])
    <3>1. ds[i][n] = h
      BY <1>0, <2>2, <1>p, <1>q, <1>r, <1>s
    <3>2. ~(i \in 1..Len(cs) /\ n \in 1..Len(cs[i]) /\ ds[i][n] = cs[i][n])
      BY <1>2, <3>1
    <3> QED BY <1>0, <2>2, <3>2, <1>p, <1>q, <1>r, <1>s
  <2>3. CASE /\ i \in 1..Len(cs) /\ n \in 1..Len(cs[i]) /\ ds[i][n] = cs[i][n]
             /\ j \in 1..Len(cs) /\ m \in 1..Len(cs[j]) /\ ds[j][m] = cs[j][m]
    <3>1. cs[i][n] = cs[j][m] => i = j /\ n = m
      BY <2>3 DEF GoodChains, Distinct
    <3> QED BY <2>3, <3>1
  <2> QED BY <1>0, <2>1, <2>2, <2>3, <1>p, <1>q, <1>r, <1>s
<1>4. \A x : x \in Known(ds) <=> x \in Known(cs) \/ x = h
  <2>1. ASSUME NEW x, x \in Known(ds) PROVE x \in Known(cs) \/ x = h
    <3>1. PICK i \in 1..Len(ds) : \E n \in 1..Len(ds[i]) : ds[i][n] = x
      BY <2>1, KnownWhere
    <3>2. PICK n \in 1..Len(ds[i]) : ds[i][n] = x
      BY <3>1
    <3>3. CASE i = k /\ n = Len(ds[k])
      BY <1>0, <3>2, <3>3, <1>p, <1>q, <1>r, <1>s
    <3>4. CASE i \in 1..Len(cs) /\ n \in 1..Len(cs[i]) /\ ds[i][n] = cs[i][n]
      BY <1>0, <3>2, <3>4, KnownWhere
    <3> QED BY <1>0, <3>3, <3>4, <1>p, <1>q, <1>r, <1>s
  <2>2. ASSUME NEW x, x \in Known(cs) PROVE x \in Known(ds)
    <3>1. PICK i \in 1..Len(cs) : \E n \in 1..Len(cs[i]) : cs[i][n] = x
      BY <1>0, <2>2, KnownWhere
    <3>2. PICK n \in 1..Len(cs[i]) : cs[i][n] = x
      BY <3>1
    <3>3. i \in 1..Len(ds) /\ n \in 1..Len(ds[i]) /\ ds[i][n] = x
      BY <1>0, <3>2, <1>p, <1>q, <1>r, <1>s
    <3> QED BY <3>3, KnownWhere
  <2>3. h \in Known(ds)
    <3>1. k \in 1..Len(ds) /\ Len(ds[k]) \in 1..Len(ds[k]) /\ ds[k][Len(ds[k])] = h
      BY <1>0, <1>p, <1>q, <1>r, <1>s
    <3> QED BY <3>1, KnownWhere
  <2> QED BY <2>1, <2>2, <2>3
<1>5. ASSUME NEW i \in 1..Len(ds), NEW n \in 1..Len(ds[i]), n > 1
      PROVE  ds[i][n] # Genesis /\ Parent[ds[i][n]] = ds[i][n - 1]
  <2>1. CASE i \in 1..Len(cs) /\ n \in 1..Len(cs[i]) /\ ds[i][n] = cs[i][n]
    <3>1. n - 1 \in 1..Len(cs[i])
      BY <1>1, <1>5, <2>1
    <3>2. ds[i][n - 1] = cs[i][n - 1]
      BY <1>0, <2>1, <3>1, <1>p, <1>q, <1>r, <1>s
    <3>3. cs[i][n] # Genesis /\ Parent[cs[i][n]] = cs[i][n - 1]
      BY <1>5, <2>1 DEF GoodChains, Linked
    <3> QED BY <2>1, <3>2, <3>3
  <2>2. CASE i = k /\ n = Len(ds[k])
    <3>1. k \in 1..Len(cs)
      <4>1. Len(ds[k]) # 1
        <5>1. \A x \in Nat : x > 1 => x # 1
          OBVIOUS
        <5> QED BY <1>1, <1>5, <2>2, <5>1
      <4> QED BY <1>0, <4>1, <1>p, <1>q, <1>r, <1>s
    <3>2. n - 1 = Len(cs[k]) /\ Len(cs[k]) \in 1..Len(cs[k])
      <4>1. Len(ds[k]) = Len(cs[k]) + 1
        BY <1>0, <3>1, <1>p, <1>q, <1>r, <1>s
      <4>2. Len(cs[k]) \in Nat \ {0}
        BY <1>1, <3>1
      <4> QED BY <2>2, <4>1, <4>2
    <3>3. ds[k][n - 1] = cs[k][Len(cs[k])]
      BY <1>0, <3>1, <3>2, <1>p, <1>q, <1>r, <1>s
    <3>4. cs[k][Len(cs[k])] = Parent[h]
      <4>1. k <= Len(cs)
        BY <3>1
      <4> QED BY <4>1 DEF Grows
    <3>5. ds[i][n] = h
      BY <1>0, <2>2, <1>p, <1>q, <1>r, <1>s
    <3> QED BY <2>2, <3>3, <3>4, <3>5
  <2> QED BY <1>0, <2>1, <2>2, <1>p, <1>q, <1>r, <1>s
<1>6. ASSUME NEW i \in 1..Len(ds), i > 1
      PROVE  /\ ds[i][1] # Genesis
             /\ \E j \in 1..i-1 : \E m \in 1..Len(ds[j])-1 : ds[j][m] = Parent[ds[i][1]]
  <2>1. CASE i \in 1..Len(cs)
    <3>1. PICK j \in 1..i-1 : \E m \in 1..Len(cs[j])-1 : cs[j][m] = Parent[cs[i][1]]
      BY <1>6, <2>1 DEF GoodChains, Linked
    <3>2. PICK m \in 1..Len(cs[j])-1 : cs[j][m] = Parent[cs[i][1]]
      BY <3>1
    <3>3. j \in 1..Len(cs)
      BY <1>1, <2>1
    <3>4. Len(cs[j]) <= Len(ds[j]) /\ Len(cs[j]) \in Nat /\ Len(ds[j]) \in Nat
      BY <1>0, <1>1, <3>3, <1>p, <1>q, <1>r, <1>s
    <3>5. m \in 1..Len(cs[j]) /\ m \in 1..Len(ds[j])-1
      BY <3>4
    <3>6. ds[j][m] = cs[j][m]
      BY <1>0, <3>3, <3>5, <1>p, <1>q, <1>r, <1>s
    <3>7. 1 \in 1..Len(cs[i])
      BY <1>1, <2>1
    <3>8. ds[i][1] = cs[i][1]
      BY <1>0, <2>1, <3>7, <1>p, <1>q, <1>r, <1>s
    <3>9. cs[i][1] # Genesis
      BY <1>6, <2>1 DEF GoodChains, Linked
    <3> QED BY <3>2, <3>5, <3>6, <3>8, <3>9
  <2>2. CASE i \notin 1..Len(cs)
    <3>1. i = k /\ i = Len(cs) + 1 /\ Len(ds[k]) = 1 /\ ds[k][1] = h
      <4>1. 1 \in 1..Len(ds[i])
        BY <1>1
      <4>2. i = k
        BY <1>0, <2>2, <4>1, <1>p, <1>q, <1>r, <1>s
      <4> QED BY <1>0, <2>2, <4>2, <1>p, <1>q, <1>r, <1>s
    <3>2. PICK j \in 1..Len(cs) : \E m \in 1..Len(cs[j]) : cs[j][m] = Parent[h]
      BY <1>0, KnownWhere
    <3>3. PICK m \in 1..Len(cs[j]) : cs[j][m] = Parent[h]
      BY <3>2
    <3>4. m # Len(cs[j])
      <4>1. k > Len(cs)
        BY <1>1, <3>1
      <4> QED BY <3>3, <4>1 DEF Grows
    <3>5. Len(cs[j]) <= Len(ds[j]) /\ Len(cs[j]) \in Nat /\ Len(ds[j]) \in Nat
      BY <1>0, <1>1, <1>p, <1>q, <1>r, <1>s
    <3>6. m \in 1..Len(ds[j])-1 /\ j \in 1..i-1
      BY <1>1, <3>1, <3>4, <3>5
    <3>7. ds[j][m] = cs[j][m]
      BY <1>0, <1>p, <1>q, <1>r, <1>s
    <3> QED BY <3>1, <3>3, <3>6, <3>7
  <2> QED BY <2>1, <2>2
<1> QED BY <1>3, <1>4, <1>5, <1>6 DEF GoodChains, Linked

(* Headers.connect() of a header whose parent is known adds that header,    *)
(* and changes nothing of what the chains hold already.                     *)
LEMMA ConnectAdds ==
    ASSUME NEW cs, GoodChains(cs), NEW h \in Headers \ {Genesis}, Parent[h] \in Known(cs)
    PROVE  /\ GoodChains(Connect(cs, h))
           /\ \A x : x \in Known(Connect(cs, h)) <=> x \in Known(cs) \/ x = h
           /\ h \in Known(cs) => Connect(cs, h) = cs
           /\ h \notin Known(cs) => \E k \in Nat : Grows(cs, Connect(cs, h), k, h)
<1>1. CASE h \in Known(cs)
  BY <1>1 DEF Connect
<1>2. CASE h \notin Known(cs)
  BY <1>2, ConnectGrows, GrowsGood
<1> QED BY <1>1, <1>2

(* A new store has good chains: the genesis block alone.                    *)
LEMMA NoChainsGood ==
    /\ GoodChains(NoChains) /\ Len(NoChains) = 1
    /\ \A h : h \in Known(NoChains) <=> h = Genesis
<1> DEFINE g == <<Genesis>>
<1>1. g \in Seq(Headers) /\ Len(g) = 1 /\ g[1] = Genesis /\ g # <<>>
  BY TreeAssumption
<1> HIDE DEF g
<1>2. NoChains = <<g>>
  BY DEF NoChains, g
<1>3. NoChains \in Seq(Seq(Headers)) /\ Len(NoChains) = 1 /\ NoChains[1] = g /\ NoChains # <<>>
      /\ DOMAIN NoChains = 1..1
  BY <1>1, <1>2
<1>4. \A x : x \in 1..1 <=> x = 1
  OBVIOUS
<1>5. IsChains(NoChains)
  BY <1>1, <1>3, <1>4 DEF IsChains
<1>6. Linked(NoChains)
  <2>1. ~ (1 > 1)
    OBVIOUS
  <2> QED BY <1>1, <1>3, <1>4, <2>1 DEF Linked
<1>7. Distinct(NoChains)
  BY <1>1, <1>3, <1>4 DEF Distinct
<1>8. \A h : h \in Known(NoChains) <=> h = Genesis
  BY <1>1, <1>3, <1>4, <1>5, KnownWhere
<1> QED BY <1>3, <1>5, <1>6, <1>7, <1>8 DEF GoodChains

-----------------------------------------------------------------------------
(* FoldLeft(Connect, b, s): the chains b with the headers of s connected, in *)
(* this order.  It is a recursive function of the set of indices that have  *)
(* been connected, so first that there is one.                              *)
IsReading(g, b, s, n) ==
    g = [T \in SUBSET (1..n) |->
            IF T = {} THEN b ELSE Connect(g[T \ {Max(T)}], s[Max(T)])]

Reading(b, s, n) == (CHOOSE g : IsReading(g, b, s, n))[1..n]

(* Such a function exists for any sequence, by least counterexample.        *)
LEMMA ReadingExists ==
    ASSUME NEW b, NEW s, NEW n \in Nat
    PROVE  \E g : IsReading(g, b, s, n)
<1> SUFFICES ASSUME ~ \E g : IsReading(g, b, s, n) PROVE FALSE
  OBVIOUS
<1> DEFINE N == {m \in Nat : ~ \E g : IsReading(g, b, s, m)}
<1>1. PICK m \in N : \A k \in N : m <= k
  <2>1. N \in SUBSET Nat /\ N # {}
    OBVIOUS
  <2> HIDE DEF N
  <2> QED BY <2>1, LeastNatural
<1>2. m \in Nat /\ \A g : ~IsReading(g, b, s, m)
  OBVIOUS
<1>3. m = 0 \/ \E g : IsReading(g, b, s, m - 1)
  <2>1. m # 0 => m - 1 \in Nat /\ ~(m <= m - 1)
    BY <1>2
  <2> QED BY <1>1, <2>1
<1> HIDE DEF N
<1>4. CASE m = 0
  <2> DEFINE f == [T \in SUBSET (1..0) |-> b]
  <2>1. \A T \in SUBSET (1..0) : T = {}
    OBVIOUS
  <2>2. f = [T \in SUBSET (1..0) |->
                IF T = {} THEN b ELSE Connect(f[T \ {Max(T)}], s[Max(T)])]
    BY <2>1, Zenon
  <2> QED BY <1>2, <1>4, <2>2 DEF IsReading
<1>5. CASE m # 0
  <2>1. PICK g : IsReading(g, b, s, m - 1)
    BY <1>3, <1>5
  <2>2. \A T \in SUBSET (1 .. m-1) :
           g[T] = IF T = {} THEN b ELSE Connect(g[T \ {Max(T)}], s[Max(T)])
    <3>1. g = [T \in SUBSET (1 .. m-1) |->
                IF T = {} THEN b ELSE Connect(g[T \ {Max(T)}], s[Max(T)])]
      BY <2>1 DEF IsReading
    <3> QED BY <3>1
  <2> DEFINE f == [T \in SUBSET (1..m) |-> IF m \in T THEN Connect(g[T \ {m}], s[m])
                                           ELSE g[T]]
  <2>3. ASSUME NEW T \in SUBSET (1..m)
        PROVE  f[T] = IF T = {} THEN b ELSE Connect(f[T \ {Max(T)}], s[Max(T)])
    <3>1. f[T] = IF m \in T THEN Connect(g[T \ {m}], s[m]) ELSE g[T]
      OBVIOUS
    <3>2. \A U \in SUBSET (1..m) : m \notin U => f[U] = g[U]
      OBVIOUS
    <3> HIDE DEF f
    <3>3. CASE m \in T
      <4>1. Max(T) = m
        <5>1. T \in SUBSET (0..m) /\ T # {}
          BY <1>2, <3>3
        <5>2. Max(T) \in T /\ \A y \in T : y <= Max(T)
          BY <1>2, <5>1, MaxBounded
        <5>3. Max(T) \in 1..m /\ m <= Max(T)
          BY <3>3, <5>2
        <5> QED BY <1>2, <5>3
      <4>2. f[T \ {m}] = g[T \ {m}]
        BY <3>2
      <4> QED BY <3>1, <3>3, <4>1, <4>2
    <3>4. CASE m \notin T
      <4>1. T \in SUBSET (1 .. m-1) /\ T \ {Max(T)} \in SUBSET (1..m) /\ m \notin T \ {Max(T)}
        <5>1. \A x \in 1..m : x # m => x \in 1 .. m-1
          BY <1>2
        <5> QED BY <3>4, <5>1
      <4>2. f[T] = g[T] /\ f[T \ {Max(T)}] = g[T \ {Max(T)}]
        BY <3>2, <3>4, <4>1
      <4>3. g[T] = IF T = {} THEN b ELSE Connect(g[T \ {Max(T)}], s[Max(T)])
        BY <2>2, <4>1
      <4> QED BY <4>2, <4>3
    <3> QED BY <3>3, <3>4
  <2>4. f = [T \in SUBSET (1..m) |-> f[T]]
    OBVIOUS
  <2> HIDE DEF f
  <2>5. f = [T \in SUBSET (1..m) |->
                IF T = {} THEN b ELSE Connect(f[T \ {Max(T)}], s[Max(T)])]
    BY <2>3, <2>4, Zenon
  <2> QED BY <1>2, <2>5 DEF IsReading
<1> QED BY <1>4, <1>5

(* Its values go header by header.                                          *)
LEMMA ReadingSteps ==
    ASSUME NEW b, NEW g, NEW s, NEW n \in Nat, IsReading(g, b, s, n)
    PROVE  /\ g[1..0] = b
           /\ \A k \in 1..n : g[1..k] = Connect(g[1 .. k-1], s[k])
<1>1. \A T \in SUBSET (1..n) :
         g[T] = IF T = {} THEN b ELSE Connect(g[T \ {Max(T)}], s[Max(T)])
  <2>1. g = [T \in SUBSET (1..n) |->
                IF T = {} THEN b ELSE Connect(g[T \ {Max(T)}], s[Max(T)])]
    BY DEF IsReading
  <2> QED BY <2>1
<1>2. g[1..0] = b
  <2>1. 1..0 = {} /\ {} \in SUBSET (1..n)
    OBVIOUS
  <2> QED BY <1>1, <2>1
<1>3. ASSUME NEW k \in 1..n PROVE g[1..k] = Connect(g[1 .. k-1], s[k])
  <2>1. (1..k) \in SUBSET (1..n) /\ (1..k) \in SUBSET (0..k) /\ k \in 1..k /\ k \in Nat
    OBVIOUS
  <2>2. Max(1..k) \in 1..k /\ \A y \in 1..k : y <= Max(1..k)
    BY <2>1, MaxBounded
  <2>3. Max(1..k) = k
    <3>1. \A x \in 1..k : k <= x => x = k
      BY <2>1
    <3> QED BY <2>1, <2>2, <3>1
  <2>4. (1..k) \ {k} = 1 .. k-1 /\ 1..k # {}
    BY <2>1
  <2> QED BY <1>1, <2>1, <2>3, <2>4
<1> QED BY <1>2, <1>3

(* The chains that have been read depend on what has been read only.        *)
LEMMA ReadingSame ==
    ASSUME NEW b, NEW g, NEW s, NEW n \in Nat, IsReading(g, b, s, n),
           NEW f, NEW t, NEW m \in Nat, IsReading(f, b, t, m),
           NEW k \in Nat, k <= n, k <= m, \A j \in 1..k : s[j] = t[j]
    PROVE  g[1..k] = f[1..k]
<1> SUFFICES ASSUME g[1..k] # f[1..k] PROVE FALSE
  OBVIOUS
<1> DEFINE N == {i \in 0..k : g[1..i] # f[1..i]}
<1>1. PICK i \in N : \A j \in N : i <= j
  <2>1. N \in SUBSET Nat /\ k \in N
    OBVIOUS
  <2> HIDE DEF N
  <2> QED BY <2>1, LeastNatural
<1>2. i \in 0..k /\ g[1..i] # f[1..i]
  OBVIOUS
<1>3. CASE i = 0
  BY <1>2, <1>3, ReadingSteps
<1>4. CASE i # 0
  <2>1. i - 1 \in 0..k /\ ~(i <= i - 1) /\ i \in 1..k /\ i \in 1..n /\ i \in 1..m
    BY <1>2, <1>4
  <2>2. g[1 .. i-1] = f[1 .. i-1]
    BY <1>1, <2>1
  <2>3. g[1..i] = Connect(g[1 .. i-1], s[i])
    BY <2>1, ReadingSteps
  <2>4. f[1..i] = Connect(f[1 .. i-1], t[i])
    BY <2>1, ReadingSteps
  <2>5. s[i] = t[i]
    BY <2>1
  <2> QED BY <1>2, <2>2, <2>3, <2>4, <2>5
<1> QED BY <1>3, <1>4

(* The same of Reading, which depends on nothing but the headers it has     *)
(* read.                                                                    *)
LEMMA ReadingIs ==
    ASSUME NEW b, NEW s, NEW n \in Nat
    PROVE  /\ Reading(b, s, 0) = b
           /\ Reading(b, s, n + 1) = Connect(Reading(b, s, n), s[n + 1])
           /\ \A t : (\A j \in 1..n : s[j] = t[j]) => Reading(b, s, n) = Reading(b, t, n)
<1>1. \A t : \A k \in Nat :
         LET g == CHOOSE g : IsReading(g, b, t, k) IN IsReading(g, b, t, k)
  BY ReadingExists
<1> DEFINE G(t, k) == CHOOSE g : IsReading(g, b, t, k)
<1>2. \A t : \A k \in Nat : IsReading(G(t, k), b, t, k)
  BY <1>1
<1>3. \A t, k : Reading(b, t, k) = G(t, k)[1..k]
  BY DEF Reading
<1> HIDE DEF G
<1>4. Reading(b, s, 0) = b
  BY <1>2, <1>3, ReadingSteps
<1>5. Reading(b, s, n + 1) = Connect(Reading(b, s, n), s[n + 1])
  <2>1. n + 1 \in Nat /\ n + 1 \in 1 .. n+1 /\ (n + 1) - 1 = n /\ n <= n + 1 /\ n <= n
    OBVIOUS
  <2>2. IsReading(G(s, n + 1), b, s, n + 1) /\ IsReading(G(s, n), b, s, n)
    BY <1>2, <2>1
  <2>3. G(s, n + 1)[1 .. n+1] = Connect(G(s, n + 1)[1..n], s[n + 1])
    BY <2>1, <2>2, ReadingSteps
  <2>4. G(s, n + 1)[1..n] = G(s, n)[1..n]
    BY <2>1, <2>2, ReadingSame
  <2> QED BY <1>3, <2>3, <2>4
<1>6. ASSUME NEW t, \A j \in 1..n : s[j] = t[j] PROVE Reading(b, s, n) = Reading(b, t, n)
  <2>1. IsReading(G(s, n), b, s, n) /\ IsReading(G(t, n), b, t, n) /\ n <= n
    BY <1>2
  <2>2. G(s, n)[1..n] = G(t, n)[1..n]
    BY <1>6, <2>1, ReadingSame
  <2> QED BY <1>3, <2>2
<1> QED BY <1>4, <1>5, <1>6

(* The folds with which stores connect headers are that reading.            *)
LEMMA FoldIsReading ==
    ASSUME NEW b, NEW S, NEW s \in Seq(S)
    PROVE  FoldLeft(Connect, b, s) = Reading(b, s, Len(s))
<1>1. DOMAIN s = 1..Len(s)
  OBVIOUS
<1> QED BY <1>1 DEF FoldLeft, MapThenFoldSet, Reading, IsReading

-----------------------------------------------------------------------------
(* The tree of headers.  What is defined along it from the genesis block    *)
(* exists: there are partial functions that satisfy the definition, two of  *)
(* them agree, and each header is in the domain of one.                     *)
LEMMA TreeRecursion ==
    ASSUME NEW V, NEW b \in V, NEW F \in [Headers -> [V -> V]]
    PROVE  \E f \in [Headers -> V] :
              /\ f[Genesis] = b
              /\ \A h \in Headers \ {Genesis} : f[h] = F[h][f[Parent[h]]]
<1> DEFINE Partial(D, f) ==
              /\ D \in SUBSET Headers /\ Genesis \in D /\ f \in [D -> V] /\ f[Genesis] = b
              /\ \A h \in D \ {Genesis} : Parent[h] \in D /\ f[h] = F[h][f[Parent[h]]]
<1>1. ASSUME NEW D, NEW f, Partial(D, f), NEW E, NEW g, Partial(E, g), NEW h \in D \cap E
      PROVE  f[h] = g[h]
  <2> SUFFICES ASSUME f[h] # g[h] PROVE FALSE
    OBVIOUS
  <2> DEFINE S == {x \in D \cap E : f[x] # g[x]}
  <2>1. S \in SUBSET (Headers \ {Genesis}) /\ S # {}
    BY <1>1
  <2>2. PICK x \in S : Parent[x] \notin S
    <3> HIDE DEF S
    <3> QED BY <2>1, TreeAssumption
  <2>3. x \in D \ {Genesis} /\ x \in E \ {Genesis} /\ f[x] # g[x]
    BY <2>1
  <2>4. /\ Parent[x] \in D /\ f[x] = F[x][f[Parent[x]]]
        /\ Parent[x] \in E /\ g[x] = F[x][g[Parent[x]]]
    BY <1>1, <2>3
  <2>5. f[Parent[x]] = g[Parent[x]]
    BY <2>2, <2>4
  <2> QED BY <2>3, <2>4, <2>5
<1>2. ASSUME NEW h \in Headers PROVE \E D, f : Partial(D, f) /\ h \in D
  <2> SUFFICES ASSUME ~ \E D, f : Partial(D, f) /\ h \in D PROVE FALSE
    OBVIOUS
  <2> DEFINE S == {x \in Headers : ~ \E D, f : Partial(D, f) /\ x \in D}
  <2>1. Genesis \notin S
    <3> DEFINE f == [x \in {Genesis} |-> b]
    <3>1. Partial({Genesis}, f)
      BY TreeAssumption
    <3> QED BY <3>1
  <2>2. S \in SUBSET (Headers \ {Genesis}) /\ S # {}
    BY <2>1
  <2>3. PICK x \in S : Parent[x] \notin S
    <3> HIDE DEF S
    <3> QED BY <2>2, TreeAssumption
  <2>4. x \in Headers \ {Genesis} /\ Parent[x] \in Headers
    BY <2>2, TreeAssumption
  <2>5. PICK D, f : Partial(D, f) /\ Parent[x] \in D
    BY <2>3, <2>4
  <2>6. x \notin D
    BY <2>5
  <2> DEFINE g == [y \in D \cup {x} |-> IF y = x THEN F[x][f[Parent[x]]] ELSE f[y]]
  <2>7. F[x][f[Parent[x]]] \in V
    BY <2>4, <2>5
  <2>8. g[x] = F[x][f[Parent[x]]] /\ \A y \in D : g[y] = f[y]
    BY <2>6
  <2>9. g \in [D \cup {x} -> V]
    BY <2>5, <2>7
  <2> HIDE DEF g
  <2>10. ASSUME NEW y \in (D \cup {x}) \ {Genesis}
         PROVE  Parent[y] \in D \cup {x} /\ g[y] = F[y][g[Parent[y]]]
    <3>1. CASE y = x
      BY <2>5, <2>8, <3>1
    <3>2. CASE y \in D \ {Genesis}
      <4>1. Parent[y] \in D /\ f[y] = F[y][f[Parent[y]]]
        BY <2>5, <3>2
      <4> QED BY <2>8, <3>2, <4>1
    <3> QED BY <3>1, <3>2
  <2>11. g[Genesis] = b /\ D \cup {x} \in SUBSET Headers /\ Genesis \in D \cup {x}
    BY <2>4, <2>5, <2>8
  <2>12. Partial(D \cup {x}, g)
    BY <2>9, <2>10, <2>11
  <2> QED BY <2>12
<1> DEFINE P(h, v) == \E D, g : Partial(D, g) /\ h \in D /\ g[h] = v
           f == [h \in Headers |-> CHOOSE v : P(h, v)]
<1>3. ASSUME NEW h \in Headers PROVE P(h, f[h])
  <2>1. \E v : P(h, v)
    BY <1>2
  <2>2. f[h] = CHOOSE v : P(h, v)
    OBVIOUS
  <2> HIDE DEF P, f
  <2> QED BY <2>1, <2>2
<1>4. ASSUME NEW D, NEW g, Partial(D, g), NEW h \in D PROVE f[h] = g[h]
  <2>1. h \in Headers
    BY <1>4
  <2>2. PICK E, e : Partial(E, e) /\ h \in E /\ e[h] = f[h]
    BY <1>3, <2>1
  <2> HIDE DEF f, Partial
  <2> QED BY <1>1, <1>4, <2>2
<1>5. ASSUME NEW h \in Headers
      PROVE  /\ f[h] \in V /\ (h = Genesis => f[h] = b)
             /\ h # Genesis => f[h] = F[h][f[Parent[h]]]
  <2>1. PICK D, g : Partial(D, g) /\ h \in D
    BY <1>2
  <2>2. \A x \in D : f[x] = g[x]
    BY <1>4, <2>1
  <2> HIDE DEF f
  <2> QED BY <2>1, <2>2
<1> HIDE DEF f
<1>6. f = [h \in Headers |-> f[h]]
  BY DEF f
<1>7. f \in [Headers -> V]
  BY <1>5, <1>6
<1> QED BY <1>5, <1>7, TreeAssumption

(* A property of the genesis block that a child has when its parent has it   *)
(* is one of all headers.                                                   *)
LEMMA TreeInduction ==
    ASSUME NEW S \in SUBSET Headers, Genesis \in S,
           \A h \in Headers \ {Genesis} : Parent[h] \in S => h \in S
    PROVE  S = Headers
<1> DEFINE R == Headers \ S
<1>1. R \in SUBSET (Headers \ {Genesis})
  OBVIOUS
<1>2. R # {} => \E h \in R : Parent[h] \notin R
  <2> HIDE DEF R
  <2> QED BY <1>1, TreeAssumption
<1>3. \A h \in Headers \ {Genesis} : Parent[h] \in Headers
  BY TreeAssumption
<1> QED BY <1>1, <1>2, <1>3

(* Branch satisfies its recursion.                                          *)
LEMMA BranchIs ==
    /\ Branch \in [Headers -> SUBSET Headers]
    /\ Branch[Genesis] = {Genesis}
    /\ \A h \in Headers \ {Genesis} : Branch[h] = Branch[Parent[h]] \cup {h}
<1> DEFINE F == [h \in Headers |-> [S \in SUBSET Headers |-> S \cup {h}]]
           G(f) == [h \in Headers |-> IF h = Genesis THEN {h} ELSE f[Parent[h]] \cup {h}]
           B == CHOOSE f : f = G(f)
<1>1. F \in [Headers -> [SUBSET Headers -> SUBSET Headers]]
  OBVIOUS
<1>2. {Genesis} \in SUBSET Headers
  BY TreeAssumption
<1>3. PICK f \in [Headers -> SUBSET Headers] :
         /\ f[Genesis] = {Genesis}
         /\ \A h \in Headers \ {Genesis} : f[h] = F[h][f[Parent[h]]]
  <2> DEFINE V == SUBSET Headers
             b == {Genesis}
  <2>1. F \in [Headers -> [V -> V]] /\ b \in V
    BY <1>1, <1>2
  <2> HIDE DEF F, V, b
  <2>2. \E f \in [Headers -> V] :
           /\ f[Genesis] = b
           /\ \A h \in Headers \ {Genesis} : f[h] = F[h][f[Parent[h]]]
    BY <2>1, TreeRecursion
  <2> QED BY <2>2 DEF V, b
<1>4. \A h \in Headers \ {Genesis} : f[h] = f[Parent[h]] \cup {h}
  <2> SUFFICES ASSUME NEW h \in Headers \ {Genesis} PROVE f[h] = f[Parent[h]] \cup {h}
    OBVIOUS
  <2>1. f[Parent[h]] \in SUBSET Headers
    BY TreeAssumption
  <2> QED BY <1>3, <2>1
<1>5. f = G(f)
  <2>1. f = [h \in Headers |-> f[h]]
    OBVIOUS
  <2>2. \A h \in Headers : f[h] = IF h = Genesis THEN {h} ELSE f[Parent[h]] \cup {h}
    BY <1>3, <1>4
  <2> QED BY <2>1, <2>2
<1>6. B = G(B)
  <2> HIDE DEF G
  <2> QED BY <1>5
<1>7. Branch = [h \in Headers |-> B[h]]
  BY DEF Branch
<1> HIDE DEF B
<1>8. \A h \in Headers : Branch[h] = IF h = Genesis THEN {h} ELSE Branch[Parent[h]] \cup {h}
  <2>1. \A h \in Headers : B[h] = IF h = Genesis THEN {h} ELSE B[Parent[h]] \cup {h}
    BY <1>6
  <2>2. \A h \in Headers : h # Genesis => Parent[h] \in Headers
    BY TreeAssumption
  <2> QED BY <1>7, <2>1, <2>2
<1>9. {h \in Headers : Branch[h] \in SUBSET Headers} = Headers
  <2> DEFINE S == {h \in Headers : Branch[h] \in SUBSET Headers}
  <2>1. Genesis \in S
    BY <1>2, <1>8
  <2>2. ASSUME NEW h \in Headers \ {Genesis}, Parent[h] \in S PROVE h \in S
    <3>1. Branch[h] = Branch[Parent[h]] \cup {h} /\ Branch[Parent[h]] \in SUBSET Headers
      BY <1>8, <2>2
    <3> QED BY <3>1
  <2>3. S \in SUBSET Headers
    OBVIOUS
  <2> HIDE DEF S
  <2>4. S = Headers
    BY <2>1, <2>2, <2>3, TreeInduction
  <2> QED BY <2>4 DEF S
<1>10. Branch \in [Headers -> SUBSET Headers]
  BY <1>7, <1>9
<1> QED BY <1>8, <1>10, TreeAssumption

(* Work grows from parent to child.                                         *)
LEMMA ChainWorkIs ==
    /\ ChainWork \in [Headers -> Nat]
    /\ \A h \in Headers \ {Genesis} : ChainWork[h] > ChainWork[Parent[h]]
<1> DEFINE F == [h \in Headers |-> [n \in Nat |-> n + Work[h]]]
           G(f) == [h \in Headers |-> IF h = Genesis THEN Work[h] ELSE f[Parent[h]] + Work[h]]
           W == CHOOSE f : f = G(f)
<1>0. \A h \in Headers : Work[h] \in Nat \ {0}
  BY WorkAssumption
<1>1. F \in [Headers -> [Nat -> Nat]]
  BY <1>0
<1>2. Work[Genesis] \in Nat
  BY <1>0, TreeAssumption
<1>3. PICK f \in [Headers -> Nat] :
         /\ f[Genesis] = Work[Genesis]
         /\ \A h \in Headers \ {Genesis} : f[h] = F[h][f[Parent[h]]]
  <2> DEFINE V == Nat
             b == Work[Genesis]
  <2>1. F \in [Headers -> [V -> V]] /\ b \in V
    BY <1>1, <1>2
  <2> HIDE DEF F, V, b
  <2>2. \E f \in [Headers -> V] :
           /\ f[Genesis] = b
           /\ \A h \in Headers \ {Genesis} : f[h] = F[h][f[Parent[h]]]
    BY <2>1, TreeRecursion
  <2> QED BY <2>2 DEF V, b
<1>4. \A h \in Headers \ {Genesis} : f[h] = f[Parent[h]] + Work[h]
  <2> SUFFICES ASSUME NEW h \in Headers \ {Genesis} PROVE f[h] = f[Parent[h]] + Work[h]
    OBVIOUS
  <2>1. f[Parent[h]] \in Nat
    BY TreeAssumption
  <2>2. F[h][f[Parent[h]]] = f[Parent[h]] + Work[h]
    BY <2>1
  <2> QED BY <1>3, <2>2
<1>5. f = G(f)
  <2>1. f = [h \in Headers |-> f[h]]
    OBVIOUS
  <2>2. \A h \in Headers : f[h] = IF h = Genesis THEN Work[h] ELSE f[Parent[h]] + Work[h]
    BY <1>3, <1>4
  <2> QED BY <2>1, <2>2
<1>6. W = G(W)
  <2> HIDE DEF G
  <2> QED BY <1>5
<1>7. ChainWork = [h \in Headers |-> W[h]]
  BY DEF ChainWork
<1> HIDE DEF W
<1>8. \A h \in Headers : ChainWork[h] = IF h = Genesis THEN Work[h]
                                        ELSE ChainWork[Parent[h]] + Work[h]
  <2>1. \A h \in Headers : W[h] = IF h = Genesis THEN Work[h] ELSE W[Parent[h]] + Work[h]
    BY <1>6
  <2>2. \A h \in Headers : h # Genesis => Parent[h] \in Headers
    BY TreeAssumption
  <2> QED BY <1>7, <2>1, <2>2
<1>9. \A h \in Headers : ChainWork[h] \in Nat
  <2> DEFINE S == {h \in Headers : ChainWork[h] \in Nat}
  <2>1. Genesis \in S
    BY <1>2, <1>8, TreeAssumption
  <2>2. ASSUME NEW h \in Headers \ {Genesis}, Parent[h] \in S PROVE h \in S
    <3>1. ChainWork[h] = ChainWork[Parent[h]] + Work[h] /\ ChainWork[Parent[h]] \in Nat
      BY <1>8, <2>2
    <3> QED BY <1>0, <3>1
  <2>3. S \in SUBSET Headers
    OBVIOUS
  <2> HIDE DEF S
  <2>4. S = Headers
    BY <2>1, <2>2, <2>3, TreeInduction
  <2> QED BY <2>4 DEF S
<1>10. ChainWork \in [Headers -> Nat]
  BY <1>7, <1>9
<1>11. ASSUME NEW h \in Headers \ {Genesis} PROVE ChainWork[h] > ChainWork[Parent[h]]
  <2>1. Parent[h] \in Headers
    BY TreeAssumption
  <2>2. ChainWork[h] = ChainWork[Parent[h]] + Work[h]
    BY <1>8
  <2> QED BY <1>0, <1>9, <2>1, <2>2
<1> QED BY <1>10, <1>11

(* Who is on the branch of whom.                                            *)
LEMMA BranchHolds ==
    \A h \in Headers :
        /\ h \in Branch[h] /\ Genesis \in Branch[h] /\ Branch[h] \subseteq Headers
        /\ \A x \in Branch[h] : Branch[x] \subseteq Branch[h]
        /\ \A x \in Branch[h] : x = h \/ (h # Genesis /\ x \in Branch[Parent[h]])
<1> DEFINE S == {h \in Headers :
                    /\ h \in Branch[h] /\ Genesis \in Branch[h] /\ Branch[h] \subseteq Headers
                    /\ \A x \in Branch[h] : Branch[x] \subseteq Branch[h]
                    /\ \A x \in Branch[h] : x = h \/ (h # Genesis /\ x \in Branch[Parent[h]])}
<1>1. Genesis \in S
  BY BranchIs, TreeAssumption
<1>2. ASSUME NEW h \in Headers \ {Genesis}, Parent[h] \in S PROVE h \in S
  <2>1. Branch[h] = Branch[Parent[h]] \cup {h} /\ Branch[h] \subseteq Headers
    BY BranchIs
  <2>2. Genesis \in Branch[Parent[h]] /\ \A x \in Branch[Parent[h]] : Branch[x] \subseteq Branch[Parent[h]]
    BY <1>2
  <2>3. \A x \in Branch[h] : Branch[x] \subseteq Branch[h]
    BY <2>1, <2>2
  <2> QED BY <2>1, <2>2, <2>3
<1>3. S \in SUBSET Headers
  OBVIOUS
<1> HIDE DEF S
<1>4. S = Headers
  BY <1>1, <1>2, <1>3, TreeInduction
<1> QED BY <1>4 DEF S

(* A branch is a path: of two headers on it one is on the other's branch.   *)
LEMMA BranchLinear ==
    \A h \in Headers : \A x, y \in Branch[h] : x \in Branch[y] \/ y \in Branch[x]
<1> DEFINE S == {h \in Headers : \A x, y \in Branch[h] : x \in Branch[y] \/ y \in Branch[x]}
<1>1. Genesis \in S
  BY BranchIs, TreeAssumption
<1>2. ASSUME NEW h \in Headers \ {Genesis}, Parent[h] \in S PROVE h \in S
  <2> SUFFICES ASSUME NEW x \in Branch[h], NEW y \in Branch[h]
               PROVE  x \in Branch[y] \/ y \in Branch[x]
    OBVIOUS
  <2>1. x \in Branch[Parent[h]] /\ y \in Branch[Parent[h]] => x \in Branch[y] \/ y \in Branch[x]
    BY <1>2
  <2> QED BY <2>1, BranchHolds
<1>3. S \in SUBSET Headers
  OBVIOUS
<1> HIDE DEF S
<1>4. S = Headers
  BY <1>1, <1>2, <1>3, TreeInduction
<1> QED BY <1>4 DEF S

(* The further up a branch, the more chain work.                            *)
LEMMA BranchWork ==
    \A h \in Headers : \A x \in Branch[h] : x # h => ChainWork[x] < ChainWork[h]
<1> DEFINE S == {h \in Headers : \A x \in Branch[h] : x # h => ChainWork[x] < ChainWork[h]}
<1>1. Genesis \in S
  BY BranchIs, TreeAssumption
<1>2. ASSUME NEW h \in Headers \ {Genesis}, Parent[h] \in S PROVE h \in S
  <2> SUFFICES ASSUME NEW x \in Branch[h], x # h PROVE ChainWork[x] < ChainWork[h]
    OBVIOUS
  <2>1. x \in Branch[Parent[h]] /\ Parent[h] \in Headers /\ x \in Headers
    BY BranchHolds, TreeAssumption
  <2>2. x = Parent[h] \/ ChainWork[x] < ChainWork[Parent[h]]
    BY <1>2, <2>1
  <2>3. ChainWork[Parent[h]] < ChainWork[h] /\ ChainWork[x] \in Nat
        /\ ChainWork[Parent[h]] \in Nat /\ ChainWork[h] \in Nat
    BY <2>1, ChainWorkIs
  <2> QED BY <2>2, <2>3
<1>3. S \in SUBSET Headers
  OBVIOUS
<1> HIDE DEF S
<1>4. S = Headers
  BY <1>1, <1>2, <1>3, TreeInduction
<1> QED BY <1>4 DEF S

(* Height counts the steps from the genesis block.                          *)
LEMMA HeightIs ==
    /\ Height \in [Headers -> Nat] /\ Height[Genesis] = 0
    /\ \A h \in Headers \ {Genesis} : Height[h] = Height[Parent[h]] + 1
<1> DEFINE S == {h \in Headers : IsFiniteSet(Branch[h]) /\ Cardinality(Branch[h]) \in Nat \ {0}}
<1>1. /\ \A h \in Headers : Height[h] = Cardinality(Branch[h]) - 1
      /\ Height = [h \in Headers |-> Height[h]]
  BY DEF Height
<1>2. Cardinality({Genesis}) = 1 /\ IsFiniteSet({Genesis})
  BY FS_Singleton
<1>3. Genesis \in S /\ Height[Genesis] = 0
  <2>1. Branch[Genesis] = {Genesis} /\ Genesis \in Headers
    BY BranchIs, TreeAssumption
  <2>2. Height[Genesis] = 1 - 1 /\ 1 - 1 = 0
    BY <1>1, <1>2, <2>1
  <2> QED BY <1>2, <2>1, <2>2
<1>4. ASSUME NEW h \in Headers \ {Genesis}, IsFiniteSet(Branch[Parent[h]]),
             Cardinality(Branch[Parent[h]]) \in Nat \ {0}
      PROVE  /\ IsFiniteSet(Branch[h]) /\ Cardinality(Branch[h]) \in Nat \ {0}
             /\ Cardinality(Branch[h]) = Cardinality(Branch[Parent[h]]) + 1
  <2>1. Branch[h] = Branch[Parent[h]] \cup {h}
    BY BranchIs
  <2>2. h \notin Branch[Parent[h]]
    <3>1. Parent[h] \in Headers /\ ChainWork[h] > ChainWork[Parent[h]]
          /\ ChainWork[h] \in Nat /\ ChainWork[Parent[h]] \in Nat
      BY ChainWorkIs, TreeAssumption
    <3>2. h \in Branch[Parent[h]] => h = Parent[h] \/ ChainWork[h] < ChainWork[Parent[h]]
      BY <3>1, BranchWork
    <3> QED BY <3>1, <3>2
  <2>3. /\ IsFiniteSet(Branch[Parent[h]] \cup {h})
        /\ Cardinality(Branch[Parent[h]] \cup {h}) = Cardinality(Branch[Parent[h]]) + 1
    BY <1>4, <2>2, FS_AddElement
  <2> QED BY <1>4, <2>1, <2>3
<1>5. \A h \in Headers \ {Genesis} : Parent[h] \in S => h \in S
  BY <1>4
<1>6. S \in SUBSET Headers
  OBVIOUS
<1> HIDE DEF S
<1>7. S = Headers
  BY <1>3, <1>5, <1>6, TreeInduction
<1>8. \A h \in Headers : IsFiniteSet(Branch[h]) /\ Cardinality(Branch[h]) \in Nat \ {0}
  BY <1>7 DEF S
<1>9. \A h \in Headers : Height[h] \in Nat
  BY <1>1, <1>8
<1>10. ASSUME NEW h \in Headers \ {Genesis} PROVE Height[h] = Height[Parent[h]] + 1
  <2>1. Parent[h] \in Headers
    BY TreeAssumption
  <2>2. Cardinality(Branch[h]) = Cardinality(Branch[Parent[h]]) + 1
    BY <1>4, <1>8, <2>1
  <2> QED BY <1>1, <1>8, <2>1, <2>2
<1> QED BY <1>1, <1>3, <1>9, <1>10

(* There is one header of each height on a branch.                          *)
LEMMA BranchHeight ==
    \A h \in Headers :
        /\ \A x \in Branch[h] : Height[x] <= Height[h] /\ (Height[x] = Height[h] => x = h)
        /\ \A n \in 0..Height[h] : \E x \in Branch[h] : Height[x] = n
<1> DEFINE S == {h \in Headers :
                    /\ \A x \in Branch[h] :
                          Height[x] <= Height[h] /\ (Height[x] = Height[h] => x = h)
                    /\ \A n \in 0..Height[h] : \E x \in Branch[h] : Height[x] = n}
<1>1. Genesis \in S
  <2>1. Branch[Genesis] = {Genesis} /\ Height[Genesis] = 0 /\ Genesis \in Headers
    BY BranchIs, HeightIs, TreeAssumption
  <2>2. 0 <= 0 /\ \A n \in 0..0 : n = 0
    OBVIOUS
  <2> QED BY <2>1, <2>2
<1>2. ASSUME NEW h \in Headers \ {Genesis}, Parent[h] \in S PROVE h \in S
  <2>1. /\ Branch[h] = Branch[Parent[h]] \cup {h} /\ Parent[h] \in Headers
        /\ Height[h] = Height[Parent[h]] + 1 /\ Height[Parent[h]] \in Nat
        /\ Branch[Parent[h]] \subseteq Headers
    BY BranchIs, HeightIs, TreeAssumption
  <2>2. ASSUME NEW x \in Branch[h]
        PROVE  Height[x] <= Height[h] /\ (Height[x] = Height[h] => x = h)
    <3>1. CASE x = h
      BY <2>1, <3>1
    <3>2. CASE x \in Branch[Parent[h]]
      <4>1. Height[x] <= Height[Parent[h]] /\ Height[x] \in Nat
        BY <1>2, <2>1, <3>2, HeightIs
      <4> QED BY <2>1, <4>1
    <3> QED BY <2>1, <3>1, <3>2
  <2>3. ASSUME NEW n \in 0..Height[h] PROVE \E x \in Branch[h] : Height[x] = n
    <3>1. n = Height[h] \/ n \in 0..Height[Parent[h]]
      BY <2>1
    <3>2. n \in 0..Height[Parent[h]] => \E x \in Branch[Parent[h]] : Height[x] = n
      BY <1>2
    <3> QED BY <2>1, <3>1, <3>2
  <2> QED BY <2>2, <2>3
<1>3. S \in SUBSET Headers
  OBVIOUS
<1> HIDE DEF S
<1>4. S = Headers
  BY <1>1, <1>2, <1>3, TreeInduction
<1> QED BY <1>4 DEF S

(* At(h, n) is the one ancestor of h of height n.                           *)
LEMMA AtIs ==
    ASSUME NEW h \in Headers, NEW n \in 0..Height[h]
    PROVE  /\ At(h, n) \in Branch[h] /\ Height[At(h, n)] = n
           /\ \A x \in Branch[h] : Height[x] = n => x = At(h, n)
<1>1. At(h, n) \in Branch[h] /\ Height[At(h, n)] = n
  BY BranchHeight DEF At
<1>2. ASSUME NEW x \in Branch[h], Height[x] = n PROVE x = At(h, n)
  <2>1. x \in Branch[At(h, n)] \/ At(h, n) \in Branch[x]
    BY <1>1, BranchLinear
  <2>2. x \in Headers /\ At(h, n) \in Headers
    BY <1>1, BranchHolds
  <2> QED BY <1>1, <1>2, <2>1, <2>2, BranchHeight
<1> QED BY <1>1, <1>2

(* The tip is the last header of a chain, the one with the most work.        *)
LEMMA TipIs ==
    ASSUME NEW cs, IsChains(cs)
    PROVE  \E i \in 1..Len(cs) :
              /\ Tip(cs) = cs[i][Len(cs[i])]
              /\ \A j \in 1..Len(cs) :
                    \/ ChainWork[cs[i][Len(cs[i])]] > ChainWork[cs[j][Len(cs[j])]]
                    \/ /\ ChainWork[cs[i][Len(cs[i])]] = ChainWork[cs[j][Len(cs[j])]]
                       /\ i <= j
<1> DEFINE N == Len(cs)
           W == [i \in 1..N |-> ChainWork[Last(cs[i])]]
           Best(i, n) == \A j \in 1..n : W[i] > W[j] \/ (W[i] = W[j] /\ i <= j)
<1>1. N \in Nat \ {0} /\ DOMAIN cs = 1..N /\ \A i \in 1..N : Last(cs[i]) = cs[i][Len(cs[i])]
  BY ChainsType DEF Last
<1>2. \A i \in 1..N : W[i] \in Nat
  <2> SUFFICES ASSUME NEW i \in 1..N PROVE ChainWork[Last(cs[i])] \in Nat
    OBVIOUS
  <2>1. Len(cs[i]) \in Nat \ {0} /\ \A n \in 1..Len(cs[i]) : cs[i][n] \in Headers
    BY ChainsType
  <2>2. Len(cs[i]) \in 1..Len(cs[i])
    BY <2>1
  <2>3. Last(cs[i]) \in Headers
    BY <1>1, <2>1, <2>2
  <2> QED BY <2>3, ChainWorkIs
<1>w. \A i \in 1..N : W[i] = ChainWork[Last(cs[i])]
  OBVIOUS
<1> HIDE DEF N, W
<1>3. \E i \in 1..N : Best(i, N)
  <2> SUFFICES ASSUME ~ \E i \in 1..N : Best(i, N) PROVE FALSE
    OBVIOUS
  <2> DEFINE T == {n \in 1..N : ~ \E i \in 1..n : Best(i, n)}
  <2>1. PICK n \in T : \A m \in T : n <= m
    <3>1. N \in 1..N
      BY <1>1
    <3>2. N \in T
      BY <3>1
    <3>3. T \in SUBSET Nat
      BY <1>1
    <3> HIDE DEF T
    <3> QED BY <3>2, <3>3, LeastNatural
  <2>2. n \in 1..N /\ ~ \E i \in 1..n : Best(i, n)
    OBVIOUS
  <2>3. n # 1
    <3>1. n = 1 => Best(1, n) /\ 1 \in 1..n
      BY <1>1, <1>2
    <3> QED BY <2>2, <3>1
  <2>4. n - 1 \in 1..N /\ ~(n <= n - 1)
    BY <1>1, <2>2, <2>3
  <2>5. PICK i \in 1 .. n-1 : Best(i, n - 1)
    BY <2>1, <2>4
  <2> HIDE DEF T
  <2>6. i \in 1..n /\ n \in 1..n /\ i \in 1..N /\ \A j \in 1..n : j \in 1 .. n-1 \/ j = n
    <3>1. n \in Nat /\ n <= N /\ n >= 1 /\ N \in Nat
      BY <1>1, <2>2
    <3>2. i \in 1..n /\ n \in 1..n /\ \A j \in 1..n : j \in 1 .. n-1 \/ j = n
      BY <3>1
    <3> QED BY <3>1, <3>2
  <2>7. CASE W[i] >= W[n]
    <3>1. Best(i, n)
      <4>1. W[i] > W[n] \/ (W[i] = W[n] /\ i <= n)
        BY <1>2, <2>2, <2>6, <2>7
      <4> QED BY <2>5, <2>6, <4>1
    <3> QED BY <2>2, <2>6, <3>1
  <2>8. CASE W[i] < W[n]
    <3>1. Best(n, n)
      <4> SUFFICES ASSUME NEW j \in 1..n PROVE W[n] > W[j] \/ (W[n] = W[j] /\ n <= j)
        OBVIOUS
      <4>1. CASE j = n
        BY <1>1, <2>2, <4>1
      <4>2. CASE j \in 1 .. n-1
        <5>1. W[i] > W[j] \/ W[i] = W[j]
          BY <2>5, <4>2
        <5>2. j \in 1..N
          BY <1>1, <2>2
        <5>3. W[i] \in Nat /\ W[j] \in Nat /\ W[n] \in Nat
          BY <1>2, <2>2, <2>6, <5>2
        <5> QED BY <2>8, <5>1, <5>3
      <4> QED BY <2>6, <4>1, <4>2
    <3> QED BY <2>2, <2>6, <3>1
  <2> QED BY <1>2, <2>2, <2>6, <2>7, <2>8
<1> DEFINE P(i) == \A j \in DOMAIN cs :
                      \/ ChainWork[Last(cs[i])] > ChainWork[Last(cs[j])]
                      \/ ChainWork[Last(cs[i])] = ChainWork[Last(cs[j])] /\ i <= j
           b == CHOOSE i \in DOMAIN cs : P(i)
<1>4. \E i \in DOMAIN cs : P(i)
  BY <1>1, <1>3, <1>w
<1>5. b \in DOMAIN cs /\ P(b)
  <2> HIDE DEF P
  <2> QED BY <1>4
<1>6. Tip(cs) = Last(cs[b])
  BY DEF Tip
<1> HIDE DEF b
<1> QED BY <1>1, <1>5, <1>6 DEF N

(* Of two headers at most one descends from the other.                      *)
LEMMA BranchOrder ==
    ASSUME NEW x \in Headers, NEW y \in Headers, x \in Branch[y], y \in Branch[x]
    PROVE  x = y
<1>1. ChainWork[x] \in Nat /\ ChainWork[y] \in Nat
  BY ChainWorkIs
<1>2. x # y => ChainWork[x] < ChainWork[y]
  BY BranchWork
<1>3. y # x => ChainWork[y] < ChainWork[x]
  BY BranchWork
<1> QED BY <1>1, <1>2, <1>3

(* Up to the last header of two branches both have, they are the same.      *)
LEMMA CommonIs ==
    ASSUME NEW new \in Headers, NEW old \in Headers
    PROVE  /\ CommonHeight(new, old) \in 0..Height[old] /\ CommonHeight(new, old) \in 0..Height[new]
           /\ \A x \in Branch[old] : x \in Branch[new] <=> Height[x] <= CommonHeight(new, old)
           /\ \A x \in Branch[new] : x \in Branch[old] <=> Height[x] <= CommonHeight(new, old)
<1> DEFINE C == Branch[new] \cap Branch[old]
           N == {Height[x] : x \in C}
<1>1. Branch[new] \subseteq Headers /\ Branch[old] \subseteq Headers /\ Genesis \in C
  BY BranchHolds
<1>2. \A x \in C : Height[x] \in Nat /\ Height[x] <= Height[old] /\ Height[x] <= Height[new]
  BY <1>1, HeightIs, BranchHeight
<1>3. Height[old] \in Nat /\ Height[new] \in Nat
  BY HeightIs
<1>4. N \in SUBSET (0..Height[old]) /\ N # {}
  BY <1>1, <1>2, <1>3
<1>5. CommonHeight(new, old) = Max(N)
  BY DEF CommonHeight
<1>6. Max(N) \in N /\ \A n \in N : n <= Max(N)
  <2> HIDE DEF N
  <2> QED BY <1>3, <1>4, MaxBounded
<1>7. PICK a \in C : Height[a] = CommonHeight(new, old)
  BY <1>5, <1>6
<1>8. \A x \in C : Height[x] <= Height[a]
  BY <1>5, <1>6, <1>7
<1>9. ASSUME NEW h \in {new, old}, NEW x \in Branch[h], Height[x] <= Height[a]
      PROVE  x \in C
  <2>1. a \in Branch[h] /\ x \in Headers /\ a \in Headers
    BY <1>1
  <2>2. x \in Branch[a] \/ a \in Branch[x]
    BY <2>1, BranchLinear
  <2>3. CASE x \in Branch[a]
    BY <2>1, <2>3, BranchHolds
  <2>4. CASE a \in Branch[x]
    <3>1. Height[a] <= Height[x] /\ Height[a] \in Nat /\ Height[x] \in Nat
      BY <2>1, <2>4, BranchHeight, HeightIs
    <3>2. Height[a] = Height[x]
      BY <1>9, <3>1
    <3>3. a = x
      BY <2>1, <2>4, <3>2, BranchHeight
    <3> QED BY <3>3
  <2> QED BY <2>2, <2>3, <2>4
<1>10. Height[a] \in 0..Height[old] /\ Height[a] \in 0..Height[new]
  BY <1>2, <1>3
<1> HIDE DEF N
<1> QED BY <1>7, <1>8, <1>9, <1>10

-----------------------------------------------------------------------------
(* The chains and the tree.                                                 *)

(* What is known goes back to the genesis block without a gap.              *)
LEMMA KnownClosed ==
    ASSUME NEW cs, GoodChains(cs)
    PROVE  /\ Genesis \in Known(cs) /\ Known(cs) \subseteq Headers
           /\ \A x \in Known(cs) : Branch[x] \subseteq Known(cs)
<1>0. IsChains(cs)
  BY DEF GoodChains
<1>1. /\ Len(cs) \in Nat \ {0} /\ cs[1][1] = Genesis
      /\ \A i \in 1..Len(cs) : Len(cs[i]) \in Nat \ {0}
      /\ \A i \in 1..Len(cs) : \A n \in 1..Len(cs[i]) : cs[i][n] \in Headers
  BY <1>0, ChainsType
<1>2. \A x : x \in Known(cs) <=> \E i \in 1..Len(cs) : \E n \in 1..Len(cs[i]) : cs[i][n] = x
  BY <1>0, KnownWhere
<1>3. Known(cs) \subseteq Headers
  BY <1>1, <1>2
<1>4. Genesis \in Known(cs)
  <2>1. 1 \in 1..Len(cs) /\ 1 \in 1..Len(cs[1])
    BY <1>1
  <2> QED BY <1>1, <1>2, <2>1
<1>5. ASSUME NEW x \in Known(cs), x # Genesis PROVE Parent[x] \in Known(cs)
  <2>1. PICK i \in 1..Len(cs) : \E n \in 1..Len(cs[i]) : cs[i][n] = x
    BY <1>2
  <2>2. PICK n \in 1..Len(cs[i]) : cs[i][n] = x
    BY <2>1
  <2>3. CASE n > 1
    <3>1. Parent[x] = cs[i][n - 1]
      BY <2>2, <2>3 DEF GoodChains, Linked
    <3>2. n - 1 \in 1..Len(cs[i])
      BY <1>1, <2>3
    <3> QED BY <1>2, <3>1, <3>2
  <2>4. CASE n = 1
    <3>1. i > 1
      <4>1. i # 1
        BY <1>1, <1>5, <2>2, <2>4
      <4> QED BY <1>1, <4>1
    <3>2. PICK j \in 1..i-1 : \E m \in 1..Len(cs[j])-1 : cs[j][m] = Parent[cs[i][1]]
      BY <3>1 DEF GoodChains, Linked
    <3>3. PICK m \in 1..Len(cs[j])-1 : cs[j][m] = Parent[cs[i][1]]
      BY <3>2
    <3>4. j \in 1..Len(cs)
      BY <1>1
    <3>5. m \in 1..Len(cs[j])
      <4>1. Len(cs[j]) \in Nat
        BY <1>1, <3>4
      <4> QED BY <4>1
    <3> QED BY <1>2, <2>2, <2>4, <3>3, <3>4, <3>5
  <2> QED BY <1>1, <2>3, <2>4
<1>6. \A x \in Headers : x \in Known(cs) => Branch[x] \subseteq Known(cs)
  <2> DEFINE S == {x \in Headers : x \in Known(cs) => Branch[x] \subseteq Known(cs)}
  <2>1. Genesis \in S
    BY <1>4, BranchIs, TreeAssumption
  <2>2. ASSUME NEW h \in Headers \ {Genesis}, Parent[h] \in S PROVE h \in S
    <3>1. Branch[h] = Branch[Parent[h]] \cup {h}
      BY BranchIs
    <3>2. h \in Known(cs) => Branch[Parent[h]] \subseteq Known(cs)
      BY <1>5, <2>2
    <3> QED BY <3>1, <3>2
  <2>3. S \in SUBSET Headers
    OBVIOUS
  <2> HIDE DEF S
  <2>4. S = Headers
    BY <2>1, <2>2, <2>3, TreeInduction
  <2> QED BY <2>4 DEF S
<1> QED BY <1>3, <1>4, <1>6

(* The tips are the last headers of the chains, and Tip is one of them.     *)
LEMMA TipsWhere ==
    ASSUME NEW cs, IsChains(cs)
    PROVE  /\ \A x : x \in Tips(cs) <=> \E i \in 1..Len(cs) : cs[i][Len(cs[i])] = x
           /\ Tips(cs) \subseteq Known(cs) /\ Tip(cs) \in Tips(cs)
<1>1. /\ DOMAIN cs = 1..Len(cs)
      /\ \A i \in 1..Len(cs) : Len(cs[i]) \in Nat \ {0}
  BY ChainsType
<1>2. \A i \in 1..Len(cs) : Last(cs[i]) = cs[i][Len(cs[i])] /\ Len(cs[i]) \in 1..Len(cs[i])
  <2>1. \A n \in Nat \ {0} : n \in 1..n
    OBVIOUS
  <2> QED BY <1>1, <2>1 DEF Last
<1>3. \A x : x \in Tips(cs) <=> \E i \in 1..Len(cs) : cs[i][Len(cs[i])] = x
  BY <1>1, <1>2 DEF Tips
<1>4. Tips(cs) \subseteq Known(cs)
  BY <1>2, <1>3, KnownWhere
<1>5. Tip(cs) \in Tips(cs)
  BY <1>3, TipIs
<1> QED BY <1>3, <1>4, <1>5

(* Nothing known has more chain work than the tip.                          *)
LEMMA TipBest ==
    ASSUME NEW cs, GoodChains(cs)
    PROVE  \A x \in Known(cs) : ChainWork[x] <= ChainWork[Tip(cs)]
<1>0. IsChains(cs)
  BY DEF GoodChains
<1>1. /\ \A i \in 1..Len(cs) : Len(cs[i]) \in Nat \ {0}
      /\ \A i \in 1..Len(cs) : \A n \in 1..Len(cs[i]) : cs[i][n] \in Headers
  BY <1>0, ChainsType
<1>2. ASSUME NEW i \in 1..Len(cs), NEW n \in 1..Len(cs[i])
      PROVE  ChainWork[cs[i][n]] <= ChainWork[cs[i][Len(cs[i])]]
  <2> DEFINE L == Len(cs[i])
             c == cs[i]
             T == {m \in 0..L-n : ~(ChainWork[c[n]] <= ChainWork[c[n + m]])}
  <2>1. L \in Nat /\ n \in 1..L /\ \A m \in 1..L : c[m] \in Headers
    BY <1>1
  <2>2. \A m \in 1..L : m > 1 => c[m] # Genesis /\ Parent[c[m]] = c[m - 1]
    BY DEF GoodChains, Linked
  <2> HIDE DEF L, c
  <2>3. \A m \in 1..L : ChainWork[c[m]] \in Nat
    BY <2>1, ChainWorkIs
  <2>4. \A m \in 1..L : m > 1 => ChainWork[c[m - 1]] < ChainWork[c[m]]
    <3> SUFFICES ASSUME NEW m \in 1..L, m > 1 PROVE ChainWork[c[m - 1]] < ChainWork[c[m]]
      OBVIOUS
    <3>1. c[m] \in Headers \ {Genesis} /\ Parent[c[m]] = c[m - 1]
      BY <2>1, <2>2
    <3>2. ChainWork[c[m]] > ChainWork[c[m - 1]]
      BY <3>1, ChainWorkIs
    <3>3. m - 1 \in 1..L
      BY <2>1
    <3> QED BY <2>3, <3>2, <3>3
  <2>5. T = {}
    <3> SUFFICES ASSUME T # {} PROVE FALSE
      OBVIOUS
    <3>1. PICK m \in T : \A k \in T : m <= k
      <4>1. T \in SUBSET Nat
        BY <2>1
      <4> HIDE DEF T
      <4> QED BY <4>1, LeastNatural
    <3>2. m \in 0..L-n /\ ~(ChainWork[c[n]] <= ChainWork[c[n + m]])
      OBVIOUS
    <3>3. m # 0
      <4>1. n + 0 = n /\ ChainWork[c[n]] <= ChainWork[c[n]]
        BY <2>1, <2>3
      <4> QED BY <3>2, <4>1
    <3>4. /\ m - 1 \in 0..L-n /\ ~(m <= m - 1) /\ n + m \in 1..L /\ n + m > 1
          /\ n + (m - 1) = (n + m) - 1 /\ (n + m) - 1 \in 1..L
      BY <2>1, <3>2, <3>3
    <3>5. ChainWork[c[n]] <= ChainWork[c[n + (m - 1)]]
      BY <3>1, <3>4
    <3> HIDE DEF T
    <3>6. ChainWork[c[(n + m) - 1]] < ChainWork[c[n + m]]
      BY <2>4, <3>4
    <3> QED BY <2>1, <2>3, <3>2, <3>4, <3>5, <3>6
  <2>6. L - n \in 0..L-n /\ n + (L - n) = L
    BY <2>1
  <2>7. ChainWork[c[n]] <= ChainWork[c[L]]
    BY <2>5, <2>6
  <2> QED BY <2>7 DEF L, c
<1>3. PICK b \in 1..Len(cs) :
         /\ Tip(cs) = cs[b][Len(cs[b])]
         /\ \A j \in 1..Len(cs) :
               \/ ChainWork[cs[b][Len(cs[b])]] > ChainWork[cs[j][Len(cs[j])]]
               \/ /\ ChainWork[cs[b][Len(cs[b])]] = ChainWork[cs[j][Len(cs[j])]]
                  /\ b <= j
  BY <1>0, TipIs
<1>4. ASSUME NEW x \in Known(cs) PROVE ChainWork[x] <= ChainWork[Tip(cs)]
  <2>1. PICK i \in 1..Len(cs) : \E n \in 1..Len(cs[i]) : cs[i][n] = x
    BY <1>0, KnownWhere
  <2>2. PICK n \in 1..Len(cs[i]) : cs[i][n] = x
    BY <2>1
  <2>3. ChainWork[x] <= ChainWork[cs[i][Len(cs[i])]]
    BY <1>2, <2>2
  <2>4. Len(cs[i]) \in 1..Len(cs[i]) /\ Len(cs[b]) \in 1..Len(cs[b])
    <3>1. \A m \in Nat \ {0} : m \in 1..m
      OBVIOUS
    <3> QED BY <1>1, <3>1
  <2>5. /\ ChainWork[x] \in Nat /\ ChainWork[cs[i][Len(cs[i])]] \in Nat
        /\ ChainWork[cs[b][Len(cs[b])]] \in Nat
    BY <1>1, <2>2, <2>4, ChainWorkIs
  <2>6. \/ ChainWork[cs[b][Len(cs[b])]] > ChainWork[cs[i][Len(cs[i])]]
        \/ ChainWork[cs[b][Len(cs[b])]] = ChainWork[cs[i][Len(cs[i])]]
    BY <1>3
  <2> QED BY <1>3, <2>3, <2>5, <2>6
<1> QED BY <1>4

(* Which tips there are after a header has been connected.                  *)
LEMMA GrowsTips ==
    ASSUME NEW cs, NEW ds, IsChains(cs), IsChains(ds), NEW k, NEW h, Grows(cs, ds, k, h)
    PROVE  /\ h \in Tips(ds)
           /\ \A t \in Tips(cs) : t \in Tips(ds) \/ t = Parent[h]
           /\ Parent[h] \in Tips(cs) => Len(ds) = Len(cs)
           /\ Len(ds) # Len(cs) => Tips(cs) \subseteq Tips(ds)
<1>1. Len(cs) \in Nat /\ Len(ds) \in Nat
  BY ChainsType
<1>2. /\ Len(ds) \in {Len(cs), Len(cs) + 1} /\ k \in 1..Len(ds)
      /\ Len(ds) = Len(cs) + 1 => k = Len(ds)
      /\ \A i \in 1..Len(cs) : i # k => ds[i] = cs[i]
      /\ ds[k][Len(ds[k])] = h
  BY DEF Grows
<1>3. h \in Tips(ds)
  BY <1>2, TipsWhere
<1>4. \A i \in 1..Len(cs) : i \in 1..Len(ds)
  BY <1>1, <1>2
<1>5. \A t \in Tips(cs) : \E i \in 1..Len(cs) : cs[i][Len(cs[i])] = t
  BY TipsWhere
<1>6. \A i \in 1..Len(cs) : i # k => cs[i][Len(cs[i])] \in Tips(ds)
  <2> SUFFICES ASSUME NEW i \in 1..Len(cs), i # k PROVE cs[i][Len(cs[i])] \in Tips(ds)
    OBVIOUS
  <2>1. ds[i][Len(ds[i])] = cs[i][Len(cs[i])]
    BY <1>2
  <2> QED BY <1>4, <2>1, TipsWhere
<1>7. CASE k <= Len(cs)
  <2>1. Len(ds) = Len(cs) /\ cs[k][Len(cs[k])] = Parent[h]
    <3>1. Len(ds) = Len(cs)
      BY <1>1, <1>2, <1>7
    <3>2. cs[k][Len(cs[k])] = Parent[h]
      BY <1>7 DEF Grows
    <3> QED BY <3>1, <3>2
  <2> QED BY <1>3, <1>5, <1>6, <2>1
<1>8. CASE k > Len(cs)
  <2>1. \A i \in 1..Len(cs) : i # k
    BY <1>1, <1>8
  <2>2. \A i \in 1..Len(cs) : cs[i][Len(cs[i])] # Parent[h]
    BY <1>8 DEF Grows
  <2> QED BY <1>3, <1>5, <1>6, <2>1, <2>2
<1> QED BY <1>1, <1>2, <1>7, <1>8

(* Connecting headers, each after its parent, adds just these.              *)
LEMMA FoldConnects ==
    ASSUME NEW b, GoodChains(b), NEW s \in Seq(Headers \ {Genesis}),
           \A i \in 1..Len(s) :
               Parent[s[i]] \in Known(b) \/ \E j \in 1..i-1 : s[j] = Parent[s[i]]
    PROVE  /\ GoodChains(FoldLeft(Connect, b, s))
           /\ \A x : x \in Known(FoldLeft(Connect, b, s))
                       <=> x \in Known(b) \/ \E i \in 1..Len(s) : s[i] = x
<1> DEFINE Added(n) ==
              /\ GoodChains(Reading(b, s, n))
              /\ \A x : x \in Known(Reading(b, s, n))
                          <=> x \in Known(b) \/ \E i \in 1..n : s[i] = x
           N == {n \in 0..Len(s) : ~Added(n)}
<1>1. Added(0)
  BY ReadingIs
<1>2. ASSUME NEW n \in 0..Len(s), n # Len(s), Added(n) PROVE Added(n + 1)
  <2> DEFINE cs == Reading(b, s, n)
             h == s[n + 1]
  <2>1. n \in Nat /\ n + 1 \in 1..Len(s) /\ 1 .. (n+1) - 1 = 1..n
    BY <1>2
  <2>2. h \in Headers \ {Genesis}
    BY <2>1
  <2>3. Parent[h] \in Known(b) \/ \E j \in 1..n : s[j] = Parent[h]
    BY <2>1
  <2>4. Parent[h] \in Known(cs) /\ GoodChains(cs)
    BY <1>2, <2>3
  <2>5. Reading(b, s, n + 1) = Connect(cs, h)
    BY <2>1, ReadingIs
  <2>6. \A x : (\E i \in 1 .. n+1 : s[i] = x) <=> (\E i \in 1..n : s[i] = x) \/ x = h
    <3>1. \A i : i \in 1 .. n+1 <=> i \in 1..n \/ i = n + 1
      BY <2>1
    <3> QED BY <3>1
  <2> HIDE DEF cs, h
  <2>7. /\ GoodChains(Connect(cs, h))
        /\ \A x : x \in Known(Connect(cs, h)) <=> x \in Known(cs) \/ x = h
    BY <2>2, <2>4, ConnectAdds
  <2> QED BY <1>2, <2>5, <2>6, <2>7 DEF cs
<1>3. Len(s) \in Nat
  OBVIOUS
<1> HIDE DEF Added
<1>4. Added(Len(s))
  <2> SUFFICES ASSUME ~Added(Len(s)) PROVE FALSE
    OBVIOUS
  <2>1. N \in SUBSET Nat /\ Len(s) \in N
    BY <1>3
  <2> HIDE DEF N
  <2>2. PICK n \in N : \A m \in N : n <= m
    BY <2>1, LeastNatural
  <2>3. n \in 0..Len(s) /\ ~Added(n)
    BY <2>2 DEF N
  <2>4. n # 0
    BY <1>1, <2>3
  <2>5. n - 1 \in 0..Len(s) /\ n - 1 # Len(s) /\ (n - 1) + 1 = n /\ ~(n <= n - 1)
    BY <1>3, <2>3, <2>4
  <2>6. Added(n - 1)
    BY <2>2, <2>5 DEF N
  <2> QED BY <1>2, <2>3, <2>5, <2>6
<1>5. FoldLeft(Connect, b, s) = Reading(b, s, Len(s))
  BY FoldIsReading
<1> QED BY <1>4, <1>5 DEF Added

(* Chains that hold one branch are one chain, and its tip is theirs.        *)
LEMMA LineIsOne ==
    ASSUME NEW cs, GoodChains(cs), NEW t \in Headers, \A x : x \in Known(cs) <=> x \in Branch[t]
    PROVE  Len(cs) = 1 /\ Tip(cs) = t
<1>1. /\ IsChains(cs) /\ Linked(cs) /\ Distinct(cs) /\ Len(cs) \in Nat \ {0}
      /\ \A i \in 1..Len(cs) : Len(cs[i]) \in Nat \ {0}
  BY ChainsType DEF GoodChains
<1>2. Tip(cs) = t
  <2>1. Tip(cs) \in Branch[t] /\ t \in Known(cs)
    BY <1>1, TipsWhere, BranchHolds
  <2>2. ChainWork[t] <= ChainWork[Tip(cs)]
    BY <2>1, TipBest
  <2>3. Tip(cs) \in Headers /\ ChainWork[t] \in Nat /\ ChainWork[Tip(cs)] \in Nat
    BY <2>1, BranchHolds, ChainWorkIs
  <2> QED BY <2>1, <2>2, <2>3, BranchWork
<1>3. Len(cs) = 1
  <2> SUFFICES ASSUME Len(cs) # 1 PROVE FALSE
    OBVIOUS
  <2>1. 2 \in 1..Len(cs) /\ 2 > 1 /\ 1 .. 2-1 = {1} /\ 1 \in 1..Len(cs)
    <3>1. \A n \in Nat \ {0} : n # 1 => 2 \in 1..n /\ 1 \in 1..n
      OBVIOUS
    <3>2. 2 > 1 /\ 2 - 1 = 1 /\ 1..1 = {1}
      OBVIOUS
    <3> QED BY <1>1, <3>1, <3>2
  <2> DEFINE k == cs[2][1]
  <2>2. PICK m \in 1 .. Len(cs[1])-1 : cs[1][m] = Parent[k]
    BY <1>1, <2>1 DEF Linked
  <2> DEFINE y == cs[1][m + 1]
  <2>3. m \in 1..Len(cs[1]) /\ m + 1 \in 1..Len(cs[1]) /\ m + 1 > 1 /\ (m + 1) - 1 = m
        /\ 1 \in 1..Len(cs[2])
    BY <1>1, <2>1, <2>2
  <2>4. k # Genesis /\ y # Genesis /\ Parent[y] = Parent[k]
    BY <1>1, <2>1, <2>2, <2>3 DEF Linked
  <2>5. k # y
    BY <1>1, <2>1, <2>3 DEF Distinct
  <2>6. k \in Known(cs) /\ y \in Known(cs)
    BY <1>1, <2>1, <2>3, KnownWhere
  <2> HIDE DEF k, y
  <2>7. k \in Headers /\ y \in Headers /\ k \in Branch[t] /\ y \in Branch[t]
    BY <2>6, BranchHolds
  <2>8. Height[k] = Height[y] /\ Height[k] \in 0..Height[t]
    <3>1. Height[k] = Height[Parent[k]] + 1 /\ Height[y] = Height[Parent[y]] + 1
      BY <2>4, <2>7, HeightIs
    <3>2. Height[k] \in Nat /\ Height[t] \in Nat /\ Height[k] <= Height[t]
      BY <2>7, HeightIs, BranchHeight
    <3> QED BY <2>4, <3>1, <3>2
  <2> QED BY <2>5, <2>7, <2>8, AtIs
<1> QED BY <1>2, <1>3
=============================================================================
