--------------------------- MODULE PeerPoolProofs ---------------------------
(***************************************************************************)
(* Proofs about the pool of the manager, for every list of hosts, every     *)
(* number of clients for each, and any order of connections and losses.     *)
(*                                                                         *)
(* The partition of the clients is inductive when it is said of every       *)
(* client that there can be, with the one place of its connect_task at      *)
(* which the pool holds it (PartInv).  For the rotation, what has to be     *)
(* kept is where each of the clients returned so far stands in the pool:    *)
(* as many places back from the selected index as it is picks ago (RotInv). *)
(***************************************************************************)
EXTENDS PeerPool, Integers, SequencesExt, SequenceTheorems, WellFoundedInduction, TLAPS

-----------------------------------------------------------------------------
(* Numbers and sequences.  A fact about all numbers is proved by looking at  *)
(* the least for which it would be false: that there is one follows from a   *)
(* theorem of the library about well-founded relations.                      *)

(* The library's theorem on minimal elements takes a relation, not an       *)
(* operator: for < on the naturals it says that a set has a least element.  *)
LEMMA LeastNatural ==
    ASSUME NEW T \in SUBSET Nat, T # {}
    PROVE  \E n \in T : \A m \in T : n <= m
<1> DEFINE R == {ss \in Nat \X Nat : ss[1] < ss[2]}
<1>1. IsWellFoundedOn(R, Nat)
  BY NatLessThanWellFounded DEF OpToRel
<1>2. \A x, y \in Nat : y < x => <<y, x>> \in R
  OBVIOUS
<1> HIDE DEF R
<1>3. PICK x \in T : \A y \in T : ~ (<<y, x>> \in R)
  BY <1>1, WFMin
<1>4. \A y \in T : ~ (y < x)
  BY <1>2, <1>3, Zenon
<1>5. \A y \in T : x <= y
  BY <1>4
<1> QED BY <1>5

(* The least of any set of naturals.                                        *)
LEMMA MinNatural ==
    ASSUME NEW T \in SUBSET Nat, T # {}
    PROVE  Min(T) \in T /\ \A y \in T : Min(T) <= y
BY LeastNatural DEF Min

(* The elements of a sequence.                                               *)
LEMMA ToSetIn ==
    ASSUME NEW S, NEW s \in Seq(S)
    PROVE  /\ ToSet(s) \subseteq S /\ s \in Seq(ToSet(s))
           /\ \A x : x \in ToSet(s) <=> \E i \in 1..Len(s) : s[i] = x
<1>1. DOMAIN s = 1..Len(s) /\ Len(s) \in Nat
  OBVIOUS
<1>2. ToSet(s) \subseteq S /\ \A x : x \in ToSet(s) <=> \E i \in 1..Len(s) : s[i] = x
  BY <1>1 DEF ToSet
<1>3. s \in Seq(Range(s))
  BY SeqOfRange
<1>4. Range(s) = ToSet(s)
  BY DEF Range, ToSet
<1> QED BY <1>2, <1>3, <1>4

(* What Append() does to the elements of a sequence.                        *)
LEMMA AppendElements ==
    ASSUME NEW S, NEW s \in Seq(S), NEW e \in S
    PROVE  /\ Append(s, e) \in Seq(S) /\ Append(s, e) # <<>>
           /\ Len(Append(s, e)) = Len(s) + 1
           /\ ToSet(Append(s, e)) = ToSet(s) \cup {e}
           /\ IsInjective(s) /\ e \notin ToSet(s) => IsInjective(Append(s, e))
<1> DEFINE t == Append(s, e)
<1>1. /\ t \in Seq(S) /\ t # <<>> /\ Len(t) = Len(s) + 1 /\ Len(s) \in Nat
      /\ \A i \in 1..Len(s) : t[i] = s[i]
      /\ t[Len(s) + 1] = e
  BY AppendProperties
<1>2. DOMAIN t = 1..Len(s)+1 /\ DOMAIN s = 1..Len(s)
  BY <1>1
<1> HIDE DEF t
<1>3. ToSet(t) = ToSet(s) \cup {e}
  <2>1. ASSUME NEW x \in ToSet(t) PROVE x \in ToSet(s) \cup {e}
    BY <1>1, <1>2 DEF ToSet
  <2>2. ASSUME NEW x \in ToSet(s) PROVE x \in ToSet(t)
    BY <1>1, <1>2 DEF ToSet
  <2>3. e \in ToSet(t)
    BY <1>1, <1>2 DEF ToSet
  <2> QED BY <2>1, <2>2, <2>3
<1>4. IsInjective(s) /\ e \notin ToSet(s) => IsInjective(t)
  BY <1>1, <1>2 DEF IsInjective, ToSet
<1> QED BY <1>1, <1>3, <1>4 DEF t

(* RemoveFirst() takes out one occurrence; of a sequence without            *)
(* repetitions it takes out the element.                                    *)
LEMMA RemoveFirstElements ==
    ASSUME NEW S, NEW s \in Seq(S), NEW e
    PROVE  /\ RemoveFirst(s, e) \in Seq(S)
           /\ ToSet(RemoveFirst(s, e)) \subseteq ToSet(s)
           /\ e \notin ToSet(s) => RemoveFirst(s, e) = s
           /\ e \in ToSet(s) => RemoveFirst(s, e) # s
           /\ IsInjective(s) => /\ IsInjective(RemoveFirst(s, e))
                                /\ ToSet(RemoveFirst(s, e)) = ToSet(s) \ {e}
<1>1. DOMAIN s = 1..Len(s) /\ Len(s) \in Nat
  OBVIOUS
<1>2. CASE e \notin ToSet(s)
  <2>1. RemoveFirst(s, e) = s
    BY <1>1, <1>2 DEF RemoveFirst, ToSet
  <2> QED BY <1>2, <2>1
<1>3. CASE e \in ToSet(s)
  <2> DEFINE I == {i \in 1..Len(s) : s[i] = e}
             k == Min(I)
             t == RemoveFirst(s, e)
  <2>1. I \in SUBSET Nat /\ I # {}
    BY <1>1, <1>3 DEF ToSet
  <2>2. k \in I
    BY <2>1, MinNatural
  <2>3. t = RemoveAt(s, k)
    BY <1>1, <1>3 DEF RemoveFirst, SelectInSeq, ToSet
  <2> HIDE DEF k
  <2>4. k \in 1..Len(s) /\ s[k] = e
    BY <2>2
  <2> HIDE DEF t, I
  <2> DEFINE a == SubSeq(s, 1, k - 1)  b == SubSeq(s, k + 1, Len(s))
  <2>5. /\ a \in Seq(S) /\ Len(a) = k - 1 /\ \A i \in 1..k-1 : a[i] = s[i]
        /\ b \in Seq(S) /\ Len(b) = Len(s) - k /\ \A i \in 1..Len(s)-k : b[i] = s[k + i]
    <3>1. /\ 1 \in Int /\ k - 1 \in Int /\ k + 1 \in Int /\ Len(s) \in Int /\ k \in Nat
          /\ k <= Len(s) /\ 1 <= k
      BY <1>1, <2>4
    <3>2. (\A i \in 1..k-1 : s[i] \in S) /\ \A i \in k+1..Len(s) : s[i] \in S
      BY <1>1, <2>4
    <3>3. /\ a \in Seq(S) /\ Len(a) = IF 1 <= k - 1 THEN k - 1 - 1 + 1 ELSE 0
          /\ \A i \in 1 .. k - 1 - 1 + 1 : a[i] = s[1 + i - 1]
      BY <3>1, <3>2, SubSeqProperties
    <3>4. /\ b \in Seq(S)
          /\ Len(b) = IF k + 1 <= Len(s) THEN Len(s) - (k + 1) + 1 ELSE 0
          /\ \A i \in 1 .. Len(s) - (k + 1) + 1 : b[i] = s[k + 1 + i - 1]
      BY <3>1, <3>2, SubSeqProperties
    <3> HIDE DEF a, b
    <3>5. Len(a) = k - 1 /\ \A i \in 1..k-1 : a[i] = s[i]
      BY <3>1, <3>3
    <3>6. Len(b) = Len(s) - k /\ \A i \in 1..Len(s)-k : b[i] = s[k + i]
      BY <3>1, <3>4
    <3> QED BY <3>3, <3>4, <3>5, <3>6
  <2>6. t = a \o b
    BY <2>3 DEF RemoveAt
  <2> HIDE DEF a, b
  <2>7. /\ t \in Seq(S) /\ Len(t) = Len(s) - 1 /\ DOMAIN t = 1..Len(s)-1
        /\ \A i \in 1..Len(s)-1 : t[i] = IF i < k THEN s[i] ELSE s[i + 1]
    <3>0. /\ t \in Seq(S) /\ Len(t) = Len(a) + Len(b)
          /\ \A i \in 1 .. Len(a) + Len(b) :
                t[i] = IF i <= Len(a) THEN a[i] ELSE b[i - Len(a)]
      BY <2>5, <2>6, ConcatProperties
    <3>1. t \in Seq(S) /\ Len(t) = Len(s) - 1
      BY <1>1, <2>4, <2>5, <3>0
    <3>2. \A i \in 1..Len(s)-1 : t[i] = IF i <= k - 1 THEN a[i] ELSE b[i - (k - 1)]
      BY <1>1, <2>4, <2>5, <3>0
    <3>3. Len(s) \in Nat /\ k \in Nat /\ 1 <= k /\ k <= Len(s)
      BY <1>1, <2>4
    <3>4. \A i \in 1..Len(s)-1 : i < k => t[i] = s[i]
      <4> SUFFICES ASSUME NEW i \in 1..Len(s)-1, i < k PROVE t[i] = s[i]
        OBVIOUS
      <4>1. i <= k - 1 /\ i \in 1..k-1
        BY <3>3
      <4> QED BY <2>5, <3>2, <4>1
    <3>5. \A i \in 1..Len(s)-1 : ~(i < k) => t[i] = s[i + 1]
      <4> SUFFICES ASSUME NEW i \in 1..Len(s)-1, ~(i < k) PROVE t[i] = s[i + 1]
        OBVIOUS
      <4>1. /\ ~(i <= k - 1) /\ i - (k - 1) \in 1..Len(s)-k /\ k + (i - (k - 1)) = i + 1
        BY <3>3
      <4> QED BY <2>5, <3>2, <4>1
    <3>6. DOMAIN t = 1..Len(s)-1
      BY <3>1
    <3> QED BY <3>1, <3>4, <3>5, <3>6
  <2>8. ToSet(t) \subseteq ToSet(s)
    BY <1>1, <2>4, <2>7 DEF ToSet
  <2>9. t # s
    BY <1>1, <2>7
  <2>10. ASSUME IsInjective(s) PROVE IsInjective(t)
    <3> SUFFICES ASSUME NEW i \in 1..Len(s)-1, NEW j \in 1..Len(s)-1, t[i] = t[j]
                 PROVE  i = j
      BY <2>7 DEF IsInjective
    <3>1. \A m, n \in 1..Len(s) : s[m] = s[n] => m = n
      BY <1>1, <2>10 DEF IsInjective
    <3> QED BY <1>1, <2>4, <2>7, <3>1
  <2>11. ASSUME IsInjective(s) PROVE ToSet(t) = ToSet(s) \ {e}
    <3>1. \A m, n \in 1..Len(s) : s[m] = s[n] => m = n
      BY <1>1, <2>11 DEF IsInjective
    <3>2. \A i \in 1..Len(s)-1 : t[i] # e
      BY <1>1, <2>4, <2>7, <3>1
    <3>3. ASSUME NEW x \in ToSet(s), x # e PROVE x \in ToSet(t)
      <4>1. PICK m \in 1..Len(s) : s[m] = x
        BY <1>1 DEF ToSet
      <4>2. CASE m < k
        BY <1>1, <2>4, <2>7, <4>1, <4>2 DEF ToSet
      <4>3. CASE m > k
        <5>1. m - 1 \in 1..Len(s)-1 /\ t[m - 1] = s[m]
          BY <1>1, <2>4, <2>7, <4>3
        <5> QED BY <2>7, <4>1, <5>1 DEF ToSet
      <4> QED BY <2>4, <3>3, <4>1, <4>2, <4>3
    <3> QED BY <2>7, <2>8, <3>2, <3>3 DEF ToSet
  <2> QED BY <1>3, <2>7, <2>8, <2>9, <2>10, <2>11 DEF t
<1> QED BY <1>2, <1>3

(* FlattenSeq is a recursive function, so first that there is one: if m is  *)
(* the shortest length without, extend the one for m - 1.                   *)
IsFlatten(f, seqs, n) ==
    f = [i \in 1..n |-> IF i = 1 THEN seqs[i] ELSE f[i - 1] \o seqs[i]]

(* The recursive function within FlattenSeq exists: by least                *)
(* counterexample, extending it by one argument at a time.                  *)
LEMMA FlattenExists ==
    ASSUME NEW seqs, NEW n \in Nat
    PROVE  \E f : IsFlatten(f, seqs, n)
<1> SUFFICES ASSUME ~ \E f : IsFlatten(f, seqs, n) PROVE FALSE
  OBVIOUS
<1> DEFINE T == {m \in Nat : ~ \E f : IsFlatten(f, seqs, m)}
<1>1. PICK m \in T : \A k \in T : m <= k
  <2>1. T \in SUBSET Nat /\ T # {}
    OBVIOUS
  <2> HIDE DEF T
  <2> QED BY <2>1, LeastNatural
<1>2. m \in Nat /\ \A f : ~IsFlatten(f, seqs, m)
  OBVIOUS
<1>3. CASE m = 0
  <2> DEFINE f == [i \in 1..0 |-> seqs[i]]
  <2>1. f = [i \in 1..m |-> IF i = 1 THEN seqs[i] ELSE f[i - 1] \o seqs[i]]
    BY <1>3
  <2> QED BY <1>2, <2>1 DEF IsFlatten
<1>4. CASE m # 0
  <2>1. m - 1 \in Nat /\ m - 1 \notin T
    BY <1>1, <1>2, <1>4
  <2>2. PICK g : IsFlatten(g, seqs, m - 1)
    BY <2>1
  <2> HIDE DEF T
  <2> DEFINE f == [i \in 1..m |-> IF i < m THEN g[i]
                                  ELSE IF i = 1 THEN seqs[i] ELSE g[i - 1] \o seqs[i]]
  <2>3. ASSUME NEW i \in 1..m
        PROVE  f[i] = IF i = 1 THEN seqs[i] ELSE f[i - 1] \o seqs[i]
    <3>1. CASE i < m
      <4>1. g = [j \in 1..m-1 |-> IF j = 1 THEN seqs[j] ELSE g[j - 1] \o seqs[j]]
        BY <2>2 DEF IsFlatten
      <4>2. i \in 1..m-1
        BY <1>2, <3>1
      <4>3. g[i] = IF i = 1 THEN seqs[i] ELSE g[i - 1] \o seqs[i]
        BY <4>1, <4>2
      <4>4. f[i] = g[i] /\ (i # 1 => f[i - 1] = g[i - 1])
        BY <1>2, <3>1
      <4> HIDE DEF f
      <4> QED BY <4>3, <4>4
    <3>2. CASE i = m
      <4>1. f[i] = IF i = 1 THEN seqs[i] ELSE g[i - 1] \o seqs[i]
        BY <1>2, <3>2
      <4>2. i # 1 => f[i - 1] = g[i - 1]
        BY <1>2, <3>2
      <4> HIDE DEF f
      <4> QED BY <4>1, <4>2
    <3> QED BY <1>2, <3>1, <3>2
  <2>4. f = [i \in 1..m |-> f[i]]
    OBVIOUS
  <2> HIDE DEF f
  <2>5. f = [i \in 1..m |-> IF i = 1 THEN seqs[i] ELSE f[i - 1] \o seqs[i]]
    BY <2>3, <2>4
  <2> QED BY <1>2, <2>5 DEF IsFlatten
<1> QED BY <1>3, <1>4

(* FlattenSeq is such a function's value at the length.                     *)
LEMMA FlattenIs ==
    ASSUME NEW seqs, Len(seqs) \in Nat, Len(seqs) # 0
    PROVE  \E f : IsFlatten(f, seqs, Len(seqs)) /\ FlattenSeq(seqs) = f[Len(seqs)]
<1> DEFINE n == Len(seqs)
           f == CHOOSE g : g = [i \in 1..n |-> IF i = 1 THEN seqs[i] ELSE g[i - 1] \o seqs[i]]
<1>1. IsFlatten(f, seqs, n)
  <2>1. \E g : IsFlatten(g, seqs, n)
    BY FlattenExists
  <2>2. \E g : g = [i \in 1..n |-> IF i = 1 THEN seqs[i] ELSE g[i - 1] \o seqs[i]]
    BY <2>1 DEF IsFlatten
  <2>3. f = [i \in 1..n |-> IF i = 1 THEN seqs[i] ELSE f[i - 1] \o seqs[i]]
    BY <2>2
  <2> QED BY <2>3 DEF IsFlatten
<1>2. FlattenSeq(seqs) = f[n]
  BY DEF FlattenSeq
<1> HIDE DEF f
<1> QED BY <1>1, <1>2

(* What concatenation does to the elements.                                 *)
LEMMA ConcatElements ==
    ASSUME NEW S, NEW s \in Seq(S), NEW t \in Seq(S)
    PROVE  /\ s \o t \in Seq(S) /\ Len(s \o t) = Len(s) + Len(t)
           /\ ToSet(s \o t) = ToSet(s) \cup ToSet(t)
           /\ IsInjective(s) /\ IsInjective(t) /\ ToSet(s) \cap ToSet(t) = {} =>
                  IsInjective(s \o t)
<1> DEFINE u == s \o t
<1>1. /\ u \in Seq(S) /\ Len(u) = Len(s) + Len(t)
      /\ \A i \in 1 .. Len(s) + Len(t) : u[i] = IF i <= Len(s) THEN s[i] ELSE t[i - Len(s)]
  BY ConcatProperties
<1>2. ToSet(u) = ToSet(s) \cup ToSet(t)
  <2>1. Range(u) = Range(s) \cup Range(t)
    BY RangeConcatenation
  <2> QED BY <2>1 DEF Range, ToSet
<1>3. /\ Len(s) \in Nat /\ Len(t) \in Nat /\ DOMAIN s = 1..Len(s) /\ DOMAIN t = 1..Len(t)
      /\ DOMAIN u = 1..Len(s)+Len(t)
  BY <1>1
<1> HIDE DEF u
<1>4. ASSUME IsInjective(s), IsInjective(t), ToSet(s) \cap ToSet(t) = {}
      PROVE  IsInjective(u)
  <2> SUFFICES ASSUME NEW i \in 1..Len(s)+Len(t), NEW j \in 1..Len(s)+Len(t), u[i] = u[j]
               PROVE  i = j
    BY <1>3 DEF IsInjective
  <2>1. \A m \in 1..Len(s), n \in 1..Len(t) : s[m] # t[n]
    BY <1>3, <1>4 DEF ToSet
  <2>2. /\ \A m, n \in 1..Len(s) : s[m] = s[n] => m = n
        /\ \A m, n \in 1..Len(t) : t[m] = t[n] => m = n
    BY <1>3, <1>4 DEF IsInjective
  <2>3. CASE i <= Len(s) /\ j <= Len(s)
    BY <1>1, <1>3, <2>2, <2>3
  <2>4. CASE i > Len(s) /\ j > Len(s)
    <3>1. /\ i - Len(s) \in 1..Len(t) /\ j - Len(s) \in 1..Len(t)
          /\ u[i] = t[i - Len(s)] /\ u[j] = t[j - Len(s)]
      BY <1>1, <1>3, <2>4
    <3>2. i - Len(s) = j - Len(s)
      BY <2>2, <3>1
    <3> QED BY <1>3, <3>2
  <2>5. CASE i <= Len(s) /\ j > Len(s)
    <3>1. i \in 1..Len(s) /\ j - Len(s) \in 1..Len(t) /\ u[i] = s[i] /\ u[j] = t[j - Len(s)]
      BY <1>1, <1>3, <2>5
    <3> QED BY <2>1, <3>1
  <2>6. CASE i > Len(s) /\ j <= Len(s)
    <3>1. j \in 1..Len(s) /\ i - Len(s) \in 1..Len(t) /\ u[j] = s[j] /\ u[i] = t[i - Len(s)]
      BY <1>1, <1>3, <2>6
    <3> QED BY <2>1, <3>1
  <2> QED BY <1>3, <2>3, <2>4, <2>5, <2>6
<1> QED BY <1>1, <1>2, <1>4 DEF u

(* The elements of a flattened sequence are those of its members, and none  *)
(* is repeated if none is in a member or in two members.                    *)
Disjoint(seqs, n) ==
    /\ \A i \in 1..n : IsInjective(seqs[i])
    /\ \A i, j \in 1..n : i # j => ToSet(seqs[i]) \cap ToSet(seqs[j]) = {}

FlattenedTo(S, seqs, k, s) ==
    /\ s \in Seq(S)
    /\ \A x \in ToSet(s) : \E i \in 1..k : x \in ToSet(seqs[i])
    /\ Disjoint(seqs, k) => IsInjective(s)

(* FlattenSeq has the elements of all its sequences, and repeats none if    *)
(* they are disjoint and do not repeat any.                                 *)
LEMMA FlattenElements ==
    ASSUME NEW S, NEW seqs, Len(seqs) \in Nat, Len(seqs) = 0 => seqs = <<>>,
           \A i \in 1..Len(seqs) : seqs[i] \in Seq(S)
    PROVE  FlattenedTo(S, seqs, Len(seqs), FlattenSeq(seqs))
<1> DEFINE n == Len(seqs)
<1>1. CASE n = 0
  <2>1. FlattenSeq(seqs) = <<>>
    BY <1>1 DEF FlattenSeq
  <2>2. ToSet(<<>>) = {} /\ IsInjective(<<>>) /\ <<>> \in Seq(S)
    BY DEF ToSet, IsInjective
  <2> QED BY <2>1, <2>2 DEF FlattenedTo
<1>2. CASE n # 0
  <2>1. PICK f : IsFlatten(f, seqs, n) /\ FlattenSeq(seqs) = f[n]
    BY <1>2, FlattenIs
  <2>2. \A i \in 1..n : f[i] = IF i = 1 THEN seqs[i] ELSE f[i - 1] \o seqs[i]
    BY <2>1 DEF IsFlatten
  <2> DEFINE T == {k \in Nat : k \in 1..n /\ ~FlattenedTo(S, seqs, k, f[k])}
  <2>3. SUFFICES ASSUME T # {} PROVE FALSE
    BY <1>2, <2>1
  <2>4. PICK k \in T : \A j \in T : k <= j
    <3>1. T \in SUBSET Nat
      OBVIOUS
    <3> HIDE DEF T
    <3> QED BY <2>3, <3>1, LeastNatural
  <2>5. k \in 1..n /\ ~FlattenedTo(S, seqs, k, f[k])
    OBVIOUS
  <2>6. k # 1 => FlattenedTo(S, seqs, k - 1, f[k - 1])
    BY <2>4, <2>5
  <2> HIDE DEF T
  <2>7. CASE k = 1
    <3>1. f[k] = seqs[1] /\ seqs[1] \in Seq(S) /\ 1 \in 1..1
      BY <2>2, <2>5, <2>7
    <3>2. FlattenedTo(S, seqs, 1, f[k])
      BY <3>1 DEF FlattenedTo, Disjoint
    <3> QED BY <2>5, <2>7, <3>2
  <2>8. CASE k # 1
    <3> DEFINE a == f[k - 1]  b == seqs[k]
    <3>1. f[k] = a \o b /\ b \in Seq(S) /\ FlattenedTo(S, seqs, k - 1, a)
      BY <2>2, <2>5, <2>6, <2>8
    <3>2. /\ a \in Seq(S) /\ \A x \in ToSet(a) : \E i \in 1..k-1 : x \in ToSet(seqs[i])
          /\ Disjoint(seqs, k - 1) => IsInjective(a)
      BY <3>1 DEF FlattenedTo
    <3>3. /\ f[k] \in Seq(S) /\ ToSet(f[k]) = ToSet(a) \cup ToSet(b)
          /\ IsInjective(a) /\ IsInjective(b) /\ ToSet(a) \cap ToSet(b) = {} =>
                 IsInjective(f[k])
      BY <3>1, <3>2, ConcatElements
    <3>4. 1..k = 1..k-1 \cup {k} /\ k \notin 1..k-1
      BY <2>5
    <3>5. \A x \in ToSet(f[k]) : \E i \in 1..k : x \in ToSet(seqs[i])
      BY <3>2, <3>3, <3>4
    <3>6. ASSUME Disjoint(seqs, k) PROVE IsInjective(f[k])
      <4>1. Disjoint(seqs, k - 1) /\ IsInjective(b)
        BY <3>4, <3>6 DEF Disjoint
      <4>2. ToSet(a) \cap ToSet(b) = {}
        BY <3>2, <3>4, <3>6 DEF Disjoint
      <4> QED BY <3>2, <3>3, <4>1, <4>2
    <3>7. FlattenedTo(S, seqs, k, f[k])
      BY <3>3, <3>5, <3>6 DEF FlattenedTo
    <3> QED BY <2>5, <3>7
  <2> QED BY <2>7, <2>8
<1> QED BY <1>1, <1>2

TaskStates == {"none", "new", "dial", "up", "sleep", "dead"}

(* The type, that the pool has no client twice, and that the clients are of *)
(* known hosts, for which reason a host that is new has none.               *)
TypeInv ==
    /\ TypeOK /\ IsInjective(pool)
    /\ \A c \in ToSet(clients) : c[1] \in addresses

-----------------------------------------------------------------------------
(* The clients of a host, in the order they are added.                      *)
LEMMA GroupElements ==
    ASSUME NEW h \in Hosts
    PROVE  /\ Group(h) \in Seq(AllClients) /\ IsInjective(Group(h))
           /\ \A x \in ToSet(Group(h)) : x[1] = h
           /\ <<h, Concurrency>> \in AllClients
<1> USE NumberAssumption DEF Group
<1>1. DOMAIN Group(h) = 1..Concurrency /\ Concurrency \in Nat
  OBVIOUS
<1>2. \A i \in 1..Concurrency : Group(h)[i] = <<h, i>> /\ <<h, i>> \in AllClients
  BY DEF AllClients
<1>3. Group(h) \in Seq(AllClients)
  <2>1. Group(h) \in [1..Concurrency -> AllClients]
    BY <1>2
  <2> QED BY <2>1
<1>4. IsInjective(Group(h))
  BY DEF IsInjective
<1>5. \A x \in ToSet(Group(h)) : x[1] = h
  BY DEF ToSet
<1> QED BY <1>1, <1>2, <1>3, <1>4, <1>5

(* The type holds at first.                                                 *)
LEMMA InitType == Init => TypeInv
<1> SUFFICES ASSUME Init PROVE TypeInv
  OBVIOUS
<1> DEFINE g == [i \in 1..Len(Listed) |->
                    IF Listed[i] \in Banned THEN <<>> ELSE Group(Listed[i])]
           n == Len(Listed)
<1>1. /\ n \in Nat /\ \A i \in 1..n : Listed[i] \in ToSet(Listed) /\ Listed[i] \in Hosts
      /\ \A i, j \in 1..n : Listed[i] = Listed[j] => i = j
  BY HostAssumption DEF IsInjective, Hosts
<1>2. Len(g) = n /\ (n = 0 => g = <<>>)
  BY <1>1
<1>3. ASSUME NEW i \in 1..n
      PROVE  /\ g[i] \in Seq(AllClients) /\ IsInjective(g[i])
             /\ \A x \in ToSet(g[i]) : x[1] = Listed[i]
  <2>1. ToSet(<<>>) = {} /\ IsInjective(<<>>) /\ <<>> \in Seq(AllClients)
    BY DEF ToSet, IsInjective
  <2>2. g[i] = IF Listed[i] \in Banned THEN <<>> ELSE Group(Listed[i])
    OBVIOUS
  <2> HIDE DEF g
  <2> QED BY <1>1, <2>1, <2>2, GroupElements
<1>4. clients = FlattenSeq(g)
  BY DEF Init
<1> HIDE DEF g
<1>5. FlattenedTo(AllClients, g, n, clients)
  BY <1>1, <1>2, <1>3, <1>4, FlattenElements
<1>6. Disjoint(g, n)
  <2>1. ASSUME NEW i \in 1..n, NEW j \in 1..n, NEW x \in ToSet(g[i]), x \in ToSet(g[j])
        PROVE  i = j
    <3>1. x[1] = Listed[i] /\ x[1] = Listed[j]
      BY <1>3, <2>1
    <3> QED BY <1>1, <3>1
  <2>2. \A i, j \in 1..n : i # j => ToSet(g[i]) \cap ToSet(g[j]) = {}
    BY <2>1
  <2> QED BY <1>3, <2>2 DEF Disjoint
<1>7. clients \in Seq(AllClients) /\ IsInjective(clients)
  BY <1>5, <1>6 DEF FlattenedTo
<1>8. \A c \in ToSet(clients) : c[1] \in ToSet(Listed)
  BY <1>1, <1>3, <1>5 DEF FlattenedTo
<1>9. /\ addresses = ToSet(Listed) /\ saved \subseteq addresses /\ pos = 1 /\ phase = "loop"
      /\ task = [c \in AllClients |-> [j \in Slots |-> "none"]]
      /\ pool = <<>> /\ disconnected = {} /\ selected = 0 /\ overrun = FALSE
      /\ picked = <<>>
  BY DEF Init
<1>10. task \in [AllClients -> [Slots -> TaskStates]]
  BY <1>9 DEF TaskStates
<1>11. IsInjective(pool) /\ pool \in Seq(ToSet(clients)) /\ picked \in Seq(ToSet(pool))
       /\ Len(picked) <= Len(pool)
  BY <1>9 DEF IsInjective
<1>12. pos \in 1 .. Len(clients) + 1 /\ selected \in 0..MaxIndex
  BY <1>7, <1>9, NumberAssumption
<1>13. TypeOK
  BY <1>7, <1>9, <1>10, <1>11, <1>12 DEF TypeOK, TaskStates, Hosts
<1> QED BY <1>8, <1>9, <1>11, <1>13 DEF TypeInv

-----------------------------------------------------------------------------
(* What the operators that write the pool make of it.                       *)
LEMMA TypeFacts ==
    ASSUME TypeInv
    PROVE  /\ clients \in Seq(AllClients) /\ IsInjective(clients) /\ Len(clients) \in Nat
           /\ ToSet(clients) \subseteq AllClients
           /\ \A i \in 1..Len(clients) : clients[i] \in ToSet(clients)
           /\ pool \in Seq(ToSet(clients)) /\ IsInjective(pool) /\ Len(pool) \in Nat
           /\ picked \in Seq(ToSet(pool)) /\ Len(picked) \in Nat /\ Len(picked) <= Len(pool)
           /\ task \in [AllClients -> [Slots -> TaskStates]]
           /\ addresses \subseteq Hosts /\ saved \subseteq addresses
           /\ disconnected \subseteq ToSet(clients)
           /\ \A c \in ToSet(clients) : c[1] \in addresses
<1>1. clients \in Seq(AllClients) /\ IsInjective(clients)
      /\ pool \in Seq(ToSet(clients)) /\ IsInjective(pool)
      /\ picked \in Seq(ToSet(pool)) /\ Len(picked) <= Len(pool)
  BY DEF TypeInv, TypeOK
<1>2. ToSet(clients) \subseteq AllClients
      /\ \A i \in 1..Len(clients) : clients[i] \in ToSet(clients)
  BY <1>1, ToSetIn
<1>3. /\ task \in [AllClients -> [Slots -> TaskStates]]
      /\ addresses \subseteq Hosts /\ saved \subseteq addresses
      /\ disconnected \subseteq ToSet(clients)
      /\ \A c \in ToSet(clients) : c[1] \in addresses
  BY DEF TypeInv, TypeOK, TaskStates
<1> QED BY <1>1, <1>2, <1>3

(* What joining the pool does to it,                                        *)
LEMMA Entering ==
    ASSUME TypeInv, NEW c \in ToSet(clients), pool' = EnterPool(c)
    PROVE  /\ pool' \in Seq(ToSet(clients)) /\ IsInjective(pool')
           /\ ToSet(pool') = ToSet(pool) \cup {c}
BY TypeFacts, AppendElements DEF EnterPool

(* and what leaving it does.                                                *)
LEMMA Leaving ==
    ASSUME TypeInv, NEW c \in ToSet(clients), LeavePool(c)
    PROVE  /\ pool' \in Seq(ToSet(clients)) /\ IsInjective(pool')
           /\ ToSet(pool') = ToSet(pool) \ {c}
           /\ disconnected' = disconnected \cup {c}
           /\ picked' = IF pool' = pool THEN picked ELSE <<>>
BY TypeFacts, RemoveFirstElements DEF LeavePool

(* The record of picks fits the pool, or is begun again.                    *)
LEMMA PickedType ==
    ASSUME TypeInv, NEW S, pool' \in Seq(S),
           picked' = IF pool' = pool THEN picked ELSE <<>>
    PROVE  picked' \in Seq(ToSet(pool')) /\ Len(picked') <= Len(pool')
<1>1. CASE pool' = pool
  <2>1. picked' = picked /\ ToSet(pool') = ToSet(pool)
    BY <1>1
  <2> QED BY <1>1, <2>1, TypeFacts
<1>2. CASE pool' # pool
  BY <1>2
<1> QED BY <1>1, <1>2

(* One connect_task goes on; the others stay.                               *)
LEMMA TaskWrites ==
    ASSUME TypeInv, NEW c \in AllClients, NEW j \in Slots, NEW v \in TaskStates,
           task' = [task EXCEPT ![c][j] = v]
    PROVE  /\ task' \in [AllClients -> [Slots -> TaskStates]]
           /\ \A d \in AllClients, k \in Slots :
                  task'[d][k] = IF d = c /\ k = j THEN v ELSE task[d][k]
<1>1. task \in [AllClients -> [Slots -> TaskStates]]
  BY TypeFacts
<1>2. task[c] \in [Slots -> TaskStates]
  BY <1>1
<1>3. [task[c] EXCEPT ![j] = v] \in [Slots -> TaskStates]
  BY <1>2
<1>4. task' = [task EXCEPT ![c] = [task[c] EXCEPT ![j] = v]]
  OBVIOUS
<1>5. task' \in [AllClients -> [Slots -> TaskStates]]
  BY <1>1, <1>3, <1>4
<1>6. \A d \in AllClients : task'[d] = IF d = c THEN [task[c] EXCEPT ![j] = v] ELSE task[d]
  BY <1>1, <1>4
<1> QED BY <1>1, <1>2, <1>5, <1>6

(* All connect_tasks of a client that wait for the loss see it.             *)
LEMMA LostWrites ==
    ASSUME TypeInv, NEW c \in ToSet(clients), Lost(c)
    PROVE  /\ task' \in [AllClients -> [Slots -> TaskStates]]
           /\ \A d \in AllClients, k \in Slots :
                  task'[d][k] = IF d = c /\ task[d][k] = "up" THEN "sleep" ELSE task[d][k]
<1> DEFINE f == [j \in Slots |-> IF task[c][j] = "up" THEN "sleep" ELSE task[c][j]]
<1>1. task \in [AllClients -> [Slots -> TaskStates]] /\ c \in AllClients
  BY TypeFacts
<1>2. f \in [Slots -> TaskStates]
  BY <1>1 DEF TaskStates
<1>3. task' = [task EXCEPT ![c] = f]
  BY DEF Lost
<1>4. \A k \in Slots : f[k] = IF task[c][k] = "up" THEN "sleep" ELSE task[c][k]
  OBVIOUS
<1> HIDE DEF f
<1>5. task' \in [AllClients -> [Slots -> TaskStates]]
  BY <1>1, <1>2, <1>3
<1>6. \A d \in AllClients : task'[d] = IF d = c THEN f ELSE task[d]
  BY <1>1, <1>3
<1> QED BY <1>4, <1>5, <1>6

(* The steps that leave the clients and the pool alone, with what they      *)
(* write into the tasks and into the disconnected set.                      *)
LEMMA KeepsPeers ==
    ASSUME TypeInv, UNCHANGED <<peers, start, selected, overrun>>,
           task' \in [AllClients -> [Slots -> TaskStates]],
           pool' \in Seq(ToSet(clients)), IsInjective(pool'),
           disconnected' \subseteq ToSet(clients),
           picked' = IF pool' = pool THEN picked ELSE <<>>
    PROVE  TypeInv'
<1>1. picked' \in Seq(ToSet(pool')) /\ Len(picked') <= Len(pool')
  BY PickedType
<1>2. UNCHANGED <<addresses, saved, clients, pos, phase, selected, overrun>>
  BY DEF peers, start
<1>3. task' \in [AllClients -> [Slots -> {"none", "new", "dial", "up", "sleep", "dead"}]]
  BY DEF TaskStates
<1>4. TypeOK'
  BY <1>1, <1>2, <1>3 DEF TypeInv, TypeOK
<1> QED BY <1>2, <1>4 DEF TypeInv

(* connect_all_peers() starts a task: the type.                             *)
LEMMA ConnectNextType == TypeInv /\ ConnectNext => TypeInv'
<1> SUFFICES ASSUME TypeInv, ConnectNext PROVE TypeInv'
  OBVIOUS
<1>1. pos \in 1..Len(clients) /\ clients[pos] \in AllClients
  BY TypeFacts DEF ConnectNext, TypeInv, TypeOK
<1>2. FreeSlot(clients[pos]) \in Slots /\ "new" \in TaskStates
  BY DEF FreeSlot, Slots, TaskStates
<1>3. task' = [task EXCEPT ![clients[pos]][FreeSlot(clients[pos])] = "new"]
  BY DEF ConnectNext, ConnectTask
<1>4. task' \in [AllClients -> [Slots -> TaskStates]]
  BY <1>1, <1>2, <1>3, TaskWrites
<1>5. pos' = pos + 1 /\ pos' \in 1 .. Len(clients) + 1
  BY <1>1, TypeFacts DEF ConnectNext
<1>6. UNCHANGED <<addresses, saved, clients, phase, pool, disconnected, selected, overrun, picked>>
  BY DEF ConnectNext, peers, picks
<1>7. task' \in [AllClients -> [Slots -> {"none", "new", "dial", "up", "sleep", "dead"}]]
  BY <1>4 DEF TaskStates
<1>8. TypeOK'
  BY <1>5, <1>6, <1>7 DEF TypeInv, TypeOK
<1> QED BY <1>6, <1>8 DEF TypeInv

(* on_addr() adds a host: the type.                                         *)
LEMMA AddrType ==
    ASSUME TypeInv, NEW h \in Unlisted, on_addr(h)
    PROVE  TypeInv'
<1> DEFINE g == Group(h)
<1>1. /\ h \in Hosts /\ h \notin addresses /\ addresses' = addresses \cup {h}
      /\ saved' = IF Persist THEN addresses' ELSE saved
      /\ clients' = clients \o g
      /\ UNCHANGED <<pos, phase, pool, disconnected, selected, overrun, picked>>
  BY DEF on_addr, start, picks, Hosts
<1>2. /\ g \in Seq(AllClients) /\ IsInjective(g) /\ (\A x \in ToSet(g) : x[1] = h)
      /\ <<h, Concurrency>> \in AllClients
  BY <1>1, GroupElements
<1>3. FreeSlot(<<h, Concurrency>>) \in Slots /\ "new" \in TaskStates
  BY DEF FreeSlot, Slots, TaskStates
<1>4. task' = [task EXCEPT ![<<h, Concurrency>>][FreeSlot(<<h, Concurrency>>)] = "new"]
  BY DEF on_addr, ConnectTask
<1>5. task' \in [AllClients -> [Slots -> TaskStates]]
  BY <1>2, <1>3, <1>4, TaskWrites
<1> HIDE DEF g
<1>6. ToSet(clients) \cap ToSet(g) = {}
  BY <1>1, <1>2, TypeFacts
<1>7. /\ clients' \in Seq(AllClients) /\ IsInjective(clients')
      /\ ToSet(clients') = ToSet(clients) \cup ToSet(g)
      /\ Len(clients') = Len(clients) + Len(g) /\ Len(g) \in Nat
  BY <1>1, <1>2, <1>6, TypeFacts, ConcatElements
<1>8. \A c \in ToSet(clients') : c[1] \in addresses'
  BY <1>1, <1>2, <1>7, TypeFacts
<1>9. pool' \in Seq(ToSet(clients')) /\ disconnected' \subseteq ToSet(clients')
  <2>1. ToSet(clients) \subseteq ToSet(clients')
    BY <1>7
  <2> QED BY <1>1, <2>1, TypeFacts, SeqMonotonic
<1>10. pos' \in 1 .. Len(clients') + 1
  BY <1>1, <1>7, TypeFacts DEF TypeInv, TypeOK
<1>11. task' \in [AllClients -> [Slots -> {"none", "new", "dial", "up", "sleep", "dead"}]]
  BY <1>5 DEF TaskStates
<1>12. addresses' \subseteq Hosts /\ saved' \subseteq addresses'
  BY <1>1, TypeFacts
<1>13. /\ phase' \in {"loop", "wait", "ready"} /\ selected' \in 0..MaxIndex
       /\ overrun' \in BOOLEAN /\ picked' \in Seq(ToSet(pool')) /\ Len(picked') <= Len(pool')
  BY <1>1 DEF TypeInv, TypeOK
<1>14. TypeOK'
  BY <1>7, <1>9, <1>10, <1>11, <1>12, <1>13 DEF TypeOK
<1> QED BY <1>1, <1>8, <1>14, TypeFacts DEF TypeInv

(* Every step of a connect_task is one of these.                            *)
LEMMA TaskStepWrites ==
    ASSUME TypeInv, NEW c \in ToSet(clients), NEW j \in Slots, TaskStep(c, j)
    PROVE  \E v \in {"dial", "dead", "up", "sleep"} :
               /\ task' \in [AllClients -> [Slots -> TaskStates]]
               /\ \A d \in AllClients, k \in Slots :
                      task'[d][k] = IF d = c /\ k = j THEN v ELSE task[d][k]
<1> SUFFICES \E v \in {"dial", "dead", "up", "sleep"} : task' = [task EXCEPT ![c][j] = v]
  BY TaskWrites, TypeFacts DEF TaskStates
<1>1. CASE TaskStarts(c, j) \/ Wakes(c, j)
  BY <1>1 DEF TaskStarts, Wakes
<1>2. CASE Fails(c, j)
  BY <1>2 DEF Fails
<1>3. CASE Connects(c, j)
  <2>1. task' = [task EXCEPT ![c][j] = "dead"] \/ task' = [task EXCEPT ![c][j] = "up"]
    BY <1>3 DEF Connects
  <2> QED BY <2>1
<1> QED BY <1>1, <1>2, <1>3 DEF TaskStep

(* What a pick writes.                                                      *)
LEMMA PickWrites ==
    ASSUME TypeInv, Pick
    PROVE  /\ pool # <<>> /\ selected' = NextIndex(selected) /\ selected' \in 0..MaxIndex
           /\ \/ /\ selected' < Len(pool) /\ pool[selected' + 1] \in ToSet(pool)
                 /\ picked' = LastOnes(Append(picked, pool[selected' + 1]))
                 /\ picked' \in Seq(ToSet(pool)) /\ Len(picked') <= Len(pool)
                 /\ UNCHANGED overrun
              \/ selected' >= Len(pool) /\ overrun' = TRUE /\ UNCHANGED picked
           /\ UNCHANGED <<addresses, saved, clients, pos, phase, task, pool, disconnected>>
<1>1. /\ pool # <<>> /\ selected < MaxIndex /\ selected' = NextIndex(selected)
      /\ \/ /\ selected' < Len(pool)
            /\ picked' = LastOnes(Append(picked, pool[selected' + 1]))
            /\ UNCHANGED overrun
         \/ selected' >= Len(pool) /\ overrun' = TRUE /\ UNCHANGED picked
      /\ UNCHANGED <<addresses, saved, clients, pos, phase, task, pool, disconnected>>
  BY DEF Pick, peers, start, links
<1>2. selected \in 0..MaxIndex /\ MaxIndex \in Nat
  BY NumberAssumption DEF TypeInv, TypeOK
<1>3. selected' \in 0..MaxIndex
  BY <1>1, <1>2 DEF NextIndex
<1>4. ASSUME selected' < Len(pool)
      PROVE  pool[selected' + 1] \in ToSet(pool)
  BY <1>3, <1>4, TypeFacts, ToSetIn
<1>5. ASSUME NEW e \in ToSet(pool)
      PROVE  /\ LastOnes(Append(picked, e)) \in Seq(ToSet(pool))
             /\ Len(LastOnes(Append(picked, e))) <= Len(pool)
  <2>1. /\ Append(picked, e) \in Seq(ToSet(pool)) /\ Append(picked, e) # <<>>
        /\ Len(Append(picked, e)) = Len(picked) + 1
    BY TypeFacts, AppendProperties
  <2>2. /\ Tail(Append(picked, e)) \in Seq(ToSet(pool))
        /\ Len(Tail(Append(picked, e))) = Len(picked)
    BY <2>1, HeadTailProperties, TypeFacts
  <2> QED BY <2>1, <2>2, TypeFacts DEF LastOnes
<1> QED BY <1>1, <1>3, <1>4, <1>5

(* The type is inductive.                                                   *)
LEMMA TypeStep == TypeInv /\ [Next]_vars => TypeInv'
<1> SUFFICES ASSUME TypeInv, [Next]_vars PROVE TypeInv'
  OBVIOUS
<1>1. ASSUME UNCHANGED <<peers, task, pool, disconnected, picks, pos>>,
             phase' \in {"loop", "wait", "ready"}
      PROVE  TypeInv'
  BY <1>1 DEF TypeInv, TypeOK, peers, picks
<1>2. CASE EndLoop \/ Ready
  BY <1>1, <1>2 DEF EndLoop, Ready, links
<1>3. CASE UNCHANGED vars
  BY <1>1, <1>3 DEF vars, links, start, TypeInv, TypeOK
<1>4. CASE Pick
  <2>1. /\ selected' \in 0..MaxIndex /\ picked' \in Seq(ToSet(pool)) /\ Len(picked') <= Len(pool)
        /\ overrun' \in BOOLEAN
        /\ UNCHANGED <<addresses, saved, clients, pos, phase, task, pool, disconnected>>
    BY <1>4, PickWrites, TypeFacts DEF TypeInv, TypeOK
  <2> QED BY <2>1 DEF TypeInv, TypeOK
<1>5. ASSUME NEW c \in ToSet(clients), Lost(c) PROVE TypeInv'
  <2>1. disconnected' \subseteq ToSet(clients)
    BY <1>5, Leaving, TypeFacts DEF Lost
  <2> QED BY <1>5, <2>1, Leaving, LostWrites, KeepsPeers DEF Lost
<1>6. ASSUME NEW c \in ToSet(clients), NEW j \in Slots, TaskStep(c, j) PROVE TypeInv'
  <2>1. task' \in [AllClients -> [Slots -> TaskStates]]
    BY <1>6, TaskStepWrites
  <2>2. CASE TaskStarts(c, j) \/ Wakes(c, j)
    <3>1. /\ UNCHANGED <<peers, start, selected, overrun, pool, picked>>
          /\ disconnected' \subseteq ToSet(clients)
      BY <2>2, TypeFacts DEF TaskStarts, Wakes, picks
    <3>2. pool' \in Seq(ToSet(clients)) /\ IsInjective(pool')
      BY <3>1, TypeFacts
    <3> QED BY <2>1, <3>1, <3>2, KeepsPeers
  <2>3. CASE Fails(c, j)
    <3>1. UNCHANGED <<peers, start, selected, overrun>> /\ LeavePool(c)
      BY <2>3 DEF Fails
    <3>2. disconnected' \subseteq ToSet(clients)
      BY <3>1, Leaving, TypeFacts
    <3> QED BY <2>1, <3>1, <3>2, Leaving, KeepsPeers
  <2>4. CASE Connects(c, j)
    <3>1. /\ UNCHANGED <<addresses, clients, pos, phase, selected, overrun>>
          /\ disconnected' \subseteq disconnected
          /\ saved' \in {saved, addresses}
          /\ \/ UNCHANGED <<pool, picked>>
             \/ pool' = EnterPool(c) /\ picked' = IF pool' = pool THEN picked ELSE <<>>
      BY <2>4 DEF Connects, start
    <3>2. pool' \in Seq(ToSet(clients)) /\ IsInjective(pool')
          /\ picked' = IF pool' = pool THEN picked ELSE <<>>
      <4>1. CASE UNCHANGED <<pool, picked>>
        BY <4>1, TypeFacts
      <4>2. CASE pool' = EnterPool(c) /\ picked' = IF pool' = pool THEN picked ELSE <<>>
        BY <4>2, Entering
      <4> QED BY <3>1, <4>1, <4>2
    <3>3. picked' \in Seq(ToSet(pool')) /\ Len(picked') <= Len(pool')
      BY <3>2, PickedType
    <3>4. disconnected' \subseteq ToSet(clients) /\ saved' \subseteq addresses
      BY <3>1, TypeFacts
    <3>5. task' \in [AllClients -> [Slots -> {"none", "new", "dial", "up", "sleep", "dead"}]]
      BY <2>1 DEF TaskStates
    <3>6. TypeOK'
      BY <3>1, <3>2, <3>3, <3>4, <3>5 DEF TypeInv, TypeOK
    <3> QED BY <3>1, <3>2, <3>6 DEF TypeInv
  <2> QED BY <1>6, <2>2, <2>3, <2>4 DEF TaskStep
<1> QED BY <1>2, <1>3, <1>4, <1>5, <1>6, ConnectNextType, AddrType DEF Next

(* Every reachable state has the type of its variables; among it, that no   *)
(* client is in the list of clients twice, and that the pool and the        *)
(* disconnected set hold clients of that list only.                         *)
THEOREM TypeCorrect == Spec => []TypeOK
<1>1. TypeInv => TypeOK
  BY DEF TypeInv
<1> QED BY <1>1, InitType, TypeStep, PTL DEF Spec

-----------------------------------------------------------------------------
InPool(c) == c \in ToSet(pool)

(* A client with a single connect_task, and no name to trip over.           *)
Placed(c) ==
    task[c][2] = "none" /\ c[1] \notin Named =>
        /\ InPool(c) => task[c][1] = "up" /\ c \notin disconnected
        /\ task[c][1] \in {"dial", "up", "sleep"} => InPool(c) \/ c \in disconnected
        /\ task[c][1] # "dead"

PartInv == \A c \in AllClients : Placed(c)

(* At first nobody is in a pool.                                            *)
LEMMA PartInit == Init => PartInv
BY DEF Init, PartInv, Placed, InPool, ToSet, Slots

(* Only the client of the step moves, and it moves in one of these ways.    *)
LEMMA PartTaskStep ==
    ASSUME TypeInv, PartInv, NEW c \in ToSet(clients), NEW j \in Slots, TaskStep(c, j)
    PROVE  PartInv'
<1> SUFFICES ASSUME NEW d \in AllClients PROVE Placed(d)'
  BY DEF PartInv
<1>1. Placed(d) /\ c \in AllClients /\ Placed(c)
  BY TypeFacts DEF PartInv
<1>2. PICK v \in {"dial", "dead", "up", "sleep"} :
           \A e \in AllClients, k \in Slots :
               task'[e][k] = IF e = c /\ k = j THEN v ELSE task[e][k]
  BY TaskStepWrites
<1>3. 1 \in Slots /\ 2 \in Slots /\ (j = 1 \/ j = 2)
  BY DEF Slots
<1>4. CASE d # c
  <2>1. task'[d][1] = task[d][1] /\ task'[d][2] = task[d][2]
    BY <1>2, <1>3, <1>4
  <2>2. InPool(d)' <=> InPool(d)
    <3>1. \/ pool' = pool \/ (LeavePool(c)) \/ pool' = EnterPool(c)
      BY DEF TaskStep, TaskStarts, Wakes, Fails, Connects
    <3> QED BY <1>4, <3>1, Leaving, Entering DEF InPool
  <2>3. d \in disconnected' <=> d \in disconnected
    BY <1>4 DEF TaskStep, TaskStarts, Wakes, Fails, Connects, LeavePool
  <2> QED BY <1>1, <2>1, <2>2, <2>3 DEF Placed
<1>5. CASE d = c /\ j = 2
  <2>1. task'[c][2] = v
    BY <1>1, <1>2, <1>3, <1>5
  <2> QED BY <1>5, <2>1 DEF Placed
<1>6. CASE d = c /\ j = 1
  <2>1. task'[c][1] = v /\ task'[c][2] = task[c][2]
    BY <1>1, <1>2, <1>3, <1>6
  <2> SUFFICES ASSUME task[c][2] = "none", c[1] \notin Named
               PROVE  /\ InPool(c)' => task'[c][1] = "up" /\ c \notin disconnected'
                      /\ task'[c][1] \in {"dial", "up", "sleep"} =>
                             InPool(c)' \/ c \in disconnected'
                      /\ task'[c][1] # "dead"
    BY <1>6, <2>1 DEF Placed
  <2>2. task \in [AllClients -> [Slots -> TaskStates]] /\ task[c] \in [Slots -> TaskStates]
    BY <1>1, TypeFacts
  <2>3. ASSUME NEW w \in TaskStates, task' = [task EXCEPT ![c][1] = w] PROVE task'[c][1] = w
    BY <1>1, <1>3, <2>2, <2>3
  <2>4. CASE TaskStarts(c, 1)
    <3>1. task[c][1] = "new" /\ pool' = pool /\ disconnected' = disconnected \cup {c}
          /\ task' = [task EXCEPT ![c][1] = "dial"]
      BY <2>4 DEF TaskStarts
    <3> QED BY <1>1, <2>3, <3>1 DEF Placed, InPool, TaskStates
  <2>5. CASE Wakes(c, 1)
    <3>1. task[c][1] = "sleep" /\ pool' = pool /\ disconnected' = disconnected
          /\ task' = [task EXCEPT ![c][1] = "dial"]
      BY <2>5 DEF Wakes
    <3> QED BY <1>1, <2>3, <3>1 DEF Placed, InPool, TaskStates
  <2>6. CASE Fails(c, 1)
    <3>1. task' = [task EXCEPT ![c][1] = "sleep"] /\ LeavePool(c)
      BY <2>6 DEF Fails
    <3>2. ~InPool(c)' /\ c \in disconnected'
      BY <3>1, Leaving DEF InPool
    <3> QED BY <2>3, <3>1, <3>2 DEF TaskStates
  <2>7. CASE Connects(c, 1)
    <3>1. task[c][1] = "dial"
      BY <2>7 DEF Connects
    <3>2. c \in disconnected
      BY <1>1, <3>1 DEF Placed
    <3>3. task' = [task EXCEPT ![c][1] = "up"] /\ pool' = EnterPool(c)
          /\ disconnected' = disconnected \ {c}
      BY <2>7, <3>2 DEF Connects
    <3>4. InPool(c)' /\ c \notin disconnected'
      BY <3>3, Entering DEF InPool
    <3> QED BY <2>3, <3>3, <3>4 DEF TaskStates
  <2> QED BY <1>6, <2>4, <2>5, <2>6, <2>7 DEF TaskStep
<1> QED BY <1>3, <1>4, <1>5, <1>6

(* The places of the clients: every step keeps them.                        *)
LEMMA PartStep == TypeInv /\ PartInv /\ [Next]_vars => PartInv'
<1> SUFFICES ASSUME TypeInv, PartInv, [Next]_vars PROVE PartInv'
  OBVIOUS
<1>1. ASSUME UNCHANGED <<task, pool, disconnected>> PROVE PartInv'
  BY <1>1 DEF PartInv, Placed, InPool
<1>2. ASSUME NEW c \in AllClients, ConnectTask(c), UNCHANGED <<pool, disconnected>>
      PROVE  PartInv'
  <2>1. FreeSlot(c) \in Slots /\ "new" \in TaskStates
    BY DEF FreeSlot, Slots, TaskStates
  <2>2. \A d \in AllClients, k \in Slots :
            task'[d][k] = IF d = c /\ k = FreeSlot(c) THEN "new" ELSE task[d][k]
    BY <1>2, <2>1, TaskWrites DEF ConnectTask
  <2> SUFFICES ASSUME NEW d \in AllClients PROVE Placed(d)'
    BY DEF PartInv
  <2>3. Placed(d) /\ 1 \in Slots /\ 2 \in Slots
    BY DEF PartInv, Slots
  <2>4. InPool(d)' <=> InPool(d)
    BY <1>2 DEF InPool
  <2>5. CASE d # c
    BY <1>2, <2>2, <2>3, <2>4, <2>5 DEF Placed
  <2>6. CASE d = c /\ FreeSlot(c) = 2
    BY <1>2, <2>2, <2>3, <2>6 DEF Placed
  <2>7. CASE d = c /\ FreeSlot(c) = 1
    <3>1. task[c][1] = "none"
      BY <2>7 DEF FreeSlot
    <3>2. task'[c][1] = "new" /\ task'[c][2] = task[c][2]
      BY <2>2, <2>3, <2>7
    <3> QED BY <1>2, <2>3, <2>4, <2>7, <3>1, <3>2 DEF Placed
  <2> QED BY <2>5, <2>6, <2>7 DEF FreeSlot
<1>3. CASE ConnectNext
  <2>1. clients[pos] \in AllClients
    BY <1>3, TypeFacts DEF ConnectNext, TypeInv, TypeOK
  <2> QED BY <1>2, <1>3, <2>1 DEF ConnectNext
<1>4. ASSUME NEW h \in Unlisted, on_addr(h) PROVE PartInv'
  <2>1. <<h, Concurrency>> \in AllClients
    BY GroupElements DEF Hosts
  <2> QED BY <1>2, <1>4, <2>1 DEF on_addr
<1>5. ASSUME NEW c \in ToSet(clients), Lost(c) PROVE PartInv'
  <2> SUFFICES ASSUME NEW d \in AllClients PROVE Placed(d)'
    BY DEF PartInv
  <2>1. /\ task'[d][1] = IF d = c /\ task[d][1] = "up" THEN "sleep" ELSE task[d][1]
        /\ task'[d][2] = IF d = c /\ task[d][2] = "up" THEN "sleep" ELSE task[d][2]
    BY <1>5, LostWrites DEF Slots
  <2>2. ToSet(pool') = ToSet(pool) \ {c} /\ disconnected' = disconnected \cup {c}
    BY <1>5, Leaving DEF Lost
  <2>3. Placed(d)
    BY DEF PartInv
  <2> QED BY <2>1, <2>2, <2>3 DEF Placed, InPool
<1> QED BY <1>1, <1>3, <1>4, <1>5, PartTaskStep
        DEF Next, EndLoop, Ready, Pick, vars, links

(* A client with one connect_task is in the pool or in the disconnected set *)
(* once the task runs, never in both and never twice in the pool; while it  *)
(* is in the pool its task waits for the loss of the connection, and the    *)
(* task has not ended because of an exception of its own.                   *)
THEOREM PoolPartitioned == Spec => []PoolPartition
<1>1. TypeInv /\ PartInv => PoolPartition
  <2> SUFFICES ASSUME TypeInv, PartInv PROVE PoolPartition
    OBVIOUS
  <2>1. \A c \in Regular : c \in AllClients /\ Placed(c) /\ task[c][2] = "none"
                           /\ c[1] \notin Named
    BY TypeFacts DEF Regular, PartInv
  <2>2. \A c \in Regular : Watched(c)
    BY <2>1 DEF Placed, InPool, Watched, Connected, Slots
  <2> QED BY <2>1, <2>2, TypeFacts DEF PoolPartition, Placed, InPool
<1> QED BY <1>1, InitType, TypeStep, PartInit, PartStep, PTL DEF Spec

-----------------------------------------------------------------------------
(* The clients before the position of connect_all_peers() have a task, and  *)
(* after the loop all have one, except those of a discovered host that are  *)
(* not the last of their group: on_addr() forgets these.                    *)
Forgotten(c) == c[1] \in Unlisted /\ c[2] < Concurrency

DialInv ==
    /\ \A i \in 1..Len(clients) : i < pos => Started(clients[i])
    /\ phase # "loop" => \A c \in ToSet(clients) : Started(c) \/ Forgotten(c)

(* A task that has been started is not forgotten.                           *)
LEMMA StartedStays ==
    ASSUME TypeInv, [Next]_vars, NEW d \in AllClients, Started(d)
    PROVE  Started(d)'
<1>1. PICK k \in Slots : task[d][k] # "none"
  BY DEF Started
<1>2. ASSUME task' = task PROVE Started(d)'
  BY <1>1, <1>2 DEF Started
<1>3. ASSUME NEW c \in AllClients, ConnectTask(c) PROVE Started(d)'
  <2>1. FreeSlot(c) \in Slots /\ "new" \in TaskStates
    BY DEF FreeSlot, Slots, TaskStates
  <2>2. task'[d][k] = IF d = c /\ k = FreeSlot(c) THEN "new" ELSE task[d][k]
    BY <1>3, <2>1, TaskWrites DEF ConnectTask
  <2> QED BY <1>1, <2>2 DEF Started
<1>4. CASE ConnectNext
  <2>1. clients[pos] \in AllClients
    BY <1>4, TypeFacts DEF ConnectNext, TypeInv, TypeOK
  <2> QED BY <1>3, <1>4, <2>1 DEF ConnectNext
<1>5. ASSUME NEW h \in Unlisted, on_addr(h) PROVE Started(d)'
  <2>1. <<h, Concurrency>> \in AllClients
    BY GroupElements DEF Hosts
  <2> QED BY <1>3, <1>5, <2>1 DEF on_addr
<1>6. ASSUME NEW c \in ToSet(clients), Lost(c) PROVE Started(d)'
  BY <1>1, <1>6, LostWrites DEF Started
<1>7. ASSUME NEW c \in ToSet(clients), NEW j \in Slots, TaskStep(c, j) PROVE Started(d)'
  BY <1>1, <1>7, TaskStepWrites DEF Started
<1> QED BY <1>2, <1>4, <1>5, <1>6, <1>7 DEF Next, EndLoop, Ready, Pick, vars, links

(* At first the loop is at its start.                                       *)
LEMMA DialInit == Init => DialInv
BY DEF Init, DialInv

(* What the loop of connect_all_peers() has passed has a task.              *)
LEMMA DialStep == TypeInv /\ DialInv /\ [Next]_vars => DialInv'
<1> SUFFICES ASSUME TypeInv, DialInv, [Next]_vars PROVE DialInv'
  OBVIOUS
<1> DEFINE StartsNow(d) == \E j \in Slots : task'[d][j] # "none"
<1>1. ASSUME NEW d \in AllClients, Started(d) PROVE StartsNow(d)
  BY <1>1, StartedStays DEF Started
<1>a. DialInv' <=> /\ \A i \in 1..Len(clients') : i < pos' => StartsNow(clients'[i])
                   /\ phase' # "loop" =>
                          \A c \in ToSet(clients') : StartsNow(c) \/ Forgotten(c)
  BY DEF DialInv, Started, Forgotten
<1> HIDE DEF StartsNow
<1>2. ASSUME UNCHANGED <<clients, pos>>,
             phase' # "loop" => \A c \in ToSet(clients) : Started(c) \/ Forgotten(c)
      PROVE  DialInv'
  BY <1>1, <1>2, <1>a, TypeFacts DEF DialInv
<1>3. CASE EndLoop
  <2>1. UNCHANGED <<clients, pos>> /\ pos > Len(clients)
    BY <1>3 DEF EndLoop, peers
  <2>2. \A c \in ToSet(clients) : \E i \in 1..Len(clients) : c = clients[i] /\ i < pos
    <3>1. pos \in Nat /\ Len(clients) \in Nat
      BY TypeFacts DEF TypeInv, TypeOK
    <3>2. \A i \in 1..Len(clients) : i < pos
      BY <2>1, <3>1
    <3>3. \A c \in ToSet(clients) : \E i \in 1..Len(clients) : c = clients[i]
      BY TypeFacts, ToSetIn
    <3> QED BY <3>2, <3>3
  <2> QED BY <1>2, <2>1, <2>2 DEF DialInv
<1>4. CASE ConnectNext
  <2>1. /\ pos \in 1..Len(clients) /\ clients[pos] \in AllClients /\ pos' = pos + 1
        /\ UNCHANGED <<clients, phase>> /\ phase = "loop"
    BY <1>4, TypeFacts DEF ConnectNext, TypeInv, TypeOK, peers
  <2>2. StartsNow(clients[pos])
    <3>1. FreeSlot(clients[pos]) \in Slots /\ "new" \in TaskStates
      BY DEF FreeSlot, Slots, TaskStates
    <3>2. task'[clients[pos]][FreeSlot(clients[pos])] = "new"
      BY <1>4, <2>1, <3>1, TaskWrites DEF ConnectNext, ConnectTask
    <3> QED BY <3>1, <3>2 DEF StartsNow
  <2>3. \A i \in 1..Len(clients) : i < pos' => i < pos \/ i = pos
    BY <2>1
  <2>4. \A i \in 1..Len(clients) : i < pos' => StartsNow(clients'[i])
    BY <1>1, <2>1, <2>2, <2>3, TypeFacts DEF DialInv
  <2> QED BY <1>a, <2>1, <2>4
<1>5. ASSUME NEW h \in Unlisted, on_addr(h) PROVE DialInv'
  <2> DEFINE g == Group(h)
  <2>1. clients' = clients \o g /\ UNCHANGED <<pos, phase>>
    BY <1>5 DEF on_addr, start
  <2>2. g \in Seq(AllClients) /\ <<h, Concurrency>> \in AllClients
    BY GroupElements DEF Hosts
  <2>3. \A x \in ToSet(g) : Forgotten(x) \/ x = <<h, Concurrency>>
    <3>1. \A i \in 1..Concurrency : i < Concurrency \/ i = Concurrency
      BY NumberAssumption
    <3> QED BY <3>1 DEF Group, ToSet, Forgotten
  <2> HIDE DEF g
  <2>4. /\ Len(clients') = Len(clients) + Len(g) /\ Len(g) \in Nat
        /\ ToSet(clients') = ToSet(clients) \cup ToSet(g)
        /\ \A i \in 1..Len(clients) : clients'[i] = clients[i]
    BY <2>1, <2>2, TypeFacts, ConcatElements, ConcatProperties
  <2>5. pos \in 1 .. Len(clients) + 1
    BY DEF TypeInv, TypeOK
  <2>6. \A i \in 1..Len(clients') : i < pos' => i \in 1..Len(clients) /\ i < pos
    BY <2>1, <2>4, <2>5, TypeFacts
  <2>7. StartsNow(<<h, Concurrency>>)
    <3>1. FreeSlot(<<h, Concurrency>>) \in Slots /\ "new" \in TaskStates
      BY DEF FreeSlot, Slots, TaskStates
    <3>2. task'[<<h, Concurrency>>][FreeSlot(<<h, Concurrency>>)] = "new"
      BY <1>5, <2>2, <3>1, TaskWrites DEF on_addr, ConnectTask
    <3> QED BY <3>1, <3>2 DEF StartsNow
  <2>8. \A i \in 1..Len(clients') : i < pos' => StartsNow(clients'[i])
    BY <1>1, <2>4, <2>6, TypeFacts DEF DialInv
  <2>9. phase # "loop" => \A c \in ToSet(clients') : StartsNow(c) \/ Forgotten(c)
    BY <1>1, <2>3, <2>4, <2>7, TypeFacts DEF DialInv
  <2> QED BY <1>a, <2>1, <2>8, <2>9
<1>6. ASSUME NEW c \in ToSet(clients), Lost(c) PROVE DialInv'
  BY <1>2, <1>6 DEF Lost, peers, start, DialInv
<1>7. ASSUME NEW c \in ToSet(clients), NEW j \in Slots, TaskStep(c, j) PROVE DialInv'
  <2>1. UNCHANGED <<clients, pos, phase>>
    BY <1>7 DEF TaskStep, TaskStarts, Wakes, Fails, Connects, peers, start
  <2> QED BY <1>2, <2>1 DEF DialInv
<1>8. CASE Ready \/ Pick \/ UNCHANGED vars
  BY <1>2, <1>8 DEF Ready, Pick, vars, peers, start, DialInv
<1> QED BY <1>3, <1>4, <1>5, <1>6, <1>7, <1>8 DEF Next

(* DialInv holds for ever.                                                  *)
LEMMA DialHolds == Spec => []DialInv
BY InitType, TypeStep, DialInit, DialStep, PTL DEF Spec

(* With one client for every host, as is the default, every client has a    *)
(* connect_task once connect_all_peers() has gone through the list.  With   *)
(* more, the exceptions are those that Forgotten names.                     *)
THEOREM EveryClientDials ==
    ASSUME Concurrency = 1
    PROVE  Spec => []EveryoneDials
<1>1. TypeInv /\ DialInv => EveryoneDials
  <2> SUFFICES ASSUME TypeInv, DialInv PROVE EveryoneDials
    OBVIOUS
  <2>1. \A c \in ToSet(clients) : c[2] \in 1..1
    BY TypeFacts DEF AllClients
  <2>2. \A c \in ToSet(clients) : ~Forgotten(c)
    BY <2>1 DEF Forgotten
  <2> QED BY <2>2 DEF DialInv, EveryoneDials
<1> QED BY <1>1, DialHolds, InitType, TypeStep, PTL DEF Spec

-----------------------------------------------------------------------------
(* The index that was selected d picks ago, if the pool has not changed.    *)
Back(sel, d) == IF sel >= d THEN sel - d ELSE sel - d + Len(pool)

RotInv ==
    picked # <<>> =>
        /\ selected < Len(pool)
        /\ \A k \in 1..Len(picked) : picked[k] = pool[Back(selected, Len(picked) - k) + 1]

(* A pick: the rotation has come one place on.                              *)
LEMMA RotPick == TypeInv /\ RotInv /\ Pick => RotInv'
<1> SUFFICES ASSUME TypeInv, RotInv, Pick PROVE RotInv'
  OBVIOUS
<1> DEFINE n == Len(picked)  e == pool[selected' + 1]  a == Append(picked, e)
<1>1. /\ pool # <<>> /\ selected' = NextIndex(selected) /\ selected' \in Nat
      /\ selected \in Nat /\ Len(pool) \in Nat /\ n \in Nat /\ n <= Len(pool)
      /\ pool' = pool /\ Len(pool) > 0
  <2>1. selected' \in 0..MaxIndex /\ selected \in 0..MaxIndex /\ MaxIndex \in Nat
    BY PickWrites, NumberAssumption DEF TypeInv, TypeOK
  <2> QED BY <2>1, PickWrites, TypeFacts
<1>2. CASE selected' >= Len(pool)
  <2>0. ~(selected' < Len(pool))
    BY <1>1, <1>2
  <2>1. picked' = picked
    BY <2>0, PickWrites
  <2>2. picked = <<>>
    BY <1>1, <1>2 DEF RotInv, NextIndex
  <2> QED BY <2>1, <2>2 DEF RotInv
<1>3. CASE selected' < Len(pool)
  <2>0. ~(selected' >= Len(pool))
    BY <1>1, <1>3
  <2>1. e \in ToSet(pool) /\ picked' = LastOnes(a) /\ picked \in Seq(ToSet(pool))
    BY <2>0, PickWrites, TypeFacts
  <2> HIDE DEF e
  <2>2. /\ a \in Seq(ToSet(pool)) /\ Len(a) = n + 1 /\ a # <<>> /\ a[n + 1] = e
        /\ \A k \in 1..n : a[k] = picked[k]
    BY <2>1, AppendProperties
  <2> HIDE DEF a
  <2>3. ASSUME NEW k \in 1..n+1
        PROVE  a[k] = pool[Back(selected', n + 1 - k) + 1]
    <3>1. CASE k = n + 1
      <4>1. Back(selected', n + 1 - k) = selected'
        BY <1>1, <3>1 DEF Back
      <4> QED BY <2>2, <3>1, <4>1 DEF e
    <3>2. CASE k \in 1..n
      <4>1. selected < Len(pool) /\ picked[k] = pool[Back(selected, n - k) + 1]
        <5>1. picked # <<>>
          BY <1>1, <3>2
        <5> QED BY <3>2, <5>1 DEF RotInv
      <4>2. n - k \in Nat /\ n - k < Len(pool)
        BY <1>1, <3>2
      <4>3. Back(selected', n + 1 - k) = Back(selected, n - k)
        BY <1>1, <3>2, <4>1, <4>2 DEF Back, NextIndex
      <4> QED BY <2>2, <3>2, <4>1, <4>3
    <3> QED BY <1>1, <3>1, <3>2
  <2>4. CASE n + 1 > Len(pool)
    <3>1. picked' = Tail(a)
      BY <2>1, <2>2, <2>4 DEF LastOnes
    <3>2. Len(picked') = n /\ \A k \in 1..n : picked'[k] = a[k + 1]
      BY <1>1, <2>2, <3>1, HeadTailProperties
    <3>3. \A k \in 1..n : picked'[k] = pool[Back(selected', n - k) + 1]
      <4> SUFFICES ASSUME NEW k \in 1..n
                   PROVE  picked'[k] = pool[Back(selected', n - k) + 1]
        OBVIOUS
      <4>1. k + 1 \in 1..n+1 /\ n + 1 - (k + 1) = n - k
        BY <1>1
      <4> QED BY <2>3, <3>2, <4>1
    <3> QED BY <1>1, <1>3, <3>2, <3>3 DEF RotInv, Back
  <2>5. CASE ~(n + 1 > Len(pool))
    <3>1. picked' = a
      BY <2>1, <2>2, <2>5 DEF LastOnes
    <3>2. Len(picked') = n + 1
      BY <2>2, <3>1
    <3> QED BY <1>1, <1>3, <2>3, <3>1, <3>2 DEF RotInv, Back
  <2> QED BY <2>4, <2>5
<1> QED BY <1>1, <1>2, <1>3

(* The other steps keep the pool, or begin a new record.                    *)
LEMMA RotStep == TypeInv /\ RotInv /\ [Next]_vars => RotInv'
<1> SUFFICES ASSUME TypeInv, RotInv, [Next]_vars PROVE RotInv'
  OBVIOUS
<1>1. ASSUME UNCHANGED <<pool, selected, picked>> PROVE RotInv'
  BY <1>1 DEF RotInv, Back
<1>2. ASSUME selected' = selected, picked' = IF pool' = pool THEN picked ELSE <<>>
      PROVE  RotInv'
  <2>1. CASE pool' = pool
    BY <1>1, <1>2, <2>1
  <2>2. CASE pool' # pool
    BY <1>2, <2>2 DEF RotInv
  <2> QED BY <2>1, <2>2
<1>3. ASSUME NEW c \in ToSet(clients), Lost(c) PROVE RotInv'
  BY <1>2, <1>3 DEF Lost, LeavePool
<1>4. ASSUME NEW c \in ToSet(clients), NEW j \in Slots, TaskStep(c, j) PROVE RotInv'
  <2>1. CASE TaskStarts(c, j) \/ Wakes(c, j)
    BY <1>1, <2>1 DEF TaskStarts, Wakes, picks
  <2>2. CASE Fails(c, j)
    BY <1>2, <2>2 DEF Fails, LeavePool
  <2>3. CASE Connects(c, j)
    <3>1. /\ selected' = selected
          /\ \/ UNCHANGED <<pool, picked>>
             \/ picked' = IF pool' = pool THEN picked ELSE <<>>
      BY <2>3 DEF Connects
    <3> QED BY <1>1, <1>2, <3>1
  <2> QED BY <1>4, <2>1, <2>2, <2>3 DEF TaskStep
<1>5. ASSUME NEW h \in Unlisted, on_addr(h) PROVE RotInv'
  BY <1>1, <1>5 DEF on_addr, picks
<1>6. CASE ConnectNext \/ EndLoop \/ Ready \/ UNCHANGED vars
  BY <1>1, <1>6 DEF ConnectNext, EndLoop, Ready, vars, links, picks
<1> QED BY <1>3, <1>4, <1>5, <1>6, RotPick DEF Next

(* As long as the pool does not change, no client is offered a second time  *)
(* before every other one has been offered once.                            *)
THEOREM RotationFair == Spec => []FairRotation
<1>1. Init => RotInv
  BY DEF Init, RotInv
<1>2. TypeInv /\ RotInv => FairRotation
  <2> SUFFICES ASSUME TypeInv, RotInv PROVE FairRotation
    OBVIOUS
  <2> DEFINE n == Len(picked)
  <2>1. /\ n \in Nat /\ n <= Len(pool) /\ Len(pool) \in Nat /\ selected \in Nat
        /\ DOMAIN picked = 1..n
    BY TypeFacts DEF TypeInv, TypeOK
  <2>2. \A k, m \in 1..Len(pool) : pool[k] = pool[m] => k = m
    BY TypeFacts DEF IsInjective
  <2> SUFFICES ASSUME NEW k \in 1..n, NEW m \in 1..n, picked[k] = picked[m] PROVE k = m
    BY <2>1 DEF FairRotation, IsInjective
  <2>3. picked # <<>>
    BY <2>1
  <2>4. /\ selected < Len(pool) /\ picked[k] = pool[Back(selected, n - k) + 1]
        /\ picked[m] = pool[Back(selected, n - m) + 1]
    BY <2>3 DEF RotInv
  <2>5. Back(selected, n - k) + 1 \in 1..Len(pool) /\ Back(selected, n - m) + 1 \in 1..Len(pool)
    BY <2>1, <2>4 DEF Back
  <2>6. Back(selected, n - k) = Back(selected, n - m)
    <3>1. Back(selected, n - k) + 1 = Back(selected, n - m) + 1
      BY <2>2, <2>4, <2>5
    <3>2. Back(selected, n - k) \in Int /\ Back(selected, n - m) \in Int
      BY <2>1 DEF Back
    <3> QED BY <3>1, <3>2
  <2> QED BY <2>1, <2>4, <2>6 DEF Back
<1> QED BY <1>1, <1>2, InitType, TypeStep, RotStep, PTL DEF Spec
=============================================================================
