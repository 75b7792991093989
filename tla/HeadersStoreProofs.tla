-------------------------- MODULE HeadersStoreProofs --------------------------
(***************************************************************************)
(* Proofs about HeadersStore, for every tree of headers, every set of       *)
(* invalid ones, and any number of calls and crashes.                       *)
(*                                                                         *)
(* The cursor (or, during a write, the place it has come to) cuts each of   *)
(* the chains, and the headers before the cuts are those in the file.  A    *)
(* chain begins above a header of an earlier chain that is not its tip: for *)
(* that reason writing chain after chain never writes a header before its   *)
(* parent, and reading the file begins the same chains again.               *)
(***************************************************************************)
EXTENDS HeadersStore, HeaderChainsProofs

-----------------------------------------------------------------------------
(* The invariant.                                                           *)

InFile(h) == h = Genesis \/ h \in ToSet(file)

SeqInv ==
    /\ pc \in {"down", "load", "broken", "ready", "connect", "write"}
    /\ cursor \in Seq(Nat) /\ Len(cursor) <= Len(chains)
    /\ written \in Seq(Nat) /\ Len(written) <= Len(chains)
    /\ \A i \in 1..Len(written) : written[i] <= Len(chains[i])
    /\ file \in Seq(Headers \ {Genesis}) /\ torn \in BOOLEAN
    /\ todo \in Seq(Headers \ {Genesis})
    /\ pc \in {"down", "load"} => cursor = <<>> /\ written = <<>>

(* While the file is read: the chains hold what has been read of it.        *)
LoadInv ==
    pc = "load" =>
        /\ Len(todo) <= Len(file)
        /\ \A i \in 1..Len(todo) : todo[i] = file[Len(file) - Len(todo) + i]
        /\ \A h : h \in Known(chains) <=>
                   h = Genesis \/ \E j \in 1 .. Len(file) - Len(todo) : file[j] = h

(* w cuts the chains cs into what the file holds and what it does not.      *)
Cut(cs, w) ==
    /\ \A i \in 1..Len(cs) :
          /\ w[i] \in 0..Len(cs[i])
          /\ \A n \in 1..Len(cs[i]) : InFile(cs[i][n]) <=> n <= w[i]
    /\ ToSet(file) \subseteq Known(cs)

CursorCut == [i \in DOMAIN chains |-> Covers(cursor, i)]
CutInv ==
    /\ pc \in {"ready", "connect"} => Cut(chains, CursorCut)
    /\ pc = "write" => Len(written) = Len(chains) /\ Cut(chains, written)

(* What has been promised is in the file; what is about to be is known, or  *)
(* will be when the call succeeds.                                          *)
PromiseInv ==
    /\ \A h \in promised : InFile(h)
    /\ pc = "connect" => call.headers \subseteq Known(chains) \cup ToSet(todo)
    /\ pc = "write" => call.headers \subseteq Known(chains)

StoreInv ==
    /\ GoodChains(chains) /\ SeqInv /\ FileReloads
    /\ LoadInv /\ CutInv /\ PromiseInv

-----------------------------------------------------------------------------
(* A header that is added, and not in the file, goes behind the cut.        *)
LEMMA CutGrows ==
    ASSUME NEW cs, NEW ds, GoodChains(cs), IsChains(ds), NEW w, NEW v, Cut(cs, w),
           NEW h, NEW k, Grows(cs, ds, k, h), h \notin Known(cs), h # Genesis,
           \A i \in 1..Len(ds) : v[i] = IF i \in 1..Len(cs) THEN w[i] ELSE 0
    PROVE  Cut(ds, v)
<1>0. IsChains(cs)
  BY DEF GoodChains
<1>1. /\ \A i \in 1..Len(cs) : Len(cs[i]) \in Nat /\ w[i] \in 0..Len(cs[i])
      /\ \A i \in 1..Len(ds) : Len(ds[i]) \in Nat \ {0}
  BY <1>0, ChainsType DEF Cut
<1>2. ~InFile(h)
  BY DEF Cut, InFile
<1>3. ASSUME NEW i \in 1..Len(ds) PROVE v[i] \in 0..Len(ds[i])
  <2>1. CASE i \in 1..Len(cs)
    <3>1. Len(cs[i]) <= Len(ds[i])
      BY <1>0, <2>1, GrowsPlaces
    <3> QED BY <1>1, <2>1, <3>1
  <2>2. CASE i \notin 1..Len(cs)
    BY <1>1, <2>2
  <2> QED BY <2>1, <2>2
<1>4. ASSUME NEW i \in 1..Len(ds), NEW n \in 1..Len(ds[i])
      PROVE  InFile(ds[i][n]) <=> n <= v[i]
  <2>1. CASE i \in 1..Len(cs) /\ n \in 1..Len(cs[i]) /\ ds[i][n] = cs[i][n]
    BY <2>1 DEF Cut
  <2>2. CASE i = k /\ n = Len(ds[k]) /\ k \in 1..Len(cs)
    <3>1. Len(ds[k]) = Len(cs[k]) + 1 /\ ds[k][n] = h
      BY <1>0, <2>2, GrowsPlaces
    <3>2. ~(n <= w[k])
      BY <1>1, <2>2, <3>1
    <3> QED BY <1>2, <2>2, <3>1, <3>2
  <2>3. CASE i = k /\ n = Len(ds[k]) /\ k \notin 1..Len(cs)
    <3>1. ds[k][n] = h /\ v[i] = 0
      BY <1>0, <2>3, GrowsPlaces
    <3>2. ~(n <= 0)
      OBVIOUS
    <3> QED BY <1>2, <2>3, <3>1, <3>2
  <2> QED BY <1>0, <2>1, <2>2, <2>3, GrowsPlaces
<1>5. \A x : x \in Known(cs) => x \in Known(ds)
  <2> SUFFICES ASSUME NEW x, x \in Known(cs) PROVE x \in Known(ds)
    OBVIOUS
  <2>1. PICK i \in 1..Len(cs) : \E n \in 1..Len(cs[i]) : cs[i][n] = x
    BY <1>0, KnownWhere
  <2>2. PICK n \in 1..Len(cs[i]) : cs[i][n] = x
    BY <2>1
  <2>3. i \in 1..Len(ds) /\ n \in 1..Len(ds[i]) /\ ds[i][n] = x
    BY <1>0, <2>2, GrowsPlaces
  <2> QED BY <2>3, KnownWhere
<1>6. ToSet(file) \subseteq Known(ds)
  BY <1>5 DEF Cut
<1> QED BY <1>3, <1>4, <1>6 DEF Cut

(* A cursor taken now covers the chains to their ends.                      *)
LEMMA CursorOfType ==
    ASSUME NEW cs, IsChains(cs)
    PROVE  /\ CursorOf(cs) \in Seq(Nat) /\ Len(CursorOf(cs)) = Len(cs)
           /\ \A i \in 1..Len(cs) : CursorOf(cs)[i] = Len(cs[i])
<1>1. /\ Len(cs) \in Nat /\ DOMAIN cs = 1..Len(cs)
      /\ \A i \in 1..Len(cs) : Len(cs[i]) \in Nat
  BY ChainsType
<1>2. CursorOf(cs) \in [1..Len(cs) -> Nat]
  BY <1>1 DEF CursorOf
<1>3. ASSUME NEW n \in Nat, NEW S, NEW f \in [1..n -> S]
      PROVE  f \in Seq(S) /\ Len(f) = n
  OBVIOUS
<1>4. CursorOf(cs) \in Seq(Nat) /\ Len(CursorOf(cs)) = Len(cs)
  BY <1>1, <1>2, <1>3
<1> QED BY <1>1, <1>4 DEF CursorOf

(* Only the values of a cut count.                                          *)
LEMMA CutSame ==
    ASSUME NEW cs, NEW w, NEW v, Cut(cs, w), \A i \in 1..Len(cs) : v[i] = w[i]
    PROVE  Cut(cs, v)
BY DEF Cut

(* A step that leaves the file alone leaves what cuts the chains.           *)
LEMMA CutStays ==
    ASSUME NEW cs, NEW w, Cut(cs, w), file' = file
    PROVE  Cut(cs, w)'
BY DEF Cut, InFile

(* CursorCut, place by place: a chain that the cursor does not list is not  *)
(* covered at all.                                                          *)
LEMMA CursorCutIs ==
    ASSUME SeqInv, IsChains(chains)
    PROVE  \A i \in 1..Len(chains) :
               CursorCut[i] = IF i \in 1..Len(cursor) THEN cursor[i] ELSE 0
<1>1. DOMAIN cursor = 1..Len(cursor)
  BY DEF SeqInv
<1>2. DOMAIN chains = 1..Len(chains)
  BY ChainsType
<1> QED BY <1>1, <1>2 DEF CursorCut, Covers

(* When all that is known is in the file the whole of each chain is.        *)
LEMMA CutFull ==
    ASSUME NEW cs, IsChains(cs), \A h : h \in Known(cs) <=> InFile(h)
    PROVE  Cut(cs, CursorOf(cs))
<1>1. \A i \in 1..Len(cs) : CursorOf(cs)[i] = Len(cs[i]) /\ Len(cs[i]) \in Nat
  BY CursorOfType, ChainsType
<1>2. \A i \in 1..Len(cs) : \A n \in 1..Len(cs[i]) :
         InFile(cs[i][n]) /\ n <= CursorOf(cs)[i]
  <2>1. \A i \in 1..Len(cs) : \A n \in 1..Len(cs[i]) : cs[i][n] \in Known(cs)
    BY KnownWhere
  <2> QED BY <1>1, <2>1
<1>3. \A i \in 1..Len(cs) : CursorOf(cs)[i] \in 0..Len(cs[i])
  BY <1>1
<1>4. ToSet(file) \subseteq Known(cs)
  BY DEF InFile
<1> QED BY <1>2, <1>3, <1>4 DEF Cut

(* The program starts.                                                      *)
LEMMA OpenKeeps == StoreInv /\ Open => StoreInv'
<1> SUFFICES ASSUME StoreInv, Open PROVE StoreInv'
  OBVIOUS
<1>1. /\ pc = "down" /\ pc' = "load" /\ chains' = NoChains /\ todo' = file
      /\ cursor' = cursor /\ written' = written /\ file' = file /\ torn' = torn
      /\ call' = call /\ promised' = promised
  BY DEF Open
<1>2. GoodChains(chains') /\ Len(chains') = 1 /\ \A h : h \in Known(chains') <=> h = Genesis
  BY <1>1, NoChainsGood
<1>3. SeqInv'
  <2>1. cursor = <<>> /\ written = <<>> /\ Len(<<>>) = 0 /\ <<>> \in Seq(Nat)
    BY <1>1 DEF StoreInv, SeqInv
  <2>2. 1..0 = {} /\ 0 <= 1
    OBVIOUS
  <2> QED BY <1>1, <1>2, <2>1, <2>2 DEF StoreInv, SeqInv
<1>4. LoadInv'
  <2>1. Len(file) \in Nat
    BY DEF StoreInv, SeqInv
  <2>2. \A x \in Nat : x <= x /\ x - x = 0 /\ \A i \in 1..x : x - x + i = i
    OBVIOUS
  <2>3. 1..0 = {}
    OBVIOUS
  <2> QED BY <1>1, <1>2, <2>1, <2>2, <2>3 DEF LoadInv
<1>5. FileReloads' /\ CutInv' /\ PromiseInv'
  BY <1>1 DEF StoreInv, FileReloads, CutInv, PromiseInv, InFile
<1> QED BY <1>2, <1>3, <1>4, <1>5 DEF StoreInv

(* One header read from the file extends the chains; the file holds it.     *)
LEMMA LoadKeeps ==
    ASSUME StoreInv, Load
    PROVE  /\ StoreInv' /\ pc' = "load"
           /\ \A h : InFile(h)' <=> InFile(h)
<1>0. /\ pc = "load" /\ todo # <<>>
      /\ cursor' = cursor /\ written' = written /\ file' = file /\ torn' = torn
      /\ call' = call /\ promised' = promised
  BY DEF Load
<1>1. /\ GoodChains(chains) /\ IsChains(chains) /\ FileReloads
      /\ file \in Seq(Headers \ {Genesis}) /\ todo \in Seq(Headers \ {Genesis})
      /\ Len(file) \in Nat /\ DOMAIN file = 1..Len(file)
  BY DEF StoreInv, SeqInv, GoodChains
<1> DEFINE h == Head(todo)
           i == Len(file) - Len(todo) + 1
<1>2. /\ h \in Headers \ {Genesis} /\ h = todo[1] /\ Tail(todo) \in Seq(Headers \ {Genesis})
      /\ Len(todo) \in Nat \ {0} /\ Len(Tail(todo)) = Len(todo) - 1
      /\ \A j \in 1 .. Len(todo) - 1 : Tail(todo)[j] = todo[j + 1]
  BY <1>0, <1>1, HeadTailElements
<1>3. /\ Len(todo) <= Len(file)
      /\ \A j \in 1..Len(todo) : todo[j] = file[Len(file) - Len(todo) + j]
      /\ \A x : x \in Known(chains) <=> x = Genesis \/ \E j \in 1 .. i - 1 : file[j] = x
  <2>1. i - 1 = Len(file) - Len(todo)
    BY <1>1, <1>2
  <2> QED BY <1>0, <2>1 DEF StoreInv, LoadInv
<1>4. h = file[i] /\ i \in 1..Len(file)
  <2>1. 1 \in 1..Len(todo)
    BY <1>2
  <2>2. todo[1] = file[i]
    BY <1>3, <2>1
  <2>3. i \in 1..Len(file)
    BY <1>1, <1>2, <1>3
  <2> QED BY <1>2, <2>2, <2>3
<1> HIDE DEF h, i
<1>5. Parent[h] \in Known(chains) /\ h \notin Known(chains)
  <2>1. /\ Parent[file[i]] \in {Genesis} \cup {file[j] : j \in 1 .. i - 1}
        /\ file[i] \notin {file[j] : j \in 1 .. i - 1}
    BY <1>1, <1>4 DEF FileReloads
  <2> QED BY <1>2, <1>3, <1>4, <2>1
<1>6. chains' = Connect(chains, h) /\ todo' = Tail(todo) /\ pc' = pc
  BY <1>5 DEF Load, h
<1>7. /\ GoodChains(chains') /\ \A x : x \in Known(chains') <=> x \in Known(chains) \/ x = h
      /\ \E k \in Nat : Grows(chains, chains', k, h)
  BY <1>1, <1>2, <1>5, <1>6, ConnectAdds
<1>8. IsChains(chains')
  BY <1>7 DEF GoodChains
<1>9. SeqInv'
  <2>1. cursor = <<>> /\ written = <<>> /\ Len(<<>>) = 0 /\ <<>> \in Seq(Nat)
    BY <1>0 DEF StoreInv, SeqInv
  <2>2. 1..0 = {} /\ \A x \in Nat : 0 <= x
    OBVIOUS
  <2>3. Len(chains') \in Nat
    BY <1>8, ChainsType
  <2> QED BY <1>0, <1>2, <1>6, <2>1, <2>2, <2>3 DEF StoreInv, SeqInv
<1>10. LoadInv'
  <2>1. Len(todo') <= Len(file) /\ Len(file) - Len(todo') = i
    BY <1>1, <1>2, <1>3, <1>6 DEF i
  <2>2. ASSUME NEW j \in 1..Len(todo') PROVE todo'[j] = file[i + j]
    <3>1. j \in 1 .. Len(todo) - 1 /\ j + 1 \in 1..Len(todo)
          /\ Len(file) - Len(todo) + (j + 1) = i + j
      BY <1>1, <1>2, <1>6 DEF i
    <3> QED BY <1>2, <1>3, <1>6, <3>1
  <2>3. \A x : (\E j \in 1..i : file[j] = x) <=> (\E j \in 1..i-1 : file[j] = x) \/ x = h
    <3>1. \A j : j \in 1..i <=> j \in 1..i-1 \/ j = i
      BY <1>4
    <3> QED BY <1>4, <3>1
  <2> QED BY <1>0, <1>3, <1>7, <2>1, <2>2, <2>3 DEF LoadInv
<1>11. FileReloads' /\ CutInv' /\ PromiseInv'
  BY <1>0, <1>6 DEF StoreInv, FileReloads, CutInv, PromiseInv, InFile
<1>12. \A x : InFile(x)' <=> InFile(x)
  BY <1>0 DEF InFile
<1> QED BY <1>0, <1>6, <1>7, <1>9, <1>10, <1>11, <1>12 DEF StoreInv

(* When all is read, the chains hold the file and no more.                  *)
LEMMA LoadedKeeps == StoreInv /\ Loaded => StoreInv'
<1> SUFFICES ASSUME StoreInv, Loaded PROVE StoreInv'
  OBVIOUS
<1>1. /\ pc = "load" /\ todo = <<>> /\ pc' \in {"broken", "ready"}
      /\ cursor' = CursorOf(chains) /\ chains' = chains /\ written' = written
      /\ file' = file /\ torn' = torn /\ todo' = todo /\ call' = call /\ promised' = promised
  BY DEF Loaded
<1>2. GoodChains(chains) /\ IsChains(chains) /\ Len(chains) \in Nat
  BY ChainsType DEF StoreInv, GoodChains
<1>3. \A h : h \in Known(chains) <=> InFile(h)
  <2>1. Len(todo) = 0 /\ Len(file) \in Nat /\ file \in Seq(Headers \ {Genesis})
    BY <1>1 DEF StoreInv, SeqInv
  <2>2. Len(file) - Len(todo) = Len(file)
    BY <2>1
  <2>3. \A h : h \in ToSet(file) <=> \E j \in 1..Len(file) : file[j] = h
    BY <2>1, ToSetIn
  <2> QED BY <1>1, <2>2, <2>3 DEF StoreInv, LoadInv, InFile
<1>4. SeqInv'
  <2>1. CursorOf(chains) \in Seq(Nat) /\ Len(CursorOf(chains)) = Len(chains)
    BY <1>2, CursorOfType
  <2>2. \A x \in Nat : x <= x
    OBVIOUS
  <2> QED BY <1>1, <1>2, <2>1, <2>2 DEF StoreInv, SeqInv
<1>5. CutInv'
  <2>1. Cut(chains, CursorOf(chains))
    BY <1>2, <1>3, CutFull
  <2>3. \A i \in 1..Len(chains) : CursorCut'[i] = CursorOf(chains)[i]
    <3>1. SeqInv' /\ IsChains(chains')
      BY <1>1, <1>2, <1>4
    <3>2. \A i \in 1..Len(chains') :
             CursorCut'[i] = IF i \in 1..Len(cursor') THEN cursor'[i] ELSE 0
      <4>1. (SeqInv /\ IsChains(chains) =>
              \A i \in 1..Len(chains) :
                 CursorCut[i] = IF i \in 1..Len(cursor) THEN cursor[i] ELSE 0)'
        BY CursorCutIs, PTL
      <4> QED BY <3>1, <4>1
    <3>3. Len(CursorOf(chains)) = Len(chains)
      BY <1>2, CursorOfType
    <3> QED BY <1>1, <3>2, <3>3
  <2>4. Cut(chains, CursorCut)'
    BY <1>1, <2>1, <2>3 DEF Cut, InFile
  <2> QED BY <1>1, <2>4 DEF CutInv
<1>6. GoodChains(chains)' /\ LoadInv' /\ FileReloads' /\ PromiseInv'
  BY <1>1, <1>2 DEF StoreInv, LoadInv, FileReloads, PromiseInv, InFile
<1> QED BY <1>4, <1>5, <1>6 DEF StoreInv

(* A call begins.                                                           *)
LEMMA CallKeeps ==
    ASSUME StoreInv, NEW b \in Batches, NEW safe \in Uses, Call(b, safe)
    PROVE  StoreInv'
<1>1. /\ pc = "ready" /\ pc' = "connect" /\ todo' = b /\ call'.headers = ToSet(b)
      /\ chains' = chains /\ cursor' = cursor /\ written' = written
      /\ file' = file /\ torn' = torn /\ promised' = promised
  BY DEF Call
<1>2. b \in Seq(Headers \ {Genesis})
  <2>1. PICK m \in 0..MaxBatch : b \in [1..m -> Headers \ {Genesis}]
    BY DEF Batches, BoundedSeq, SeqOf
  <2>2. m \in Nat
    BY StoreAssumption
  <2> QED BY <2>1, <2>2
<1>a. SeqInv'
  BY <1>1, <1>2 DEF StoreInv, SeqInv
<1>3. GoodChains(chains)' /\ SeqInv' /\ FileReloads' /\ LoadInv'
  BY <1>1, <1>a DEF StoreInv, FileReloads, LoadInv
<1>4. CutInv'
  BY <1>1 DEF StoreInv, CutInv, Cut, CursorCut, InFile
<1>5. PromiseInv'
  BY <1>1 DEF StoreInv, PromiseInv, InFile
<1> QED BY <1>3, <1>4, <1>5 DEF StoreInv

(* A header of the message is connected, unless it is known already.        *)
LEMMA ConnectHeaderKeeps ==
    ASSUME StoreInv, ConnectHeader
    PROVE  /\ StoreInv'
           /\ \A x : x \in Known(chains') <=> x \in Known(chains) \/ x = Head(todo)
           /\ Head(todo) \in Headers \ {Genesis}
<1> DEFINE h == Head(todo)
<1>1. /\ pc = "connect" /\ todo # <<>> /\ pc' = pc /\ Parent[h] \in Known(chains)
      /\ chains' = Connect(chains, h) /\ todo' = Tail(todo)
      /\ cursor' = cursor /\ written' = written /\ file' = file /\ torn' = torn
      /\ call' = call /\ promised' = promised
  BY DEF ConnectHeader
<1>2. /\ GoodChains(chains) /\ IsChains(chains) /\ SeqInv
      /\ file \in Seq(Headers \ {Genesis}) /\ todo \in Seq(Headers \ {Genesis})
  BY DEF StoreInv, SeqInv, GoodChains
<1>3. /\ h \in Headers \ {Genesis} /\ Tail(todo) \in Seq(Headers \ {Genesis})
      /\ ToSet(todo) = {h} \cup ToSet(Tail(todo))
  BY <1>1, <1>2, HeadTailElements
<1> HIDE DEF h
<1>4. /\ GoodChains(chains') /\ IsChains(chains')
      /\ \A x : x \in Known(chains') <=> x \in Known(chains) \/ x = h
      /\ h \in Known(chains) => chains' = chains
      /\ h \notin Known(chains) => \E k \in Nat : Grows(chains, chains', k, h)
  BY <1>1, <1>2, <1>3, ConnectAdds DEF GoodChains
<1>5. /\ Len(chains) <= Len(chains')
      /\ \A i \in 1..Len(chains) : i \in 1..Len(chains') /\ Len(chains[i]) <= Len(chains'[i])
      /\ Len(chains) \in Nat /\ Len(chains') \in Nat
      /\ \A i \in 1..Len(chains) : Len(chains[i]) \in Nat
      /\ \A i \in 1..Len(chains') : Len(chains'[i]) \in Nat
  <2>1. /\ Len(chains) \in Nat /\ Len(chains') \in Nat
        /\ \A i \in 1..Len(chains) : Len(chains[i]) \in Nat
        /\ \A i \in 1..Len(chains') : Len(chains'[i]) \in Nat
    BY <1>2, <1>4, ChainsType
  <2>2. CASE h \in Known(chains)
    <3>1. \A x \in Nat : x <= x
      OBVIOUS
    <3> QED BY <1>4, <2>1, <2>2, <3>1
  <2>3. CASE h \notin Known(chains)
    <3>1. PICK k \in Nat : Grows(chains, chains', k, h)
      BY <1>4, <2>3
    <3> QED BY <1>2, <1>4, <2>1, <3>1, GrowsPlaces
  <2> QED BY <2>2, <2>3
<1>6. SeqInv'
  <2>1. Len(cursor) <= Len(chains') /\ Len(written) <= Len(chains')
    <3>1. Len(cursor) \in Nat /\ Len(written) \in Nat /\ Len(cursor) <= Len(chains)
          /\ Len(written) <= Len(chains)
      BY <1>2 DEF SeqInv
    <3> QED BY <1>5, <3>1
  <2>2. ASSUME NEW i \in 1..Len(written) PROVE written[i] <= Len(chains'[i])
    <3>1. i \in 1..Len(chains) /\ written[i] \in Nat /\ written[i] <= Len(chains[i])
      <4>1. written \in Seq(Nat) /\ Len(written) \in Nat /\ Len(written) <= Len(chains)
            /\ written[i] <= Len(chains[i])
        BY <1>2 DEF SeqInv
      <4> QED BY <1>5, <4>1
    <3>2. Len(chains[i]) <= Len(chains'[i]) /\ Len(chains[i]) \in Nat /\ Len(chains'[i]) \in Nat
      BY <1>5, <3>1
    <3> QED BY <3>1, <3>2
  <2> QED BY <1>1, <1>2, <1>3, <2>1, <2>2 DEF SeqInv
<1>7. Cut(chains, CursorCut)'
  <2>1. Cut(chains, CursorCut)
    BY <1>1 DEF StoreInv, CutInv
  <2>2. CASE h \in Known(chains)
    BY <1>1, <1>4, <2>1, <2>2 DEF Cut, CursorCut, InFile
  <2>3. CASE h \notin Known(chains)
    <3>1. PICK k \in Nat : Grows(chains, chains', k, h)
      BY <1>4, <2>3
    <3>2. (SeqInv /\ IsChains(chains) =>
              \A i \in 1..Len(chains) :
                 CursorCut[i] = IF i \in 1..Len(cursor) THEN cursor[i] ELSE 0)'
      BY CursorCutIs, PTL
    <3>3. ASSUME NEW i \in 1..Len(chains')
          PROVE  CursorCut'[i] = IF i \in 1..Len(chains) THEN CursorCut[i] ELSE 0
      <4>1. CursorCut'[i] = IF i \in 1..Len(cursor) THEN cursor[i] ELSE 0
        BY <1>1, <1>4, <1>6, <3>2
      <4>2. i \in 1..Len(chains) =>
               CursorCut[i] = IF i \in 1..Len(cursor) THEN cursor[i] ELSE 0
        BY <1>2, CursorCutIs
      <4>3. i \in 1..Len(cursor) => i \in 1..Len(chains)
        <5>1. Len(cursor) \in Nat /\ Len(cursor) <= Len(chains)
          BY <1>2 DEF SeqInv
        <5> QED BY <1>5, <5>1
      <4> QED BY <4>1, <4>2, <4>3
    <3>4. Cut(chains', CursorCut')
      BY <1>2, <1>3, <1>4, <2>1, <2>3, <3>1, <3>3, CutGrows
    <3> QED BY <1>1, <3>4, CutStays DEF Cut, InFile
  <2> QED BY <2>2, <2>3
<1>8. PromiseInv'
  <2>1. call.headers \subseteq Known(chains) \cup ToSet(todo)
    BY <1>1 DEF StoreInv, PromiseInv
  <2>2. call.headers \subseteq Known(chains') \cup ToSet(todo')
    BY <1>1, <1>3, <1>4, <2>1
  <2> QED BY <1>1, <2>2 DEF StoreInv, PromiseInv, InFile
<1>9. CutInv' /\ FileReloads' /\ LoadInv'
  BY <1>1, <1>7 DEF StoreInv, CutInv, FileReloads, LoadInv
<1>10. StoreInv'
  BY <1>4, <1>6, <1>8, <1>9 DEF StoreInv
<1> QED BY <1>3, <1>4, <1>10 DEF h

(* A call that fails leaves what it has connected.                          *)
LEMMA FailureKeeps == StoreInv /\ (HeaderMissing \/ HeaderInvalid) => StoreInv'
<1> SUFFICES ASSUME StoreInv, HeaderMissing \/ HeaderInvalid PROVE StoreInv'
  OBVIOUS
<1>1. /\ pc = "connect" /\ pc' = "ready" /\ todo' = <<>>
      /\ chains' = chains /\ cursor' = cursor /\ written' = written
      /\ file' = file /\ torn' = torn /\ call' = call /\ promised' = promised
  BY DEF HeaderMissing, HeaderInvalid
<1>2. GoodChains(chains)' /\ SeqInv' /\ FileReloads' /\ LoadInv'
  BY <1>1 DEF StoreInv, SeqInv, FileReloads, LoadInv
<1>3. CutInv'
  BY <1>1 DEF StoreInv, CutInv, Cut, CursorCut, InFile
<1>4. PromiseInv'
  BY <1>1 DEF StoreInv, PromiseInv, InFile
<1> QED BY <1>2, <1>3, <1>4 DEF StoreInv

(* The write begins at the cursor.                                          *)
LEMMA BeginWriteKeeps == StoreInv /\ BeginWrite => StoreInv'
<1> SUFFICES ASSUME StoreInv, BeginWrite PROVE StoreInv'
  OBVIOUS
<1>1. /\ pc = "connect" /\ pc' = "write" /\ todo = <<>> /\ todo' = todo
      /\ chains' = chains /\ cursor' = cursor /\ written' = CursorCut
      /\ file' = file /\ torn' = torn /\ call' = call /\ promised' = promised
  BY DEF BeginWrite, CursorCut
<1>2. /\ IsChains(chains) /\ Len(chains) \in Nat /\ DOMAIN chains = 1..Len(chains)
      /\ Cut(chains, CursorCut)
      /\ \A i \in 1..Len(chains) : Len(chains[i]) \in Nat
  BY <1>1, ChainsType DEF StoreInv, CutInv, GoodChains
<1>3. \A i \in 1..Len(chains) : CursorCut[i] \in Nat /\ CursorCut[i] <= Len(chains[i])
  <2>1. \A i \in 1..Len(chains) : CursorCut[i] \in 0..Len(chains[i])
    BY <1>2 DEF Cut
  <2> QED BY <1>2, <2>1
<1>4. written' \in Seq(Nat) /\ Len(written') = Len(chains)
  <2>1. CursorCut \in [1..Len(chains) -> Nat]
    BY <1>2, <1>3 DEF CursorCut
  <2>2. ASSUME NEW n \in Nat, NEW S, NEW f \in [1..n -> S]
        PROVE  f \in Seq(S) /\ Len(f) = n
    OBVIOUS
  <2> QED BY <1>1, <1>2, <2>1, <2>2
<1>5. SeqInv'
  <2>1. \A x \in Nat : x <= x
    OBVIOUS
  <2> QED BY <1>1, <1>2, <1>3, <1>4, <2>1 DEF StoreInv, SeqInv
<1>6. CutInv'
  BY <1>1, <1>2, <1>4 DEF CutInv, Cut, InFile
<1>7. PromiseInv'
  <2>1. ToSet(todo) = {}
    BY <1>1 DEF ToSet
  <2> QED BY <1>1, <2>1 DEF StoreInv, PromiseInv, InFile
<1>8. GoodChains(chains)' /\ FileReloads' /\ LoadInv'
  BY <1>1 DEF StoreInv, FileReloads, LoadInv
<1> QED BY <1>5, <1>6, <1>7, <1>8 DEF StoreInv

(* The header that WriteHeader writes is not in the file, and its parent is. *)
NextChain  == Min(Unwritten)
NextPlace  == written[NextChain] + 1
NextHeader == chains[NextChain][NextPlace]

(* The next header to write: all earlier chains are written, so that its    *)
(* parent, in its own chain or below the tip of an earlier one, is in the   *)
(* file.                                                                    *)
LEMMA NextToWrite ==
    ASSUME StoreInv, WriteHeader
    PROVE  /\ NextChain \in 1..Len(chains) /\ NextPlace \in 1..Len(chains[NextChain])
           /\ NextPlace \in Nat \ {0} /\ written[NextChain] = NextPlace - 1
           /\ \A j \in 1..NextChain-1 : j \in 1..Len(chains) /\ written[j] = Len(chains[j])
           /\ \A a \in 1..Len(chains) : written[a] \in Nat /\ written[a] <= Len(chains[a])
           /\ \A a \in 1..Len(chains) : \A b \in 1..Len(chains[a]) :
                 InFile(chains[a][b]) <=> b <= written[a]
           /\ NextHeader \in Headers \ {Genesis} /\ NextHeader \in Known(chains)
           /\ ~InFile(NextHeader) /\ InFile(Parent[NextHeader])
<1> DEFINE i == NextChain
           n == NextPlace
           h == NextHeader
<1>1. /\ pc = "write" /\ Unwritten # {} /\ pc' = pc /\ file' = Append(file, h)
      /\ written' = [written EXCEPT ![i] = n]
      /\ chains' = chains /\ cursor' = cursor /\ torn' = torn /\ todo' = todo
      /\ call' = call /\ promised' = promised
  BY DEF WriteHeader, NextChain, NextPlace, NextHeader
<1>2. /\ GoodChains(chains) /\ IsChains(chains) /\ SeqInv /\ FileReloads
      /\ file \in Seq(Headers \ {Genesis}) /\ Len(file) \in Nat
      /\ written \in Seq(Nat) /\ Len(written) = Len(chains) /\ Cut(chains, written)
      /\ DOMAIN written = 1..Len(written) /\ DOMAIN file = 1..Len(file)
  BY <1>1 DEF StoreInv, SeqInv, GoodChains, CutInv
<1>3. /\ Len(chains) \in Nat \ {0} /\ DOMAIN chains = 1..Len(chains)
      /\ \A a \in 1..Len(chains) : Len(chains[a]) \in Nat \ {0}
      /\ \A a \in 1..Len(chains) : \A b \in 1..Len(chains[a]) : chains[a][b] \in Headers
      /\ chains[1][1] = Genesis
  BY <1>2, ChainsType
<1>4. /\ \A a \in 1..Len(chains) : written[a] \in Nat /\ written[a] <= Len(chains[a])
      /\ \A a \in 1..Len(chains) : \A b \in 1..Len(chains[a]) :
            InFile(chains[a][b]) <=> b <= written[a]
      /\ ToSet(file) \subseteq Known(chains)
  <2>1. \A a \in 1..Len(chains) : written[a] \in 0..Len(chains[a])
    BY <1>2 DEF Cut
  <2>2. \A a \in 1..Len(chains) : written[a] \in Nat /\ written[a] <= Len(chains[a])
    BY <1>3, <2>1
  <2> QED BY <1>2, <2>2 DEF Cut
<1>5. i \in Unwritten /\ \A j \in Unwritten : i <= j
  <2>1. Unwritten \in SUBSET Nat
    BY <1>3 DEF Unwritten
  <2> QED BY <1>1, <2>1, MinNatural DEF NextChain
<1>n. n = written[i] + 1 /\ h = chains[i][n]
  BY DEF NextPlace, NextHeader
<1>6. /\ i \in 1..Len(chains) /\ written[i] < Len(chains[i])
      /\ \A j \in 1..i-1 : j \in 1..Len(chains) /\ written[j] = Len(chains[j])
  <2>1. i \in 1..Len(chains) /\ written[i] < Len(chains[i])
    BY <1>3, <1>5 DEF Unwritten
  <2>2. ASSUME NEW j \in 1..i-1
        PROVE  j \in 1..Len(chains) /\ written[j] = Len(chains[j])
    <3>1. j \in 1..Len(chains) /\ ~(i <= j)
      BY <1>3, <2>1
    <3>2. ~(written[j] < Len(chains[j]))
      BY <1>3, <1>5, <3>1 DEF Unwritten
    <3>3. written[j] \in Nat /\ Len(chains[j]) \in Nat /\ written[j] <= Len(chains[j])
      BY <1>3, <1>4, <3>1
    <3> QED BY <3>1, <3>2, <3>3
  <2> QED BY <2>1, <2>2
<1>7. n \in 1..Len(chains[i]) /\ n \in Nat \ {0} /\ written[i] = n - 1 /\ ~(n <= written[i])
  <2>1. written[i] \in Nat /\ Len(chains[i]) \in Nat
    BY <1>3, <1>4, <1>6
  <2> QED BY <1>6, <1>n, <2>1
<1> HIDE DEF i, n, h
<1>8. ~InFile(h) /\ h \in Headers /\ h # Genesis /\ h \notin ToSet(file) /\ h \in Known(chains)
  <2>1. ~InFile(h)
    BY <1>4, <1>6, <1>7, <1>n
  <2>2. h \in Headers
    BY <1>3, <1>6, <1>7, <1>n
  <2>3. h \in Known(chains)
    BY <1>2, <1>6, <1>7, <1>n, KnownWhere
  <2> QED BY <2>1, <2>2, <2>3 DEF InFile
<1>9. InFile(Parent[h])
  <2>1. CASE n > 1
    <3>1. Parent[h] = chains[i][n - 1]
      BY <1>2, <1>6, <1>7, <1>n, <2>1 DEF GoodChains, Linked
    <3>2. n - 1 \in 1..Len(chains[i]) /\ n - 1 <= written[i]
      BY <1>3, <1>6, <1>7, <2>1
    <3> QED BY <1>4, <1>6, <3>1, <3>2
  <2>2. CASE n = 1
    <3>1. i > 1
      <4>1. i # 1
        BY <1>3, <1>8, <1>n, <2>2
      <4> QED BY <1>3, <1>6, <4>1
    <3>2. PICK j \in 1..i-1 : \E m \in 1..Len(chains[j])-1 : chains[j][m] = Parent[chains[i][1]]
      BY <1>2, <1>6, <3>1 DEF GoodChains, Linked
    <3>3. PICK m \in 1..Len(chains[j])-1 : chains[j][m] = Parent[chains[i][1]]
      BY <3>2
    <3>4. j \in 1..Len(chains) /\ written[j] = Len(chains[j]) /\ Len(chains[j]) \in Nat
      BY <1>3, <1>6
    <3>5. m \in 1..Len(chains[j]) /\ m <= written[j]
      BY <3>4
    <3>6. InFile(chains[j][m])
      BY <1>4, <3>4, <3>5
    <3> QED BY <1>n, <2>2, <3>3, <3>6
  <2>3. n > 1 \/ n = 1
    BY <1>7
  <2> QED BY <2>1, <2>2, <2>3
<1> QED BY <1>4, <1>6, <1>7, <1>8, <1>9 DEF i, n, h

(* Writing it adds a header whose parent is in the file.                    *)
LEMMA WriteHeaderKeeps ==
    ASSUME StoreInv, WriteHeader
    PROVE  /\ StoreInv'
           /\ \E h \in Headers \ {Genesis} :
                 /\ h \in Known(chains) /\ ~InFile(h) /\ InFile(Parent[h])
                 /\ ToSet(file') = ToSet(file) \cup {h}
<1> DEFINE i == NextChain
           n == NextPlace
           h == NextHeader
<1>1. /\ pc = "write" /\ Unwritten # {} /\ pc' = pc /\ file' = Append(file, h)
      /\ written' = [written EXCEPT ![i] = n]
      /\ chains' = chains /\ cursor' = cursor /\ torn' = torn /\ todo' = todo
      /\ call' = call /\ promised' = promised
  BY DEF WriteHeader, NextChain, NextPlace, NextHeader
<1>2. /\ GoodChains(chains) /\ IsChains(chains) /\ SeqInv /\ FileReloads
      /\ file \in Seq(Headers \ {Genesis}) /\ Len(file) \in Nat
      /\ written \in Seq(Nat) /\ Len(written) = Len(chains) /\ Cut(chains, written)
      /\ DOMAIN written = 1..Len(written) /\ DOMAIN file = 1..Len(file)
  BY <1>1 DEF StoreInv, SeqInv, GoodChains, CutInv
<1>3. /\ Len(chains) \in Nat \ {0} /\ DOMAIN chains = 1..Len(chains)
      /\ \A a \in 1..Len(chains) : Len(chains[a]) \in Nat \ {0}
      /\ \A a \in 1..Len(chains) : \A b \in 1..Len(chains[a]) : chains[a][b] \in Headers
      /\ chains[1][1] = Genesis
  BY <1>2, ChainsType
<1>4. /\ \A a \in 1..Len(chains) : written[a] \in Nat /\ written[a] <= Len(chains[a])
      /\ \A a \in 1..Len(chains) : \A b \in 1..Len(chains[a]) :
            InFile(chains[a][b]) <=> b <= written[a]
      /\ ToSet(file) \subseteq Known(chains)
  BY <1>2, NextToWrite DEF Cut
<1>6. i \in 1..Len(chains)
  BY NextToWrite
<1>7. n \in 1..Len(chains[i]) /\ n \in Nat \ {0} /\ written[i] = n - 1
  BY NextToWrite
<1>n. h = chains[i][n]
  BY DEF NextHeader
<1>8. ~InFile(h) /\ h \in Headers \ {Genesis} /\ h \notin ToSet(file) /\ h \in Known(chains)
  BY NextToWrite DEF InFile
<1>9. InFile(Parent[h])
  BY NextToWrite
<1> HIDE DEF i, n, h
<1>10. /\ file' \in Seq(Headers \ {Genesis}) /\ Len(file') = Len(file) + 1
       /\ \A j \in 1..Len(file) : file'[j] = file[j]
       /\ file'[Len(file) + 1] = h
       /\ ToSet(file') = ToSet(file) \cup {h}
       /\ DOMAIN file' = 1 .. Len(file) + 1
  <2>1. h \in Headers \ {Genesis}
    BY <1>8
  <2>2. /\ file' \in Seq(Headers \ {Genesis}) /\ Len(file') = Len(file) + 1
        /\ \A j \in 1..Len(file) : file'[j] = file[j]
        /\ file'[Len(file) + 1] = h
    BY <1>1, <1>2, <2>1, AppendProperties
  <2>3. ToSet(file') = ToSet(file) \cup {h}
    BY <1>1, <1>2, <2>1, AppendElements
  <2>4. DOMAIN file' = 1..Len(file')
    BY <2>2
  <2> QED BY <2>2, <2>3, <2>4
<1>11. \A x : InFile(x)' <=> InFile(x) \/ x = h
  BY <1>10 DEF InFile
<1>12. FileReloads'
  <2> SUFFICES ASSUME NEW j \in DOMAIN file'
               PROVE  /\ Parent[file'[j]] \in {Genesis} \cup {file'[k] : k \in 1 .. j - 1}
                      /\ file'[j] \notin {file'[k] : k \in 1 .. j - 1}
    BY DEF FileReloads
  <2>1. j \in 1..Len(file) \/ j = Len(file) + 1
    BY <1>2, <1>10
  <2>2. CASE j \in 1..Len(file)
    <3>1. \A k \in 1 .. j - 1 : file'[k] = file[k]
      BY <1>2, <1>10, <2>2
    <3>2. file'[j] = file[j] /\ j \in DOMAIN file
      BY <1>2, <1>10, <2>2
    <3>3. /\ Parent[file[j]] \in {Genesis} \cup {file[k] : k \in 1 .. j - 1}
          /\ file[j] \notin {file[k] : k \in 1 .. j - 1}
      BY <1>2, <3>2 DEF FileReloads
    <3> QED BY <3>1, <3>2, <3>3
  <2>3. CASE j = Len(file) + 1
    <3>1. \A k : k \in 1 .. j - 1 <=> k \in 1..Len(file)
      BY <1>2, <2>3
    <3>2. \A x : x \in ToSet(file) <=> \E k \in 1 .. j - 1 : file'[k] = x
      <4>1. \A x : x \in ToSet(file) <=> \E k \in 1..Len(file) : file[k] = x
        BY <1>2, ToSetIn
      <4> QED BY <1>10, <3>1, <4>1
    <3> QED BY <1>8, <1>9, <1>10, <2>3, <3>2 DEF InFile
  <2> QED BY <2>1, <2>2, <2>3
<1>13. /\ written' \in Seq(Nat) /\ Len(written') = Len(written)
       /\ \A a \in 1..Len(chains) : written'[a] = IF a = i THEN n ELSE written[a]
  <2>1. n \in Nat
    BY <1>7
  <2> QED BY <1>1, <1>2, <1>6, <2>1, ExceptSeq
<1>14. \A a \in 1..Len(chains) : written'[a] \in 0..Len(chains[a])
  <2> SUFFICES ASSUME NEW a \in 1..Len(chains) PROVE written'[a] \in 0..Len(chains[a])
    OBVIOUS
  <2>1. written[a] \in Nat /\ written[a] <= Len(chains[a]) /\ Len(chains[a]) \in Nat
    BY <1>3, <1>4
  <2>2. a = i => n \in Nat /\ n <= Len(chains[a])
    BY <1>7, <2>1
  <2> QED BY <1>13, <2>1, <2>2
<1>15. ASSUME NEW a \in 1..Len(chains), NEW b \in 1..Len(chains[a])
       PROVE  (InFile(chains[a][b]) \/ chains[a][b] = h) <=> b <= written'[a]
  <2>1. InFile(chains[a][b]) <=> b <= written[a]
    BY <1>4
  <2>2. chains[a][b] = h <=> a = i /\ b = n
    <3>1. chains[a][b] = chains[i][n] => a = i /\ b = n
      BY <1>2, <1>6, <1>7 DEF GoodChains, Distinct
    <3> QED BY <1>n, <3>1
  <2>3. a = i => (b <= n <=> b <= written[a] \/ b = n)
    BY <1>3, <1>4, <1>7
  <2> QED BY <1>13, <2>1, <2>2, <2>3
<1>16. Cut(chains, written)'
  <2>1. ToSet(file') \subseteq Known(chains)
    BY <1>4, <1>8, <1>10
  <2> QED BY <1>1, <1>11, <1>14, <1>15, <2>1 DEF Cut
<1>17. SeqInv'
  <2>1. \A a \in 1..Len(written') : written'[a] <= Len(chains[a])
    BY <1>2, <1>3, <1>13, <1>14
  <2>2. Len(written') <= Len(chains)
    BY <1>2, <1>3, <1>13
  <2> QED BY <1>1, <1>2, <1>10, <1>13, <2>1, <2>2 DEF SeqInv
<1>18. PromiseInv'
  BY <1>1, <1>11 DEF StoreInv, PromiseInv
<1>19. GoodChains(chains)' /\ LoadInv' /\ CutInv'
  BY <1>1, <1>2, <1>13, <1>16 DEF LoadInv, CutInv
<1>20. StoreInv'
  BY <1>12, <1>17, <1>18, <1>19 DEF StoreInv
<1> QED BY <1>8, <1>9, <1>10, <1>20

(* When nothing is left to write all that is known is in the file.          *)
LEMMA AllWritten ==
    ASSUME StoreInv, pc = "write", Unwritten = {}
    PROVE  \A h : h \in Known(chains) <=> InFile(h)
<1>1. /\ IsChains(chains) /\ Cut(chains, written) /\ DOMAIN chains = 1..Len(chains)
      /\ Len(chains) \in Nat /\ chains[1][1] = Genesis /\ 1 \in 1..Len(chains)
      /\ \A i \in 1..Len(chains) : Len(chains[i]) \in Nat /\ 1 \in 1..Len(chains[i])
  <2>1. IsChains(chains) /\ Cut(chains, written)
    BY DEF StoreInv, CutInv, GoodChains
  <2>2. \A x \in Nat \ {0} : 1 \in 1..x
    OBVIOUS
  <2> QED BY <2>1, <2>2, ChainsType
<1>2. ASSUME NEW i \in 1..Len(chains) PROVE written[i] = Len(chains[i])
  <2>1. written[i] \in 0..Len(chains[i]) /\ ~(written[i] < Len(chains[i]))
    BY <1>1 DEF Cut, Unwritten
  <2> QED BY <1>1, <2>1
<1>3. ASSUME NEW h, h \in Known(chains) PROVE InFile(h)
  <2>1. PICK i \in 1..Len(chains) : \E n \in 1..Len(chains[i]) : chains[i][n] = h
    BY <1>1, <1>3, KnownWhere
  <2>2. PICK n \in 1..Len(chains[i]) : chains[i][n] = h
    BY <2>1
  <2>3. n <= written[i]
    BY <1>1, <1>2
  <2>4. InFile(chains[i][n]) <=> n <= written[i]
    BY <1>1 DEF Cut
  <2> QED BY <2>2, <2>3, <2>4
<1>4. ASSUME NEW h, InFile(h) PROVE h \in Known(chains)
  <2>1. CASE h = Genesis
    BY <1>1, <2>1, KnownWhere
  <2>2. CASE h \in ToSet(file)
    BY <1>1, <2>2 DEF Cut
  <2> QED BY <1>4, <2>1, <2>2 DEF InFile
<1> QED BY <1>3, <1>4

(* Everything is written: the new cursor covers everything.                 *)
LEMMA ReturnKeeps == StoreInv /\ Return => StoreInv'
<1> SUFFICES ASSUME StoreInv, Return PROVE StoreInv'
  OBVIOUS
<1>1. /\ pc = "write" /\ Unwritten = {} /\ pc' = "ready" /\ cursor' = CursorOf(chains)
      /\ promised' = promised \cup call.headers
      /\ chains' = chains /\ written' = written /\ file' = file /\ torn' = torn
      /\ todo' = todo /\ call' = call
  BY DEF Return
<1>2. GoodChains(chains) /\ IsChains(chains) /\ SeqInv /\ Len(chains) \in Nat
  BY ChainsType DEF StoreInv, GoodChains
<1>3. \A h : h \in Known(chains) <=> InFile(h)
  BY <1>1, AllWritten
<1>4. SeqInv'
  <2>1. CursorOf(chains) \in Seq(Nat) /\ Len(CursorOf(chains)) = Len(chains)
    BY <1>2, CursorOfType
  <2>2. \A x \in Nat : x <= x
    OBVIOUS
  <2> QED BY <1>1, <1>2, <2>1, <2>2 DEF SeqInv
<1>5. CutInv'
  <2>1. Cut(chains, CursorOf(chains))
    BY <1>2, <1>3, CutFull
  <2>2. (SeqInv /\ IsChains(chains) =>
            \A i \in 1..Len(chains) :
               CursorCut[i] = IF i \in 1..Len(cursor) THEN cursor[i] ELSE 0)'
    BY CursorCutIs, PTL
  <2>3. Len(CursorOf(chains)) = Len(chains)
    BY <1>2, CursorOfType
  <2>4. \A i \in 1..Len(chains) : CursorCut'[i] = CursorOf(chains)[i]
    BY <1>1, <1>2, <1>4, <2>2, <2>3
  <2>5. Cut(chains, CursorCut)'
    BY <1>1, <2>1, <2>4 DEF Cut, InFile
  <2> QED BY <1>1, <2>5 DEF CutInv
<1>6. PromiseInv'
  <2>1. (\A h \in promised : InFile(h)) /\ call.headers \subseteq Known(chains)
    BY <1>1 DEF StoreInv, PromiseInv
  <2> QED BY <1>1, <1>3, <2>1 DEF PromiseInv, InFile
<1>7. GoodChains(chains)' /\ FileReloads' /\ LoadInv'
  BY <1>1, <1>2 DEF StoreInv, FileReloads, LoadInv
<1> QED BY <1>4, <1>5, <1>6, <1>7 DEF StoreInv

(* A crash leaves the file.                                                 *)
LEMMA CrashKeeps == StoreInv /\ Crash => StoreInv'
<1> SUFFICES ASSUME StoreInv, Crash PROVE StoreInv'
  OBVIOUS
<1>1. /\ pc' = "down" /\ chains' = NoChains /\ cursor' = <<>> /\ written' = <<>>
      /\ todo' = <<>> /\ file' = file /\ torn' \in BOOLEAN /\ promised' = promised
  BY DEF Crash
<1>2. GoodChains(chains') /\ Len(chains') = 1
  BY <1>1, NoChainsGood
<1>3. SeqInv'
  <2>1. /\ Len(<<>>) = 0 /\ <<>> \in Seq(Nat) /\ <<>> \in Seq(Headers \ {Genesis})
        /\ 1..0 = {} /\ 0 <= 1
    OBVIOUS
  <2>2. file \in Seq(Headers \ {Genesis})
    BY DEF StoreInv, SeqInv
  <2> QED BY <1>1, <1>2, <2>1, <2>2 DEF SeqInv
<1>4. FileReloads' /\ LoadInv' /\ CutInv' /\ PromiseInv'
  BY <1>1 DEF StoreInv, FileReloads, LoadInv, CutInv, PromiseInv, InFile
<1> QED BY <1>2, <1>3, <1>4 DEF StoreInv

-----------------------------------------------------------------------------
(* The theorems.                                                            *)

(* At first the file is empty.                                              *)
LEMMA StoreInit == Init => StoreInv
<1> SUFFICES ASSUME Init PROVE StoreInv
  OBVIOUS
<1>1. /\ pc = "down" /\ chains = NoChains /\ cursor = <<>> /\ written = <<>>
      /\ file = <<>> /\ torn = FALSE /\ todo = <<>> /\ promised = {}
  BY DEF Init
<1>2. /\ Len(<<>>) = 0 /\ <<>> \in Seq(Nat) /\ <<>> \in Seq(Headers \ {Genesis})
      /\ 1..0 = {} /\ 0 <= 1 /\ DOMAIN <<>> = {}
  OBVIOUS
<1>3. SeqInv
  BY <1>1, <1>2, NoChainsGood DEF SeqInv
<1>4. FileReloads /\ LoadInv /\ CutInv /\ PromiseInv
  BY <1>1, <1>2 DEF FileReloads, LoadInv, CutInv, PromiseInv
<1> QED BY <1>1, <1>3, <1>4, NoChainsGood DEF StoreInv

(* The invariant is inductive,                                              *)
LEMMA StoreStep == StoreInv /\ [Next]_vars => StoreInv'
<1> SUFFICES ASSUME StoreInv, [Next]_vars PROVE StoreInv'
  OBVIOUS
<1>1. ASSUME NEW b \in Batches, NEW safe \in Uses, Call(b, safe) PROVE StoreInv'
  BY <1>1, CallKeeps
<1>2. CASE UNCHANGED vars
  <2>1. /\ pc' = pc /\ chains' = chains /\ cursor' = cursor /\ written' = written
        /\ file' = file /\ torn' = torn /\ todo' = todo /\ call' = call
        /\ promised' = promised
    BY <1>2 DEF vars
  <2>2. GoodChains(chains)' /\ SeqInv'
    BY <2>1 DEF StoreInv, SeqInv
  <2>3. FileReloads' /\ LoadInv'
    BY <2>1 DEF StoreInv, FileReloads, LoadInv
  <2>4. CutInv' /\ PromiseInv'
    BY <2>1 DEF StoreInv, CutInv, Cut, CursorCut, PromiseInv, InFile
  <2> QED BY <2>2, <2>3, <2>4 DEF StoreInv
<1> QED BY <1>1, <1>2, OpenKeeps, LoadKeeps, LoadedKeeps, ConnectHeaderKeeps, FailureKeeps,
        BeginWriteKeeps, WriteHeaderKeeps, ReturnKeeps, CrashKeeps DEF Next

(* and holds for ever.                                                      *)
LEMMA StoreKept == Spec => []StoreInv
BY StoreInit, StoreStep, PTL DEF Spec

-----------------------------------------------------------------------------
(* The refinement.  What the program knows, or would after a start:         *)
Lookup == IF pc \in {"connect", "write", "ready"} THEN Known(chains)
          ELSE {Genesis} \cup ToSet(file)

(* The initial states of the store are ones of the log.                     *)
LEMMA LogInitial == Init => HeaderLogOf!LogInit
BY DEF Init, HeaderLogOf!LogInit, ToSet

(* When the file has been read, the log knows what it knew from the file.   *)
LEMMA LogLoaded == StoreInv /\ Loaded => Lookup' = Lookup
<1> SUFFICES ASSUME StoreInv, Loaded PROVE Lookup' = Lookup
  OBVIOUS
<1>1. pc = "load" /\ todo = <<>> /\ pc' \in {"broken", "ready"}
      /\ chains' = chains /\ file' = file
  BY DEF Loaded
<1>2. \A h : h \in Known(chains) <=> InFile(h)
  <2>1. Len(todo) = 0 /\ Len(file) \in Nat /\ file \in Seq(Headers \ {Genesis})
    BY <1>1 DEF StoreInv, SeqInv
  <2>2. Len(file) - Len(todo) = Len(file)
    BY <2>1
  <2>3. \A h : h \in ToSet(file) <=> \E j \in 1..Len(file) : file[j] = h
    BY <2>1, ToSetIn
  <2> QED BY <1>1, <2>2, <2>3 DEF StoreInv, LoadInv, InFile
<1>3. Known(chains) = {Genesis} \cup ToSet(file)
  BY <1>2 DEF InFile
<1> QED BY <1>1, <1>3 DEF Lookup

(* Every step of the store is a step of the log, or none.                   *)
LEMMA LogStep == StoreInv /\ [Next]_vars => [HeaderLogOf!LogNext]_(HeaderLogOf!logvars)
<1> SUFFICES ASSUME StoreInv, [Next]_vars
             PROVE  HeaderLogOf!LogNext \/ UNCHANGED <<Lookup, file, promised>>
  BY DEF HeaderLogOf!logvars, Lookup
<1>1. CASE Open
  BY <1>1 DEF Open, Lookup
<1>2. CASE Load
  <2>1. pc = "load" /\ pc' = "load" /\ file' = file /\ promised' = promised
    BY <1>2, LoadKeeps DEF Load
  <2> QED BY <2>1 DEF Lookup
<1>3. CASE Loaded
  BY <1>3, LogLoaded DEF Loaded
<1>4. ASSUME NEW b \in Batches, NEW safe \in Uses, Call(b, safe)
      PROVE  UNCHANGED <<Lookup, file, promised>>
  BY <1>4 DEF Call, Lookup
<1>5. CASE ConnectHeader
  <2>1. /\ pc = "connect" /\ pc' = pc /\ file' = file /\ promised' = promised
        /\ Parent[Head(todo)] \in Known(chains)
    BY <1>5 DEF ConnectHeader
  <2>2. /\ Head(todo) \in Headers \ {Genesis}
        /\ \A x : x \in Known(chains') <=> x \in Known(chains) \/ x = Head(todo)
    BY <1>5, ConnectHeaderKeeps
  <2>3. Known(chains') = Known(chains) \cup {Head(todo)}
    BY <2>2
  <2>4. HeaderLogOf!Learn(Head(todo))
    BY <2>1, <2>3 DEF HeaderLogOf!Learn
  <2> QED BY <2>2, <2>4 DEF HeaderLogOf!LogNext
<1>6. CASE HeaderMissing \/ HeaderInvalid
  BY <1>6 DEF HeaderMissing, HeaderInvalid, Lookup
<1>7. CASE BeginWrite
  BY <1>7 DEF BeginWrite, Lookup
<1>8. CASE WriteHeader
  <2>1. PICK h \in Headers \ {Genesis} :
           /\ h \in Known(chains) /\ ~InFile(h) /\ InFile(Parent[h])
           /\ ToSet(file') = ToSet(file) \cup {h}
    BY <1>8, WriteHeaderKeeps
  <2>2. pc = "write" /\ pc' = pc /\ chains' = chains /\ promised' = promised
    BY <1>8 DEF WriteHeader
  <2>3. HeaderLogOf!Save(h)
    BY <2>1, <2>2 DEF HeaderLogOf!Save, InFile
  <2> QED BY <2>3 DEF HeaderLogOf!LogNext
<1>9. CASE Return
  <2>1. /\ pc = "write" /\ Unwritten = {} /\ pc' = "ready" /\ chains' = chains
        /\ file' = file /\ promised' = promised \cup call.headers
    BY <1>9 DEF Return
  <2>2. \A h : h \in Known(chains) <=> InFile(h)
    BY <2>1, AllWritten
  <2>3. call.headers \subseteq Known(chains)
    BY <2>1 DEF StoreInv, PromiseInv
  <2>4. Known(chains) \subseteq Headers
    <3>1. /\ IsChains(chains)
          /\ \A i \in 1..Len(chains) : \A n \in 1..Len(chains[i]) : chains[i][n] \in Headers
      BY ChainsType DEF StoreInv, GoodChains
    <3>2. \A h : h \in Known(chains) <=>
                 \E i \in 1..Len(chains) : \E n \in 1..Len(chains[i]) : chains[i][n] = h
      BY <3>1, KnownWhere
    <3> QED BY <3>1, <3>2
  <2>5. HeaderLogOf!Acknowledge(call.headers)
    BY <2>1, <2>2, <2>3 DEF HeaderLogOf!Acknowledge, InFile
  <2> QED BY <2>3, <2>4, <2>5 DEF HeaderLogOf!LogNext
<1>10. CASE Crash
  <2>1. pc' = "down" /\ file' = file /\ promised' = promised
    BY <1>10 DEF Crash
  <2>2. HeaderLogOf!Restart
    BY <2>1 DEF HeaderLogOf!Restart
  <2> QED BY <2>2 DEF HeaderLogOf!LogNext
<1>11. CASE UNCHANGED vars
  BY <1>11 DEF vars, Lookup
<1> QED BY <1>1, <1>2, <1>3, <1>4, <1>5, <1>6, <1>7, <1>8, <1>9, <1>10, <1>11 DEF Next

(* The store keeps what HeaderLog promises, over any number of calls,       *)
(* failures and crashes.                                                    *)
THEOREM StoreIsLog == Spec => ImplementsHeaderLog
BY StoreKept, LogInitial, LogStep, PTL DEF Spec, ImplementsHeaderLog, HeaderLogOf!LogSpec

(* What every program that keeps HeaderLog has.                             *)
LEMMA LogSafeStep ==
    HeaderLogOf!LogSafe /\ [HeaderLogOf!LogNext]_(HeaderLogOf!logvars) => HeaderLogOf!LogSafe'
<1> DEFINE known == IF pc \in {"connect", "write", "ready"} THEN Known(chains)
                    ELSE {Genesis} \cup ToSet(file)
           saved == {Genesis} \cup ToSet(file)
           acked == promised
<1> SUFFICES ASSUME HeaderLogOf!LogSafe, [HeaderLogOf!LogNext]_(HeaderLogOf!logvars)
             PROVE  HeaderLogOf!LogSafe'
  OBVIOUS
<1>1. /\ acked \subseteq saved /\ saved \subseteq known /\ known \subseteq Headers
      /\ Genesis \in saved /\ \A h \in saved \ {Genesis} : Parent[h] \in saved
      /\ Genesis \in known /\ \A h \in known \ {Genesis} : Parent[h] \in known
  BY DEF HeaderLogOf!LogSafe, HeaderLogOf!Closed
<1>2. \/ \E h \in Headers \ {Genesis} :
            /\ Parent[h] \in known /\ known' = known \cup {h}
            /\ saved' = saved /\ acked' = acked
      \/ \E h \in Headers \ {Genesis} :
            /\ h \in known /\ Parent[h] \in saved /\ saved' = saved \cup {h}
            /\ known' = known /\ acked' = acked
      \/ \E S \in SUBSET Headers :
            /\ S \subseteq saved /\ acked' = acked \cup S
            /\ known' = known /\ saved' = saved
      \/ known' = saved /\ saved' = saved /\ acked' = acked
      \/ known' = known /\ saved' = saved /\ acked' = acked
  BY DEF HeaderLogOf!LogNext, HeaderLogOf!Learn, HeaderLogOf!Save, HeaderLogOf!Acknowledge,
         HeaderLogOf!Restart, HeaderLogOf!logvars
<1>3. /\ acked' \subseteq saved' /\ saved' \subseteq known' /\ known' \subseteq Headers
      /\ Genesis \in saved' /\ \A h \in saved' \ {Genesis} : Parent[h] \in saved'
      /\ Genesis \in known' /\ \A h \in known' \ {Genesis} : Parent[h] \in known'
  <2> HIDE DEF known, saved, acked
  <2> QED BY <1>1, <1>2
<1> QED BY <1>3 DEF HeaderLogOf!LogSafe, HeaderLogOf!Closed

(* So nothing that connect_headers() has acknowledged is lost over any      *)
(* number of crashes, and no ancestor of a header that is known or in the   *)
(* file is ever missing.                                                    *)
THEOREM AcknowledgedKept == Spec => []HeaderLogOf!LogSafe
<1>1. Init => HeaderLogOf!LogSafe
  <2>1. Init => HeaderLogOf!LogInit
    BY LogInitial
  <2> QED BY <2>1, TreeAssumption
          DEF HeaderLogOf!LogInit, HeaderLogOf!LogSafe, HeaderLogOf!Closed
<1> QED BY <1>1, StoreKept, LogStep, LogSafeStep, PTL DEF Spec

-----------------------------------------------------------------------------
(* What a start makes of the file: the chains, cut.                         *)
Reloaded == Reading(NoChains, file, Len(file))

(* rs is what w cuts off the chains cs; the chains of which it has nothing   *)
(* come last.                                                               *)
IsCut(cs, rs, w) ==
    /\ Len(rs) <= Len(cs)
    /\ \A i \in 1..Len(rs) : /\ w[i] = Len(rs[i])
                             /\ \A n \in 1..Len(rs[i]) : rs[i][n] = cs[i][n]
    /\ \A i \in 1..Len(cs) : i > Len(rs) => w[i] = 0

ReloadInv ==
    /\ GoodChains(Reloaded) /\ \A h : h \in Known(Reloaded) <=> InFile(h)
    /\ pc = "load" => chains = Reading(NoChains, file, Len(file) - Len(todo))
    /\ pc \in {"ready", "connect"} =>
           Len(cursor) = Len(Reloaded) /\ IsCut(chains, Reloaded, CursorCut)
    /\ pc = "write" => IsCut(chains, Reloaded, written)

(* At first both are the genesis block.                                     *)
LEMMA ReloadInit == Init => ReloadInv
<1> SUFFICES ASSUME Init PROVE ReloadInv
  OBVIOUS
<1>1. pc = "down" /\ file = <<>>
  BY DEF Init
<1>2. Len(file) = 0 /\ ToSet(file) = {} /\ 0 \in Nat
  BY <1>1 DEF ToSet
<1>3. Reloaded = NoChains
  BY <1>2, ReadingIs DEF Reloaded
<1> QED BY <1>1, <1>2, <1>3, NoChainsGood DEF ReloadInv, InFile

(* Reading the file from its start makes the chains that reading makes of   *)
(* it.                                                                      *)
LEMMA ReloadLoads ==
    ASSUME StoreInv, ReloadInv, Open \/ Load \/ Loaded, StoreInv'
    PROVE  ReloadInv'
<1>1. /\ file' = file /\ file \in Seq(Headers \ {Genesis}) /\ Len(file) \in Nat
      /\ todo \in Seq(Headers \ {Genesis}) /\ Len(todo) \in Nat /\ DOMAIN file = 1..Len(file)
  BY DEF Open, Load, Loaded, StoreInv, SeqInv
<1>2. Reloaded' = Reloaded /\ \A h : InFile(h)' <=> InFile(h)
  BY <1>1 DEF Reloaded, InFile
<1>3. CASE Open
  <2>1. pc' = "load" /\ chains' = NoChains /\ todo' = file
    BY <1>3 DEF Open
  <2>2. Len(file) - Len(file) = 0
    BY <1>1
  <2>3. NoChains = Reading(NoChains, file, 0)
    <3>1. 0 \in Nat
      OBVIOUS
    <3> QED BY <3>1, ReadingIs
  <2>4. chains' = Reading(NoChains, file', Len(file') - Len(todo'))
    BY <1>1, <2>1, <2>2, <2>3
  <2> QED BY <1>2, <2>1, <2>4 DEF ReloadInv
<1>4. CASE Load
  <2>1. /\ pc = "load" /\ todo # <<>>
        /\ chains = Reading(NoChains, file, Len(file) - Len(todo)) /\ Len(todo) <= Len(file)
    BY <1>4 DEF Load, ReloadInv, StoreInv, LoadInv
  <2>2. pc' = "load"
    BY <1>4, LoadKeeps
  <2>3. chains' = Connect(chains, Head(todo)) /\ todo' = Tail(todo)
    BY <1>4, <2>2 DEF Load
  <2>4. Len(Tail(todo)) = Len(todo) - 1 /\ Len(todo) # 0 /\ Head(todo) = todo[1]
    BY <1>1, <2>1, HeadTailElements
  <2> DEFINE n == Len(file) - Len(todo)
  <2>5. n \in Nat /\ Len(file) - Len(Tail(todo)) = n + 1
    BY <1>1, <2>1, <2>4
  <2>6. todo[1] = file[n + 1]
    <3>1. 1 \in 1..Len(todo)
      BY <1>1, <2>4
    <3> QED BY <2>1, <3>1 DEF StoreInv, LoadInv
  <2> HIDE DEF n
  <2>7. chains' = Reading(NoChains, file, n + 1)
    <3>1. chains = Reading(NoChains, file, n)
      BY <2>1 DEF n
    <3>2. Reading(NoChains, file, n + 1) = Connect(Reading(NoChains, file, n), file[n + 1])
      BY <2>5, ReadingIs
    <3> QED BY <2>3, <2>4, <2>6, <3>1, <3>2
  <2>8. chains' = Reading(NoChains, file', Len(file') - Len(todo'))
    BY <1>1, <2>3, <2>5, <2>7
  <2> QED BY <1>2, <2>2, <2>8 DEF ReloadInv
<1>5. CASE Loaded
  <2>1. /\ pc = "load" /\ todo = <<>> /\ pc' \in {"broken", "ready"}
        /\ chains' = chains /\ cursor' = CursorOf(chains)
        /\ chains = Reading(NoChains, file, Len(file) - Len(todo))
    BY <1>5 DEF Loaded, ReloadInv
  <2>2. chains = Reloaded
    <3>1. Len(todo) = 0 /\ Len(file) - 0 = Len(file)
      BY <1>1, <2>1
    <3> QED BY <2>1, <3>1 DEF Reloaded
  <2>3. IsChains(chains) /\ Len(chains) \in Nat
    BY ChainsType DEF StoreInv, GoodChains
  <2>4. /\ Len(CursorOf(chains)) = Len(chains)
        /\ \A i \in 1..Len(chains) : CursorOf(chains)[i] = Len(chains[i])
    BY <2>3, CursorOfType
  <2>5. \A i \in 1..Len(chains) : CursorCut'[i] = CursorOf(chains)[i]
    <3>1. (SeqInv /\ IsChains(chains) =>
              \A i \in 1..Len(chains) :
                 CursorCut[i] = IF i \in 1..Len(cursor) THEN cursor[i] ELSE 0)'
      BY CursorCutIs, PTL
    <3>2. SeqInv' /\ IsChains(chains')
      BY <2>1, <2>3 DEF StoreInv
    <3> QED BY <2>1, <2>4, <3>1, <3>2
  <2>6. IsCut(chains, chains, CursorCut')
    <3>1. Len(chains) <= Len(chains) /\ \A i \in 1..Len(chains) : ~(i > Len(chains))
      BY <2>3
    <3> QED BY <2>4, <2>5, <3>1 DEF IsCut
  <2> QED BY <1>2, <2>1, <2>2, <2>4, <2>6 DEF ReloadInv
<1> QED BY <1>3, <1>4, <1>5

(* Connecting headers leaves what there is before the cuts.                 *)
LEMMA ReloadConnects ==
    ASSUME StoreInv, ReloadInv, ConnectHeader, StoreInv'
    PROVE  ReloadInv'
<1>1. /\ pc = "connect" /\ pc' = pc /\ file' = file /\ cursor' = cursor
      /\ chains' = Connect(chains, Head(todo)) /\ Parent[Head(todo)] \in Known(chains)
  BY DEF ConnectHeader
<1>2. /\ GoodChains(chains) /\ IsChains(chains) /\ SeqInv
      /\ GoodChains(chains') /\ IsChains(chains') /\ SeqInv'
      /\ Head(todo) \in Headers \ {Genesis}
  BY ConnectHeaderKeeps DEF StoreInv, GoodChains
<1>3. Reloaded' = Reloaded /\ \A h : InFile(h)' <=> InFile(h)
  BY <1>1 DEF Reloaded, InFile
<1> DEFINE rs == Reloaded
<1>4. Len(cursor) = Len(rs) /\ IsCut(chains, rs, CursorCut) /\ GoodChains(rs)
  BY <1>1 DEF ReloadInv
<1>5. /\ Len(rs) \in Nat /\ \A i \in 1..Len(rs) : Len(rs[i]) \in Nat
      /\ Len(chains) \in Nat /\ \A i \in 1..Len(chains) : Len(chains[i]) \in Nat
      /\ Len(chains') \in Nat
  BY <1>2, <1>4, ChainsType DEF GoodChains
<1> HIDE DEF rs
<1>6. IsCut(chains', rs, CursorCut')
  <2>1. CASE Head(todo) \in Known(chains)
    <3>1. chains' = chains
      BY <1>1, <1>2, <2>1, ConnectAdds
    <3>2. CursorCut' = CursorCut
      BY <1>1, <3>1 DEF CursorCut
    <3> QED BY <1>4, <3>1, <3>2
  <2>2. CASE Head(todo) \notin Known(chains)
    <3>1. PICK k \in Nat : Grows(chains, chains', k, Head(todo))
      BY <1>1, <1>2, <2>2, ConnectAdds
    <3>2. /\ Len(chains) <= Len(chains')
          /\ \A i \in 1..Len(chains) : \A n \in 1..Len(chains[i]) : chains'[i][n] = chains[i][n]
      BY <1>2, <3>1, GrowsPlaces
    <3>3. \A i \in 1..Len(chains') :
             CursorCut'[i] = IF i \in 1..Len(cursor) THEN cursor[i] ELSE 0
      <4>1. (SeqInv /\ IsChains(chains) =>
                \A i \in 1..Len(chains) :
                   CursorCut[i] = IF i \in 1..Len(cursor) THEN cursor[i] ELSE 0)'
        BY CursorCutIs, PTL
      <4> QED BY <1>1, <1>2, <4>1
    <3>4. \A i \in 1..Len(chains) :
             CursorCut[i] = IF i \in 1..Len(cursor) THEN cursor[i] ELSE 0
      BY <1>2, CursorCutIs
    <3>5. \A i \in 1..Len(chains) : CursorCut[i] \in 0..Len(chains[i])
      BY <1>1 DEF StoreInv, CutInv, Cut
    <3>6. /\ Len(rs) <= Len(chains)
          /\ \A i \in 1..Len(rs) : /\ CursorCut[i] = Len(rs[i])
                                   /\ \A n \in 1..Len(rs[i]) : rs[i][n] = chains[i][n]
      BY <1>4 DEF IsCut
    <3>7. Len(rs) <= Len(chains')
      BY <1>5, <3>2, <3>6
    <3>8. ASSUME NEW i \in 1..Len(rs)
          PROVE  /\ CursorCut'[i] = Len(rs[i])
                 /\ \A n \in 1..Len(rs[i]) : rs[i][n] = chains'[i][n]
      <4>1. i \in 1..Len(chains) /\ i \in 1..Len(chains') /\ i \in 1..Len(cursor)
        BY <1>4, <1>5, <3>6, <3>7
      <4>2. CursorCut'[i] = CursorCut[i]
        BY <3>3, <3>4, <4>1
      <4>3. Len(rs[i]) <= Len(chains[i])
        BY <1>5, <3>5, <3>6, <4>1
      <4>4. \A n \in 1..Len(rs[i]) : n \in 1..Len(chains[i])
        BY <1>5, <4>1, <4>3
      <4> QED BY <3>2, <3>6, <4>1, <4>2, <4>4
    <3>9. ASSUME NEW i \in 1..Len(chains'), i > Len(rs) PROVE CursorCut'[i] = 0
      <4>1. i \notin 1..Len(cursor)
        BY <1>4, <1>5, <3>9
      <4> QED BY <3>3, <4>1
    <3> QED BY <3>7, <3>8, <3>9 DEF IsCut
  <2> QED BY <2>1, <2>2
<1> QED BY <1>1, <1>3, <1>4, <1>6 DEF ReloadInv, rs

(* The next header to write extends the last chain that the file has        *)
(* something of, or begins the next: a start does the same with it.         *)
LEMMA ReloadWrites ==
    ASSUME StoreInv, ReloadInv, WriteHeader, StoreInv'
    PROVE  ReloadInv'
<1> DEFINE i == NextChain
           n == NextPlace
           h == NextHeader
           rs == Reloaded
           qs == Reloaded'
<1>1. /\ pc = "write" /\ Unwritten # {} /\ pc' = pc /\ file' = Append(file, h)
      /\ written' = [written EXCEPT ![i] = n] /\ chains' = chains
  BY DEF WriteHeader, NextChain, NextPlace, NextHeader
<1>2. /\ GoodChains(chains) /\ IsChains(chains)
      /\ file \in Seq(Headers \ {Genesis}) /\ Len(file) \in Nat
      /\ written \in Seq(Nat) /\ Len(written) = Len(chains) /\ DOMAIN written = 1..Len(written)
      /\ Cut(chains, written)
  BY <1>1 DEF StoreInv, SeqInv, GoodChains, CutInv
<1>3. /\ Len(chains) \in Nat /\ DOMAIN chains = 1..Len(chains)
      /\ \A a \in 1..Len(chains) : Len(chains[a]) \in Nat \ {0}
      /\ \A a \in 1..Len(chains) : \A b \in 1..Len(chains[a]) : chains[a][b] \in Headers
      /\ chains[1][1] = Genesis
  BY <1>2, ChainsType
<1>4. \A a \in 1..Len(chains) : \A b \in 1..Len(chains[a]) :
         InFile(chains[a][b]) <=> b <= written[a]
  BY NextToWrite
<1>6. /\ i \in 1..Len(chains)
      /\ \A j \in 1..i-1 : j \in 1..Len(chains) /\ written[j] = Len(chains[j])
  BY NextToWrite
<1>7. n \in 1..Len(chains[i]) /\ n \in Nat \ {0} /\ written[i] = n - 1
  BY NextToWrite
<1>n. h = chains[i][n]
  BY DEF NextHeader
<1>8. /\ IsCut(chains, rs, written) /\ GoodChains(rs) /\ IsChains(rs)
      /\ \A x : x \in Known(rs) <=> InFile(x)
  BY <1>1 DEF ReloadInv, GoodChains
<1>9. /\ Len(rs) \in Nat /\ Len(rs) <= Len(chains)
      /\ \A a \in 1..Len(rs) : Len(rs[a]) \in Nat \ {0}
      /\ \A a \in 1..Len(rs) : /\ written[a] = Len(rs[a])
                               /\ \A b \in 1..Len(rs[a]) : rs[a][b] = chains[a][b]
      /\ \A a \in 1..Len(chains) : a > Len(rs) => written[a] = 0
  BY <1>8, ChainsType DEF IsCut
<1> HIDE DEF i, n
<1>10. /\ h \in Headers \ {Genesis} /\ h \notin Known(rs) /\ Parent[h] \in Known(rs)
       /\ \A x : InFile(x)' <=> InFile(x) \/ x = h
  <2>1. /\ h \in Headers \ {Genesis} /\ h \in Known(chains)
        /\ ~InFile(h) /\ InFile(Parent[h])
    BY NextToWrite
  <2> HIDE DEF h
  <2>2. ToSet(file') = ToSet(file) \cup {h}
    BY <1>1, <1>2, <2>1, AppendElements
  <2> QED BY <1>8, <2>1, <2>2 DEF InFile
<1> HIDE DEF h
<1>11. qs = Connect(rs, h)
  <2>1. /\ file' \in Seq(Headers \ {Genesis}) /\ Len(file') = Len(file) + 1
        /\ \A j \in 1..Len(file) : file'[j] = file[j]
        /\ file'[Len(file) + 1] = h
    BY <1>1, <1>2, <1>10, AppendProperties
  <2>2. Reading(NoChains, file', Len(file) + 1)
            = Connect(Reading(NoChains, file', Len(file)), file'[Len(file) + 1])
    BY <1>2, ReadingIs
  <2>3. Reading(NoChains, file', Len(file)) = Reading(NoChains, file, Len(file))
    <3>1. \A b, s : \A k \in Nat : \A t :
             (\A j \in 1..k : s[j] = t[j]) => Reading(b, s, k) = Reading(b, t, k)
      BY ReadingIs
    <3>2. Len(file) \in Nat /\ \A j \in 1..Len(file) : file'[j] = file[j]
      BY <1>2, <2>1
    <3> QED BY <3>1, <3>2
  <2> QED BY <2>1, <2>2, <2>3 DEF Reloaded
<1>12. /\ GoodChains(qs) /\ \A x : x \in Known(qs) <=> x \in Known(rs) \/ x = h
       /\ \E k \in Nat : Grows(rs, qs, k, h)
  BY <1>8, <1>10, <1>11, ConnectAdds
<1>13. PICK k \in Nat : Grows(rs, qs, k, h)
  BY <1>12
<1> HIDE DEF rs, qs
<1>14. IsChains(qs)
  BY <1>12 DEF GoodChains
<1>15. k = i /\ (i \in 1..Len(rs) \/ (i = Len(rs) + 1 /\ n = 1))
  <2>1. CASE i \in 1..Len(rs)
    <3>1. written[i] = Len(rs[i]) /\ Len(rs[i]) \in 1..Len(rs[i]) /\ n > 1
      <4>1. \A x \in Nat \ {0} : x \in 1..x
        OBVIOUS
      <4>2. written[i] = Len(rs[i]) /\ Len(rs[i]) \in Nat \ {0}
        BY <1>9, <2>1
      <4> QED BY <1>7, <4>1, <4>2
    <3>2. rs[i][Len(rs[i])] = chains[i][n - 1]
      BY <1>7, <1>9, <2>1, <3>1
    <3>3. Parent[h] = chains[i][n - 1]
      BY <1>2, <1>6, <1>7, <1>n, <3>1 DEF GoodChains, Linked
    <3>4. k <= Len(rs)
      <4>1. ~(k > Len(rs))
        BY <1>13, <2>1, <3>2, <3>3 DEF Grows
      <4> QED BY <1>9, <4>1
    <3>5. rs[k][Len(rs[k])] = Parent[h] /\ k \in 1..Len(rs)
      <4>1. rs[k][Len(rs[k])] = Parent[h]
        BY <1>13, <3>4 DEF Grows
      <4>2. k \in 1..Len(qs)
        BY <1>13 DEF Grows
      <4>3. k \in 1..Len(rs)
        BY <1>9, <3>4, <4>2
      <4> QED BY <4>1, <4>3
    <3>6. Len(rs[k]) \in 1..Len(rs[k])
      <4>1. \A x \in Nat \ {0} : x \in 1..x
        OBVIOUS
      <4> QED BY <1>9, <3>5, <4>1
    <3>7. rs[i][Len(rs[i])] = rs[k][Len(rs[k])] => i = k
      <4>1. Distinct(rs)
        BY <1>8 DEF GoodChains
      <4>2. \A a, b \in 1..Len(rs) : \A u \in 1..Len(rs[a]), v \in 1..Len(rs[b]) :
               rs[a][u] = rs[b][v] => a = b /\ u = v
        BY <4>1 DEF Distinct
      <4> QED BY <2>1, <3>1, <3>5, <3>6, <4>2
    <3> QED BY <2>1, <3>2, <3>3, <3>5, <3>7
  <2>2. CASE i \notin 1..Len(rs)
    <3>1. i > Len(rs) /\ written[i] = 0 /\ n = 1
      <4>1. i > Len(rs)
        BY <1>3, <1>6, <1>9, <2>2
      <4> QED BY <1>6, <1>7, <1>9, <4>1
    <3>2. i = Len(rs) + 1
      <4>1. ASSUME Len(rs) + 1 \in 1..i-1 PROVE FALSE
        <5>1. Len(rs) + 1 > Len(rs) /\ Len(rs) + 1 \in 1..Len(chains)
          BY <1>6, <1>9, <4>1
        <5>2. written[Len(rs) + 1] = 0 /\ written[Len(rs) + 1] = Len(chains[Len(rs) + 1])
          BY <1>6, <1>9, <4>1, <5>1
        <5> QED BY <1>3, <5>1, <5>2
      <4> QED BY <1>3, <1>6, <1>9, <3>1, <4>1
    <3>3. i > 1
      <4>1. i # 1
        BY <1>3, <1>10, <1>n, <3>1
      <4> QED BY <1>3, <1>6, <4>1
    <3>4. PICK j \in 1..i-1 : \E m \in 1..Len(chains[j])-1 : chains[j][m] = Parent[chains[i][1]]
      BY <1>2, <1>6, <3>3 DEF GoodChains, Linked
    <3>5. PICK m \in 1..Len(chains[j])-1 : chains[j][m] = Parent[chains[i][1]]
      BY <3>4
    <3>6. chains[j][m] = Parent[h] /\ j \in 1..Len(chains) /\ m \in 1..Len(chains[j])
          /\ m # Len(chains[j])
      <4>1. j \in 1..Len(chains) /\ Len(chains[j]) \in Nat
        BY <1>3, <1>6
      <4> QED BY <1>n, <3>1, <3>5, <4>1
    <3>7. ASSUME NEW a \in 1..Len(rs) PROVE rs[a][Len(rs[a])] # Parent[h]
      <4>1. a \in 1..i-1
        BY <1>9, <3>2
      <4>2. a \in 1..Len(chains) /\ Len(rs[a]) = Len(chains[a])
        BY <1>6, <1>9, <4>1
      <4>3. Len(rs[a]) \in 1..Len(rs[a])
        <5>1. \A x \in Nat \ {0} : x \in 1..x
          OBVIOUS
        <5> QED BY <1>9, <5>1
      <4>4. rs[a][Len(rs[a])] = chains[a][Len(chains[a])]
        BY <1>9, <4>2, <4>3
      <4>5. \A b, c \in 1..Len(chains) : \A u \in 1..Len(chains[b]), v \in 1..Len(chains[c]) :
               chains[b][u] = chains[c][v] => b = c /\ u = v
        BY <1>2 DEF GoodChains, Distinct
      <4>6. chains[a][Len(chains[a])] = chains[j][m] => a = j /\ Len(chains[a]) = m
        BY <3>6, <4>2, <4>3, <4>5
      <4> QED BY <3>6, <4>4, <4>6
    <3>8. k = Len(rs) + 1
      <4>1. k \notin 1..Len(rs)
        <5>1. k <= Len(rs) => rs[k][Len(rs[k])] = Parent[h]
          BY <1>13 DEF Grows
        <5> QED BY <3>7, <5>1
      <4> QED BY <1>8, <1>13, <1>14, <4>1, GrowsPlaces
    <3> QED BY <3>1, <3>2, <3>8
  <2> QED BY <2>1, <2>2
<1>16. \A a \in 1..Len(chains) : written'[a] = IF a = i THEN n ELSE written[a]
  BY <1>1, <1>2, <1>6
<1>17. IsCut(chains, qs, written')
  <2>p. /\ Len(rs) <= Len(qs) /\ k \in 1..Len(qs) /\ qs[k][Len(qs[k])] = h
        /\ \A a \in 1..Len(rs) : \A b \in 1..Len(rs[a]) : qs[a][b] = rs[a][b]
    BY <1>8, <1>13, <1>14, GrowsPlaces
  <2>q. /\ k \in 1..Len(rs) => Len(qs[k]) = Len(rs[k]) + 1
        /\ k \notin 1..Len(rs) => Len(qs[k]) = 1 /\ k = Len(rs) + 1
    BY <1>8, <1>13, <1>14, GrowsPlaces
  <2>r. \A a \in 1..Len(rs) : a # k => qs[a] = rs[a]
    BY <1>13 DEF Grows
  <2>s. /\ Len(qs) \in {Len(rs), Len(rs) + 1}
        /\ Len(qs) = Len(rs) + 1 => k = Len(qs)
    BY <1>13 DEF Grows
  <2>1. Len(qs) \in Nat /\ Len(qs) <= Len(chains)
    <3>1. Len(qs) = Len(rs) \/ Len(qs) = i
      BY <1>15, <2>s
    <3> QED BY <1>3, <1>6, <1>9, <3>1
  <2>2. ASSUME NEW a \in 1..Len(qs)
        PROVE  /\ written'[a] = Len(qs[a])
               /\ \A b \in 1..Len(qs[a]) : qs[a][b] = chains[a][b]
    <3>1. a \in 1..Len(chains)
      BY <1>3, <2>1
    <3>2. CASE a # k
      <4>1. a \in 1..Len(rs)
        BY <1>9, <2>1, <2>s, <3>2
      <4>2. qs[a] = rs[a]
        BY <2>r, <3>2, <4>1
      <4>3. written'[a] = written[a]
        BY <1>15, <1>16, <3>1, <3>2
      <4> QED BY <1>9, <4>1, <4>2, <4>3
    <3>3. CASE a = k /\ k \in 1..Len(rs)
      <4>1. Len(qs[a]) = Len(rs[a]) + 1 /\ Len(rs[a]) \in Nat /\ written[a] = Len(rs[a])
        BY <1>9, <2>q, <3>3
      <4>2. Len(qs[a]) = n
        BY <1>7, <1>15, <3>3, <4>1
      <4>3. \A b \in 1..Len(qs[a]) : b \in 1..Len(rs[a]) \/ b = n
        BY <4>1, <4>2
      <4>4. qs[a][n] = chains[a][n]
        BY <1>15, <1>n, <2>p, <3>3, <4>2
      <4>5. \A b \in 1..Len(rs[a]) : qs[a][b] = chains[a][b]
        BY <1>9, <2>p, <3>3
      <4>6. written'[a] = n
        BY <1>15, <1>16, <3>1, <3>3
      <4> QED BY <4>2, <4>3, <4>4, <4>5, <4>6
    <3>4. CASE a = k /\ k \notin 1..Len(rs)
      <4>1. Len(qs[a]) = 1 /\ n = 1
        BY <1>15, <2>q, <3>4
      <4>2. qs[a][1] = chains[a][1]
        BY <1>15, <1>n, <2>p, <3>4, <4>1
      <4>3. written'[a] = 1
        BY <1>15, <1>16, <3>1, <3>4, <4>1
      <4>4. \A b \in 1..1 : b = 1
        OBVIOUS
      <4> QED BY <4>1, <4>2, <4>3, <4>4
    <3> QED BY <3>2, <3>3, <3>4
  <2>3. ASSUME NEW a \in 1..Len(chains), a > Len(qs) PROVE written'[a] = 0
    <3>1. a > Len(rs) /\ a # k
      BY <1>9, <2>1, <2>3, <2>p
    <3> QED BY <1>9, <1>15, <1>16, <3>1
  <2> QED BY <2>1, <2>2, <2>3 DEF IsCut
<1>18. GoodChains(qs) /\ \A x : x \in Known(qs) <=> InFile(x)'
  BY <1>8, <1>10, <1>12
<1> QED BY <1>1, <1>17, <1>18 DEF ReloadInv, qs

(* When all is written, the cut is whole chains.                            *)
LEMMA ReloadReturns ==
    ASSUME StoreInv, ReloadInv, Return, StoreInv'
    PROVE  ReloadInv'
<1> DEFINE rs == Reloaded
<1>1. /\ pc = "write" /\ Unwritten = {} /\ pc' = "ready" /\ cursor' = CursorOf(chains)
      /\ chains' = chains /\ file' = file
  BY DEF Return
<1>2. IsChains(chains) /\ Cut(chains, written) /\ IsCut(chains, rs, written)
  BY <1>1 DEF StoreInv, CutInv, ReloadInv, GoodChains
<1>3. /\ Len(chains) \in Nat /\ DOMAIN chains = 1..Len(chains)
      /\ \A i \in 1..Len(chains) : Len(chains[i]) \in Nat \ {0}
  BY <1>2, ChainsType
<1>4. ASSUME NEW i \in 1..Len(chains) PROVE written[i] = Len(chains[i])
  <2>1. written[i] \in 0..Len(chains[i]) /\ ~(written[i] < Len(chains[i]))
    BY <1>1, <1>2, <1>3 DEF Cut, Unwritten
  <2> QED BY <1>3, <2>1
<1>5. GoodChains(rs) /\ Len(rs) \in Nat
  BY ChainsType DEF ReloadInv, GoodChains
<1> HIDE DEF rs
<1>6. Len(rs) = Len(chains)
  <2>1. Len(rs) <= Len(chains)
    BY <1>2 DEF IsCut
  <2>2. ASSUME Len(chains) > Len(rs) PROVE FALSE
    <3>1. Len(chains) \in 1..Len(chains)
      BY <1>3, <1>5, <2>2
    <3>2. written[Len(chains)] = 0
      BY <1>2, <2>2, <3>1 DEF IsCut
    <3> QED BY <1>3, <1>4, <3>1, <3>2
  <2> QED BY <1>3, <1>5, <2>1, <2>2
<1>7. /\ Len(CursorOf(chains)) = Len(chains)
      /\ \A i \in 1..Len(chains) : CursorOf(chains)[i] = Len(chains[i])
  BY <1>2, CursorOfType
<1>8. \A i \in 1..Len(chains) : CursorCut'[i] = written[i]
  <2>1. (SeqInv /\ IsChains(chains) =>
            \A i \in 1..Len(chains) :
               CursorCut[i] = IF i \in 1..Len(cursor) THEN cursor[i] ELSE 0)'
    BY CursorCutIs, PTL
  <2>2. SeqInv' /\ IsChains(chains')
    BY <1>1, <1>2 DEF StoreInv
  <2> QED BY <1>1, <1>4, <1>7, <2>1, <2>2
<1>9. IsCut(chains, rs, CursorCut')
  BY <1>2, <1>6, <1>8 DEF IsCut
<1> QED BY <1>1, <1>6, <1>7, <1>9 DEF ReloadInv, Reloaded, InFile, rs

(* The write begins where the cursor says.                                  *)
LEMMA ReloadBegins ==
    ASSUME StoreInv, ReloadInv, BeginWrite
    PROVE  ReloadInv'
<1>1. /\ pc = "connect" /\ pc' = "write" /\ written' = CursorCut /\ chains' = chains
      /\ file' = file
  BY DEF BeginWrite, CursorCut
<1> QED BY <1>1 DEF ReloadInv, Reloaded, InFile, IsCut

(* These steps change neither the file nor what the cut leaves of the       *)
(* chains.                                                                  *)
LEMMA ReloadElse ==
    ASSUME ReloadInv,
           \/ \E b \in Batches, safe \in Uses : Call(b, safe)
           \/ HeaderMissing \/ HeaderInvalid \/ Crash \/ UNCHANGED vars
    PROVE  ReloadInv'
<1>1. CASE \/ \E b \in Batches, safe \in Uses : Call(b, safe)
           \/ HeaderMissing \/ HeaderInvalid
  <2>1. /\ pc \in {"ready", "connect"} /\ pc' \in {"ready", "connect"}
        /\ chains' = chains /\ cursor' = cursor /\ file' = file
    BY <1>1 DEF Call, HeaderMissing, HeaderInvalid
  <2>2. CursorCut' = CursorCut /\ Reloaded' = Reloaded
    BY <2>1 DEF CursorCut, Reloaded
  <2> QED BY <2>1, <2>2 DEF ReloadInv, InFile
<1>2. CASE Crash
  BY <1>2 DEF Crash, ReloadInv, Reloaded, InFile
<1>3. CASE UNCHANGED vars
  BY <1>3 DEF vars, ReloadInv, Reloaded, InFile, CursorCut, IsCut
<1> QED BY <1>1, <1>2, <1>3

(* Every step keeps it; ConnectHeader and WriteHeader have lemmas above.    *)
LEMMA ReloadStep == StoreInv /\ ReloadInv /\ [Next]_vars => ReloadInv'
BY StoreStep, ReloadLoads, ReloadConnects, ReloadWrites, ReloadReturns, ReloadBegins,
   ReloadElse DEF Next

(* What it says of a program that is ready.                                 *)
LEMMA ReloadGives == StoreInv /\ ReloadInv => ReloadsSame
<1> SUFFICES ASSUME StoreInv, ReloadInv, pc = "ready"
             PROVE  FoldLeft(Connect, NoChains, file)
                       = [i \in DOMAIN cursor |-> SubSeq(chains[i], 1, cursor[i])]
  BY DEF ReloadsSame
<1> DEFINE rs == Reloaded
<1>1. /\ IsCut(chains, rs, CursorCut) /\ IsChains(rs) /\ Len(cursor) = Len(rs)
      /\ IsChains(chains) /\ SeqInv /\ Cut(chains, CursorCut)
      /\ file \in Seq(Headers \ {Genesis})
  BY DEF ReloadInv, StoreInv, GoodChains, SeqInv, CutInv
<1>2. FoldLeft(Connect, NoChains, file) = rs
  BY <1>1, FoldIsReading DEF Reloaded
<1> HIDE DEF rs
<1>3. /\ rs \in Seq(Seq(Headers)) /\ Len(rs) \in Nat /\ DOMAIN rs = 1..Len(rs)
      /\ \A i \in 1..Len(rs) : rs[i] \in Seq(Headers) /\ Len(rs[i]) \in Nat
      /\ Len(chains) \in Nat
      /\ \A i \in 1..Len(chains) : chains[i] \in Seq(Headers) /\ Len(chains[i]) \in Nat
  BY <1>1, ChainsType
<1>4. DOMAIN cursor = 1..Len(rs)
  BY <1>1 DEF SeqInv
<1>5. ASSUME NEW i \in 1..Len(rs) PROVE rs[i] = SubSeq(chains[i], 1, cursor[i])
  <2>1. i \in 1..Len(chains) /\ CursorCut[i] = cursor[i]
    <3>1. i \in 1..Len(chains)
      BY <1>1, <1>3 DEF IsCut
    <3> QED BY <1>1, <3>1, CursorCutIs
  <2>2. /\ cursor[i] = Len(rs[i]) /\ cursor[i] \in 0..Len(chains[i])
        /\ \A n \in 1..Len(rs[i]) : rs[i][n] = chains[i][n]
    BY <1>1, <2>1 DEF IsCut, Cut
  <2> DEFINE c == chains[i]
             r == rs[i]
             m == cursor[i]
  <2>3. /\ c \in Seq(Headers) /\ r \in Seq(Headers) /\ m = Len(r) /\ m \in 0..Len(c)
        /\ \A n \in 1..Len(r) : r[n] = c[n]
    BY <1>3, <2>1, <2>2
  <2> HIDE DEF c, r, m
  <2>4. r = SubSeq(c, 1, m)
    <3>1. m \in Nat /\ Len(c) \in Nat
      BY <2>3
    <3>2. \A j \in 1..m : c[j] \in Headers
      BY <2>3, <3>1
    <3>3. /\ SubSeq(c, 1, m) \in Seq(Headers) /\ Len(SubSeq(c, 1, m)) = m
          /\ \A j \in 1..m : SubSeq(c, 1, m)[j] = c[j]
      BY <2>3, <3>1, <3>2, SubSeqProperties
    <3> QED BY <2>3, <3>3, SeqEqual
  <2> QED BY <2>4 DEF c, r, m
<1>6. rs = [i \in 1..Len(rs) |-> rs[i]]
  BY <1>3
<1> QED BY <1>2, <1>4, <1>5, <1>6

(* Whenever the program crashes, and however often: the file connects when  *)
(* it is read back, and a program that is ready has, up to its cursor, the  *)
(* chains that a start makes of the file, in the same order.                *)
THEOREM CrashIsSafe == Spec => []CrashSafe
<1>1. StoreInv /\ ReloadInv => CrashSafe
  BY ReloadGives DEF CrashSafe, StoreInv
<1> QED BY <1>1, StoreInit, StoreStep, ReloadInit, ReloadStep, PTL DEF Spec

-----------------------------------------------------------------------------
(* What a call does to the chains, and what it answers.                     *)

CallType ==
    /\ call.safe \in BOOLEAN /\ call.first \in Headers /\ call.before \in Headers
    /\ call.headers \subseteq Headers /\ call.count \in Nat
    /\ answer.kind \in Kinds /\ promised \subseteq Headers
    /\ answer.kind \in {"tip", "reorg"} => pc = "ready"

(* K is what was known when the call began; the rest is of the message.  It *)
(* lies on one branch, which ends in the tip g of a chain: no second chain   *)
(* is begun, and one is begun only when the tip of before is left alone.    *)
OneBranch(K) ==
    \/ Known(chains) = K /\ Len(chains) = call.count /\ call.before \in Tips(chains)
    \/ \E g \in Tips(chains) :
          /\ g \notin K /\ \A x \in Known(chains) : x \in K \/ x \in Branch[g]
          /\ \A x \in ToSet(todo) : g \in Branch[x]
          /\ Len(chains) = call.count \/ call.before \in Tips(chains)

Began(K) ==
    /\ K \subseteq Known(chains) /\ call.before \in K
    /\ \A x \in K : Branch[x] \subseteq K /\ ChainWork[x] <= ChainWork[call.before]
    /\ \A x \in Known(chains) : x \in K \/ x \in call.headers
    /\ OneBranch(K)
    /\ \/ pc = "connect" /\ todo # <<>> /\ Head(todo) = call.first /\ Known(chains) = K
       \/ ChainWork[Parent[call.first]] <= ChainWork[call.before]

BatchInv ==
    /\ pc = "connect" =>
          /\ ToSet(todo) \subseteq call.headers
          /\ \A i, j \in 1..Len(todo) : i < j => todo[i] \in Branch[todo[j]] /\ todo[i] # todo[j]
    /\ pc = "write" => todo = <<>>
    /\ pc \in {"connect", "write"} =>
          /\ call.first # Genesis /\ \A x \in call.headers : call.first \in Branch[x]
          /\ \E K \in SUBSET Headers : Began(K)

(* The type of the rest of the variables is inductive,                      *)
LEMMA CallTypeStep == StoreInv /\ CallType /\ [Next]_vars => CallType'
<1> SUFFICES ASSUME StoreInv, CallType, [Next]_vars PROVE CallType'
  OBVIOUS
<1>1. GoodChains(chains) /\ IsChains(chains) /\ Len(chains) \in Nat /\ Tip(chains) \in Headers
  <2>1. GoodChains(chains) /\ IsChains(chains)
    BY DEF StoreInv, GoodChains
  <2>2. Tip(chains) \in Known(chains) /\ Known(chains) \subseteq Headers
    BY <2>1, TipsWhere, KnownClosed
  <2>3. Len(chains) \in Nat
    BY <2>1, ChainsType
  <2> QED BY <2>1, <2>2, <2>3
<1>2. CASE Open \/ Load \/ Loaded \/ ConnectHeader \/ BeginWrite \/ WriteHeader
  <2>1. call' = call /\ answer' = answer /\ promised' = promised /\ pc # "ready"
    BY <1>2 DEF Open, Load, Loaded, ConnectHeader, BeginWrite, WriteHeader
  <2> QED BY <2>1 DEF CallType
<1>3. ASSUME NEW b \in Batches, NEW safe \in Uses, Call(b, safe) PROVE CallType'
  <2>1. /\ b \in Seq(Headers \ {Genesis}) /\ b # <<>> /\ b[1] \in Headers
        /\ ToSet(b) \subseteq Headers
    <3>1. b \in Seq(Headers \ {Genesis}) /\ b # <<>>
      <4>1. PICK m \in 0..MaxBatch : b \in [1..m -> Headers \ {Genesis}]
        BY DEF Batches, BoundedSeq, SeqOf
      <4>2. m \in Nat
        BY StoreAssumption
      <4> QED BY <4>1, <4>2 DEF Batches
    <3>2. Head(b) = b[1] /\ Head(b) \in Headers
      BY <3>1, HeadTailElements
    <3> QED BY <3>1, <3>2, ToSetIn
  <2>2. /\ call' = [safe |-> safe, first |-> b[1], headers |-> ToSet(b),
                    before |-> Tip(chains), count |-> Len(chains)]
        /\ answer' = NoAnswer /\ promised' = promised
    BY <1>3 DEF Call
  <2>3. safe \in BOOLEAN
    BY StoreAssumption
  <2> QED BY <1>1, <2>1, <2>2, <2>3 DEF CallType, NoAnswer, Kinds
<1>4. CASE HeaderMissing \/ HeaderInvalid
  <2>1. call' = call /\ promised' = promised /\ pc' = "ready" /\ answer'.kind \in {"missing", "raised"}
    BY <1>4 DEF HeaderMissing, HeaderInvalid
  <2> QED BY <2>1 DEF CallType, Kinds
<1>5. CASE Return
  <2>1. /\ call' = call /\ promised' = promised \cup call.headers /\ pc' = "ready"
        /\ answer' = IF call.safe THEN NewTipResult ELSE [kind |-> "connected"]
    BY <1>5 DEF Return
  <2>2. NewTipResult.kind \in {"tip", "reorg", "assertion"}
    <3>1. Reorganised(Tip(chains), call.before).kind = "reorg"
      BY DEF Reorganised
    <3> QED BY <3>1 DEF NewTipResult
  <2> QED BY <2>1, <2>2 DEF CallType, Kinds
<1>6. CASE Crash
  <2>1. call' = NoCall /\ answer' = NoAnswer /\ promised' = promised
    BY <1>6 DEF Crash
  <2>2. NoCall.safe \in BOOLEAN /\ NoCall.first \in Headers /\ NoCall.before \in Headers
        /\ NoCall.headers \subseteq Headers /\ NoCall.count \in Nat
    BY TreeAssumption DEF NoCall
  <2> QED BY <2>1, <2>2 DEF CallType, NoAnswer, Kinds
<1>7. CASE UNCHANGED vars
  BY <1>7 DEF vars, CallType
<1> QED BY <1>2, <1>3, <1>4, <1>5, <1>6, <1>7 DEF Next

(* and holds at first.                                                      *)
LEMMA CallTypeInit == Init => CallType
BY TreeAssumption DEF Init, CallType, NoCall, NoAnswer, Kinds

(* The store's variables always have their types.                           *)
THEOREM TypeCorrect == Spec => []TypeOK
<1>1. StoreInv /\ CallType => TypeOK
  <2> SUFFICES ASSUME StoreInv, CallType PROVE TypeOK
    OBVIOUS
  <2>1. DOMAIN written = 1..Len(written)
    BY DEF StoreInv, SeqInv
  <2> QED BY <2>1 DEF StoreInv, SeqInv, GoodChains, CallType, TypeOK
<1> QED BY <1>1, StoreInit, StoreStep, CallTypeInit, CallTypeStep, PTL DEF Spec

-----------------------------------------------------------------------------
(* When a call begins, K is what is known, and the message is not begun.    *)
LEMMA BatchCalls ==
    ASSUME StoreInv, NEW b \in Batches, NEW safe \in Uses, Call(b, safe)
    PROVE  BatchInv'
<1>1. /\ pc' = "connect" /\ todo' = b /\ chains' = chains
      /\ call' = [safe |-> safe, first |-> b[1], headers |-> ToSet(b),
                  before |-> Tip(chains), count |-> Len(chains)]
  BY DEF Call
<1>2. /\ b \in Seq(Headers \ {Genesis}) /\ b # <<>> /\ DOMAIN b = 1..Len(b)
      /\ \A i, j \in DOMAIN b : i < j => b[i] # b[j] /\ b[i] \in Branch[b[j]]
  <2>1. PICK m \in 0..MaxBatch : b \in [1..m -> Headers \ {Genesis}]
    BY DEF Batches, BoundedSeq, SeqOf
  <2>2. m \in Nat
    BY StoreAssumption
  <2> QED BY <2>1, <2>2 DEF Batches
<1>3. GoodChains(chains) /\ IsChains(chains)
  BY DEF StoreInv, GoodChains
<1>4. Head(b) = b[1] /\ b[1] \in Headers \ {Genesis} /\ Len(b) \in Nat \ {0}
  BY <1>2, HeadTailElements
<1>5. ASSUME NEW x \in ToSet(b) PROVE b[1] \in Branch[x]
  <2>1. PICK i \in 1..Len(b) : b[i] = x
    BY <1>2, ToSetIn
  <2>2. i = 1 \/ (1 < i /\ 1 \in 1..Len(b))
    BY <1>4
  <2>3. b[1] \in Branch[b[1]]
    BY <1>4, BranchHolds
  <2> QED BY <1>2, <2>1, <2>2, <2>3
<1>6. Began(Known(chains))'
  <2>1. /\ Tip(chains) \in Known(chains) /\ Tip(chains) \in Tips(chains)
        /\ \A x \in Known(chains) : Branch[x] \subseteq Known(chains)
        /\ \A x \in Known(chains) : ChainWork[x] <= ChainWork[Tip(chains)]
    BY <1>3, TipsWhere, KnownClosed, TipBest
  <2> QED BY <1>1, <1>2, <1>4, <2>1 DEF Began, OneBranch
<1>7. Known(chains') \in SUBSET Headers
  BY <1>1, <1>3, KnownClosed
<1> QED BY <1>1, <1>2, <1>4, <1>5, <1>6, <1>7 DEF BatchInv

(* A header of the message that is new is added above the tip g, or to K:   *)
(* then it becomes g.                                                       *)
LEMMA BatchConnects ==
    ASSUME StoreInv, BatchInv, ConnectHeader
    PROVE  BatchInv'
<1> DEFINE h == Head(todo)
           t == Tail(todo)
<1>1. /\ pc = "connect" /\ pc' = pc /\ todo # <<>> /\ call' = call
      /\ Parent[h] \in Known(chains) /\ chains' = Connect(chains, h) /\ todo' = t
  BY DEF ConnectHeader
<1>2. /\ GoodChains(chains) /\ IsChains(chains) /\ todo \in Seq(Headers \ {Genesis})
  BY DEF StoreInv, SeqInv, GoodChains
<1>3. /\ h \in Headers \ {Genesis} /\ h = todo[1] /\ Len(todo) \in Nat \ {0}
      /\ t \in Seq(Headers \ {Genesis}) /\ Len(t) = Len(todo) - 1
      /\ \A i \in 1 .. Len(todo) - 1 : t[i] = todo[i + 1]
      /\ ToSet(todo) = {h} \cup ToSet(t)
  BY <1>1, <1>2, HeadTailElements
<1> HIDE DEF h, t
<1>4. /\ \A i, j \in 1..Len(todo) : i < j => todo[i] \in Branch[todo[j]] /\ todo[i] # todo[j]
      /\ ToSet(todo) \subseteq call.headers
      /\ call.first # Genesis /\ \A x \in call.headers : call.first \in Branch[x]
  BY <1>1 DEF BatchInv
<1>5. ASSUME NEW i \in 1..Len(t), NEW j \in 1..Len(t), i < j
      PROVE  t[i] \in Branch[t[j]] /\ t[i] # t[j]
  <2>1. /\ i + 1 \in 1..Len(todo) /\ j + 1 \in 1..Len(todo) /\ i + 1 < j + 1
        /\ i \in 1 .. Len(todo) - 1 /\ j \in 1 .. Len(todo) - 1
    BY <1>3, <1>5
  <2> QED BY <1>3, <1>4, <2>1
<1>6. ASSUME NEW x \in ToSet(t) PROVE h \in Branch[x]
  <2>1. PICK i \in 1..Len(t) : t[i] = x
    BY <1>3, ToSetIn
  <2>2. i \in 1 .. Len(todo) - 1 /\ 1 < i + 1 /\ 1 \in 1..Len(todo) /\ i + 1 \in 1..Len(todo)
    BY <1>3
  <2> QED BY <1>3, <1>4, <2>1, <2>2
<1>7. PICK K \in SUBSET Headers : Began(K)
  BY <1>1 DEF BatchInv
<1>8. /\ K \subseteq Known(chains) /\ call.before \in K
      /\ \A x \in K : Branch[x] \subseteq K /\ ChainWork[x] <= ChainWork[call.before]
      /\ \A x \in Known(chains) : x \in K \/ x \in call.headers
      /\ OneBranch(K)
  BY <1>7 DEF Began
<1>9. ChainWork[Parent[call.first]] <= ChainWork[call.before]
  <2>1. CASE h = call.first /\ Known(chains) = K
    BY <1>1, <1>8, <2>1
  <2> QED BY <1>7, <2>1 DEF Began, h
<1>10. CASE h \in Known(chains)
  <2>1. chains' = chains
    BY <1>1, <1>2, <1>3, <1>10, ConnectAdds
  <2>2. OneBranch(K)'
    BY <1>1, <1>3, <1>8, <2>1 DEF OneBranch
  <2>3. Began(K)'
    BY <1>1, <1>8, <1>9, <2>1, <2>2 DEF Began
  <2> QED BY <1>1, <1>3, <1>4, <1>5, <2>3 DEF BatchInv
<1>11. CASE h \notin Known(chains)
  <2>1. PICK k \in Nat : Grows(chains, chains', k, h)
    BY <1>1, <1>2, <1>3, <1>11, ConnectAdds
  <2>2. GoodChains(chains') /\ IsChains(chains')
        /\ \A x : x \in Known(chains') <=> x \in Known(chains) \/ x = h
    BY <1>1, <1>2, <1>3, ConnectAdds DEF GoodChains
  <2>3. /\ h \in Tips(chains')
        /\ \A g \in Tips(chains) : g \in Tips(chains') \/ g = Parent[h]
        /\ Parent[h] \in Tips(chains) => Len(chains') = Len(chains)
        /\ Len(chains') # Len(chains) => Tips(chains) \subseteq Tips(chains')
    BY <1>2, <2>1, <2>2, GrowsTips
  <2>4. h \notin K /\ h \in Branch[h] /\ h \in Headers
    BY <1>3, <1>8, <1>11, BranchHolds
  <2>5. OneBranch(K)'
    <3>1. CASE Known(chains) = K /\ Len(chains) = call.count /\ call.before \in Tips(chains)
      <4>1. Len(chains') = call.count \/ call.before \in Tips(chains')
        BY <2>3, <3>1
      <4>2. \A x \in Known(chains') : x \in K \/ x \in Branch[h]
        BY <2>2, <2>4, <3>1
      <4> QED BY <1>1, <1>6, <2>3, <2>4, <4>1, <4>2 DEF OneBranch
    <3>2. ASSUME NEW g \in Tips(chains),
                 g \notin K, \A x \in Known(chains) : x \in K \/ x \in Branch[g],
                 \A x \in ToSet(todo) : g \in Branch[x],
                 Len(chains) = call.count \/ call.before \in Tips(chains)
          PROVE  OneBranch(K)'
      <4>1. g \in Known(chains) /\ g \in Headers /\ g # h
        BY <1>2, <1>11, TipsWhere, KnownClosed
      <4>2. g \in Branch[h]
        BY <1>3, <3>2
      <4>3. g \in Branch[Parent[h]] /\ Parent[h] \in Headers
        BY <2>4, <4>1, <4>2, BranchHolds, TreeAssumption
      <4>4. Parent[h] \notin K
        BY <1>8, <3>2, <4>3
      <4>5. Parent[h] \in Branch[g]
        BY <1>1, <3>2, <4>4
      <4>6. Parent[h] = g
        BY <4>1, <4>3, <4>5, BranchOrder
      <4>7. Branch[h] = Branch[g] \cup {h}
        BY <1>3, <4>6, BranchIs
      <4>8. Len(chains') = Len(chains)
        BY <2>3, <4>6
      <4>9. call.before \in Tips(chains) => call.before \in Tips(chains')
        BY <1>8, <2>3, <3>2, <4>6
      <4>10. \A x \in Known(chains') : x \in K \/ x \in Branch[h]
        BY <2>2, <3>2, <4>7
      <4>11. Len(chains') = call.count \/ call.before \in Tips(chains')
        BY <3>2, <4>8, <4>9
      <4> QED BY <1>1, <1>6, <2>3, <2>4, <4>10, <4>11 DEF OneBranch
    <3> QED BY <1>8, <3>1, <3>2 DEF OneBranch
  <2>6. h \in call.headers
    BY <1>3, <1>4
  <2>7. Began(K)'
    <3>1. K \subseteq Known(chains') /\ \A x \in Known(chains') : x \in K \/ x \in call.headers
      BY <1>8, <2>2, <2>6
    <3> QED BY <1>1, <1>8, <1>9, <2>5, <3>1 DEF Began
  <2> QED BY <1>1, <1>3, <1>4, <1>5, <2>7 DEF BatchInv
<1> QED BY <1>10, <1>11

(* Every step keeps it.                                                     *)
LEMMA BatchStep == StoreInv /\ BatchInv /\ [Next]_vars => BatchInv'
<1> SUFFICES ASSUME StoreInv, BatchInv, [Next]_vars PROVE BatchInv'
  OBVIOUS
<1>1. CASE BeginWrite
  <2>1. /\ pc = "connect" /\ pc' = "write" /\ todo = <<>> /\ todo' = todo
        /\ chains' = chains /\ call' = call
    BY <1>1 DEF BeginWrite
  <2>2. PICK K \in SUBSET Headers : Began(K)
    BY <2>1 DEF BatchInv
  <2>3. Began(K)'
    BY <2>1, <2>2 DEF Began, OneBranch
  <2> QED BY <2>1, <2>3 DEF BatchInv
<1>2. CASE WriteHeader
  <2>1. /\ pc = "write" /\ pc' = "write" /\ todo' = todo
        /\ chains' = chains /\ call' = call
    BY <1>2 DEF WriteHeader
  <2>2. PICK K \in SUBSET Headers : Began(K)
    BY <2>1 DEF BatchInv
  <2>3. Began(K)'
    BY <2>1, <2>2 DEF Began, OneBranch
  <2> QED BY <2>1, <2>3 DEF BatchInv
<1>3. CASE Open \/ Load \/ Loaded \/ HeaderMissing \/ HeaderInvalid \/ Return \/ Crash
  <2>1. pc' \in {"load", "broken", "ready", "down"}
    BY <1>3 DEF Open, Load, Loaded, HeaderMissing, HeaderInvalid, Return, Crash
  <2> QED BY <2>1 DEF BatchInv
<1>4. CASE UNCHANGED vars
  BY <1>4 DEF vars, BatchInv, Began, OneBranch
<1>5. ASSUME NEW b \in Batches, NEW safe \in Uses, Call(b, safe) PROVE BatchInv'
  BY <1>5, BatchCalls
<1> QED BY <1>1, <1>2, <1>3, <1>4, <1>5, BatchConnects DEF Next

-----------------------------------------------------------------------------
(* What a call that has been written answers.                               *)

(* What it says when the call comes to its end.                             *)
LEMMA ReturnBegan ==
    ASSUME StoreInv, CallType, BatchInv, pc = "write"
    PROVE  /\ GoodChains(chains) /\ IsChains(chains)
           /\ Tip(chains) \in Known(chains) /\ Tip(chains) \in Headers
           /\ call.first \in Headers \ {Genesis} /\ call.before \in Headers
           /\ \A x \in call.headers : call.first \in Branch[x]
           /\ \A x \in Known(chains) :
                 x \in call.headers \/ ChainWork[x] <= ChainWork[call.before]
           /\ ChainWork[Parent[call.first]] <= ChainWork[call.before]
           /\ Len(chains) = call.count \/ call.before \in Tips(chains)
<1>1. GoodChains(chains) /\ IsChains(chains)
  BY DEF StoreInv, GoodChains
<1>2. Tip(chains) \in Known(chains) /\ Known(chains) \subseteq Headers
  BY <1>1, TipsWhere, KnownClosed
<1>3. /\ todo = <<>> /\ call.first # Genesis
      /\ \A x \in call.headers : call.first \in Branch[x]
  BY DEF BatchInv
<1>4. PICK K \in SUBSET Headers : Began(K)
  BY DEF BatchInv
<1>5. ChainWork[Parent[call.first]] <= ChainWork[call.before]
  BY <1>4 DEF Began
<1>6. \A x \in Known(chains) : x \in call.headers \/ ChainWork[x] <= ChainWork[call.before]
  BY <1>4 DEF Began
<1>7. Len(chains) = call.count \/ call.before \in Tips(chains)
  BY <1>4 DEF Began, OneBranch
<1>8. call.first \in Headers /\ call.before \in Headers
  BY DEF CallType
<1> QED BY <1>1, <1>2, <1>3, <1>5, <1>6, <1>7, <1>8

(* A new tip above the old one: the message leaves no block out between     *)
(* them.                                                                    *)
LEMMA ReturnTip ==
    ASSUME StoreInv, CallType, BatchInv, pc = "write",
           Tip(chains) # call.before, call.before \in Branch[Tip(chains)]
    PROVE  /\ call.first \in Branch[Tip(chains)]
           /\ Height[call.first] <= Height[call.before] + 1
<1> DEFINE new == Tip(chains)
           old == call.before
           p   == Parent[call.first]
<1>1. /\ new \in Headers /\ old \in Headers /\ p \in Headers /\ call.first \in Headers
      /\ ChainWork[p] <= ChainWork[old] /\ new \in Known(chains)
      /\ call.first # Genesis
  BY ReturnBegan, TreeAssumption
<1>2. /\ ChainWork[new] \in Nat /\ ChainWork[old] \in Nat /\ ChainWork[p] \in Nat
      /\ Height[old] \in Nat /\ Height[p] \in Nat /\ Height[call.first] = Height[p] + 1
  BY <1>1, ChainWorkIs, HeightIs
<1>3. ChainWork[old] < ChainWork[new]
  BY <1>1, BranchWork
<1>4. new \in call.headers
  <2>1. new \in call.headers \/ ChainWork[new] <= ChainWork[old]
    BY <1>1, ReturnBegan
  <2> QED BY <1>2, <1>3, <2>1
<1>5. call.first \in Branch[new]
  BY <1>4, ReturnBegan
<1>6. p \in Branch[new]
  <2>1. p \in Branch[call.first]
    <3>1. Branch[call.first] = Branch[p] \cup {call.first} /\ p \in Branch[p]
      BY <1>1, BranchIs, BranchHolds
    <3> QED BY <3>1
  <2> QED BY <1>1, <1>5, <2>1, BranchHolds
<1>7. p \in Branch[old] \/ old \in Branch[p]
  BY <1>1, <1>6, BranchLinear
<1>8. Height[p] <= Height[old]
  <2>1. CASE p \in Branch[old]
    BY <1>1, <2>1, BranchHeight
  <2>2. CASE old \in Branch[p]
    <3>1. old = p \/ ChainWork[old] < ChainWork[p]
      BY <1>1, <2>2, BranchWork
    <3>2. old = p
      BY <1>1, <1>2, <3>1
    <3> QED BY <1>2, <3>2
  <2> QED BY <1>7, <2>1, <2>2
<1> QED BY <1>2, <1>5, <1>8

(* The hashes from above a height to the tip are those headers of the       *)
(* branch that are above it, tip first.                                     *)
LEMMA ChainHashesIs ==
    ASSUME NEW tip \in Headers, NEW n \in 0..Height[tip]
    PROVE  /\ ToSet(ChainHashes(tip, n)) = {x \in Branch[tip] : ~(Height[x] <= n)}
           /\ n < Height[tip] => /\ ChainHashes(tip, n)[1] = tip
                                 /\ Last(ChainHashes(tip, n)) = At(tip, n + 1)
<1> DEFINE H == Height[tip]
           s == ChainHashes(tip, n)
<1>1. H \in Nat /\ n \in 0..H
  BY HeightIs
<1>2. s = [i \in 1 .. (H - n) |-> At(tip, H - i + 1)]
  BY DEF ChainHashes
<1> HIDE DEF s, H
<1>3. \A i \in 1 .. (H - n) : H - i + 1 \in 0..H /\ ~(H - i + 1 <= n) /\ s[i] = At(tip, H - i + 1)
  BY <1>1, <1>2
<1>4. DOMAIN s = 1 .. (H - n)
  BY <1>2
<1>5. ASSUME NEW x \in ToSet(s) PROVE x \in Branch[tip] /\ ~(Height[x] <= n)
  <2>1. PICK i \in 1 .. (H - n) : s[i] = x
    BY <1>4 DEF ToSet
  <2>2. At(tip, H - i + 1) \in Branch[tip] /\ Height[At(tip, H - i + 1)] = H - i + 1
    BY <1>3, AtIs DEF H
  <2> QED BY <1>3, <2>1, <2>2
<1>6. ASSUME NEW x \in Branch[tip], ~(Height[x] <= n) PROVE x \in ToSet(s)
  <2>1. x \in Headers /\ Height[x] \in Nat /\ Height[x] <= H
    BY BranchHolds, HeightIs, BranchHeight DEF H
  <2> DEFINE i == H - Height[x] + 1
  <2>2. i \in 1 .. (H - n) /\ H - i + 1 = Height[x] /\ Height[x] \in 0..H
    BY <1>1, <1>6, <2>1
  <2> HIDE DEF i
  <2>3. At(tip, Height[x]) = x
    BY <2>2, AtIs DEF H
  <2>4. s[i] = x
    BY <1>3, <2>2, <2>3
  <2> QED BY <1>4, <2>2, <2>4 DEF ToSet
<1>7. ASSUME n < H PROVE s[1] = tip /\ Last(s) = At(tip, n + 1)
  <2>1. /\ 1 \in 1 .. (H - n) /\ H - n \in 1 .. (H - n) /\ H - 1 + 1 = H /\ H \in 0..H
        /\ H - (H - n) + 1 = n + 1 /\ H - n \in Nat
    BY <1>1, <1>7
  <2>2. s[1] = At(tip, H) /\ s[H - n] = At(tip, n + 1)
    BY <1>3, <2>1
  <2>3. At(tip, H) = tip
    <3>1. tip \in Branch[tip]
      BY BranchHolds
    <3> QED BY <2>1, <3>1, AtIs DEF H
  <2>4. Len(s) = H - n
    BY <1>4, <2>1
  <2> QED BY <2>2, <2>3, <2>4 DEF Last
<1> QED BY <1>5, <1>6, <1>7 DEF s, H

(* A fork that is detected: the two lists are the two differences.          *)
LEMMA ReturnReorg ==
    ASSUME StoreInv, CallType, BatchInv, pc = "write", Len(chains) # call.count,
           Detected(Tip(chains), call.before),
           NEW r, r = Reorganised(Tip(chains), call.before)
    PROVE  LET old == Branch[call.before]  new == Branch[Tip(chains)]
           IN  /\ ToSet(r.old_chain) = old \ new /\ old \ new # {}
               /\ ToSet(r.new_chain) = new \ old
               /\ r.old_chain[1] = call.before /\ r.new_chain[1] = r.stop
               /\ r.start = Last(r.new_chain) /\ r.stop = Tip(chains)
<1> DEFINE new == Tip(chains)
           old == call.before
           c   == CommonHeight(new, old)
<1>1. new \in Headers /\ old \in Headers /\ old \in Tips(chains)
  BY ReturnBegan
<1>2. CommonParent(new, old) = c /\ Height[new] > Height[old] /\ c < Height[old]
  BY <1>1 DEF CommonParent, Detected
<1>3. /\ r.old_chain = ChainHashes(old, c) /\ r.new_chain = ChainHashes(new, c)
      /\ r.start = At(new, c + 1) /\ r.stop = new
  BY <1>2 DEF Reorganised
<1> HIDE DEF new, old, c
<1>4. /\ c \in 0..Height[old] /\ c \in 0..Height[new]
      /\ \A x \in Branch[old] : x \in Branch[new] <=> Height[x] <= c
      /\ \A x \in Branch[new] : x \in Branch[old] <=> Height[x] <= c
  BY <1>1, CommonIs DEF c
<1>5. c < Height[new]
  <2>1. Height[new] \in Nat /\ Height[old] \in Nat /\ c \in Nat
    BY <1>1, <1>4, HeightIs
  <2> QED BY <1>2, <2>1
<1>6. /\ ToSet(r.old_chain) = {x \in Branch[old] : ~(Height[x] <= c)}
      /\ r.old_chain[1] = old
  BY <1>1, <1>2, <1>3, <1>4, ChainHashesIs
<1>7. /\ ToSet(r.new_chain) = {x \in Branch[new] : ~(Height[x] <= c)}
      /\ r.new_chain[1] = new /\ Last(r.new_chain) = At(new, c + 1)
  BY <1>1, <1>3, <1>4, <1>5, ChainHashesIs
<1>8. old \in Branch[old] \ Branch[new]
  <2>1. old \in Branch[old] /\ ~(Height[old] <= c)
    <3>1. Height[old] \in Nat /\ c \in Nat
      BY <1>1, <1>4, HeightIs
    <3> QED BY <1>1, <1>2, <3>1, BranchHolds
  <2> QED BY <1>4, <2>1
<1>9. /\ ToSet(r.old_chain) = Branch[old] \ Branch[new]
      /\ ToSet(r.new_chain) = Branch[new] \ Branch[old]
  BY <1>4, <1>6, <1>7
<1> QED BY <1>3, <1>6, <1>7, <1>8, <1>9 DEF new, old

AnswerInv == ReorgExact /\ TipContinuous

(* The answers are right when they are given, and stay so until the next    *)
(* call.                                                                    *)
LEMMA AnswerStep == StoreInv /\ CallType /\ BatchInv /\ AnswerInv /\ [Next]_vars => AnswerInv'
<1> SUFFICES ASSUME StoreInv, CallType, BatchInv, AnswerInv, [Next]_vars PROVE AnswerInv'
  OBVIOUS
<1>1. CASE Open \/ Load \/ Loaded \/ ConnectHeader \/ BeginWrite \/ WriteHeader
  <2>1. answer' = answer /\ pc # "ready"
    BY <1>1 DEF Open, Load, Loaded, ConnectHeader, BeginWrite, WriteHeader
  <2>2. answer'.kind \notin {"tip", "reorg"}
    BY <2>1 DEF CallType
  <2> QED BY <2>2 DEF AnswerInv, ReorgExact, TipContinuous
<1>2. CASE \/ \E b \in Batches, safe \in Uses : Call(b, safe)
           \/ HeaderMissing \/ HeaderInvalid \/ Crash
  <2>1. answer'.kind \in {"none", "missing", "raised"}
    <3>1. CASE \E b \in Batches, safe \in Uses : Call(b, safe)
      <4>1. PICK b \in Batches, safe \in Uses : Call(b, safe)
        BY <3>1
      <4>2. answer' = NoAnswer
        BY <4>1 DEF Call
      <4> QED BY <4>2 DEF NoAnswer
    <3>2. CASE HeaderMissing
      BY <3>2 DEF HeaderMissing
    <3>3. CASE HeaderInvalid
      BY <3>3 DEF HeaderInvalid
    <3>4. CASE Crash
      <4>1. answer' = NoAnswer
        BY <3>4 DEF Crash
      <4> QED BY <4>1 DEF NoAnswer
    <3> QED BY <1>2, <3>1, <3>2, <3>3, <3>4
  <2>2. answer'.kind \notin {"tip", "reorg"}
    BY <2>1
  <2> QED BY <2>2 DEF AnswerInv, ReorgExact, TipContinuous
<1>3. CASE Return
  <2>1. /\ pc = "write" /\ chains' = chains /\ call' = call
        /\ answer' = IF call.safe THEN NewTipResult ELSE [kind |-> "connected"]
    BY <1>3 DEF Return
  <2>2. CASE answer'.kind = "reorg"
    <3>1. /\ Len(chains) # call.count /\ Detected(Tip(chains), call.before)
          /\ answer' = Reorganised(Tip(chains), call.before)
      BY <2>1, <2>2 DEF NewTipResult
    <3>2. ReorgExact'
      BY <2>1, <3>1, ReturnReorg DEF ReorgExact
    <3> QED BY <2>2, <3>2 DEF AnswerInv, TipContinuous
  <2>3. CASE answer'.kind = "tip"
    <3>1. answer' = [kind |-> "tip", start |-> call.first, stop |-> Tip(chains)]
      <4>1. Reorganised(Tip(chains), call.before).kind = "reorg"
        BY DEF Reorganised
      <4> QED BY <2>1, <2>3, <4>1 DEF NewTipResult
    <3>2. TipContinuous'
      BY <2>1, <3>1, ReturnTip DEF TipContinuous
    <3> QED BY <2>3, <3>2 DEF AnswerInv, ReorgExact
  <2>4. CASE answer'.kind \notin {"tip", "reorg"}
    BY <2>4 DEF AnswerInv, ReorgExact, TipContinuous
  <2> QED BY <2>2, <2>3, <2>4
<1>4. CASE UNCHANGED vars
  BY <1>4 DEF vars, AnswerInv, ReorgExact, TipContinuous
<1> QED BY <1>1, <1>2, <1>3, <1>4 DEF Next

(* At first there is neither a call nor an answer.                          *)
LEMMA AnswerInit == Init => BatchInv /\ AnswerInv
BY DEF Init, BatchInv, AnswerInv, ReorgExact, TipContinuous, NoAnswer

(* The answers are always right.                                            *)
LEMMA AnswerKept == Spec => []AnswerInv
BY StoreInit, StoreStep, CallTypeInit, CallTypeStep, AnswerInit, BatchStep, AnswerStep, PTL
   DEF Spec

(* A reorganisation that connect_headers_reorg_safe() reports is exactly    *)
(* that: the blocks only the old and only the new branch has, tip first.    *)
THEOREM ReorgsExact == Spec => []ReorgExact
<1>1. AnswerInv => ReorgExact
  BY DEF AnswerInv
<1> QED BY <1>1, AnswerKept, PTL

(* When it reports a new tip above the old one, the blocks from start to    *)
(* stop include every block above the old tip.                              *)
THEOREM TipsContinuous == Spec => []TipContinuous
<1>1. AnswerInv => TipContinuous
  BY DEF AnswerInv
<1> QED BY <1>1, AnswerKept, PTL
=============================================================================
