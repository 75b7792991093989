-------------------------- MODULE HeaderSyncProofs --------------------------
(***************************************************************************)
(* Proofs about HeaderSync, for any number of handlers, room in the queues,  *)
(* length of answers and of the node's chain, and of lost connections.       *)
(*                                                                         *)
(* There is one request at a time, and it or its answer is in one place      *)
(* (FlightInv).  On the first connection every height above the store's tip  *)
(* is in an inv message that has still to be looked at (CoverInv).           *)
(***************************************************************************)
EXTENDS HeaderSync, Integers, SequenceTheorems, FiniteSetTheorems, TLAPS

-----------------------------------------------------------------------------
(* The invariant.                                                           *)

(* What a node whose chain has height n can send.                           *)
InvsTo(n)    == [kind : {"inv"}, heights : SUBSET (0..n)]
AnswersTo(n) == [kind : {"headers"}, upto : 0..n]
Sent(n)      == InvsTo(n) \cup AnswersTo(n)

LinkInv ==
    /\ link \in {"up", "closed", "none"} /\ losses \in 0 .. MaxLosses
    /\ link # "up" => losses > 0
    /\ remote \in Heights /\ start \in 0..remote /\ tip \in 0..remote
    /\ listings \in 0 .. MaxListings
    /\ task \in {"initial", "listen", "dead"} \cup Waits
    /\ vect \subseteq 0..remote
    /\ handlers \in Nat
    /\ handlers <= (losses + (IF link = "up" THEN 1 ELSE 0)) * HandlerCount

QueueInv ==
    /\ asked \in Seq(0..remote) /\ wire \in Seq(Sent(remote)) /\ blocked \in Seq(Sent(remote))
    /\ Len(blocked) <= handlers
    /\ invs \in Seq(SUBSET (0..remote)) /\ Len(invs) <= InvCap
    /\ answers \in Seq(0..remote) /\ Len(answers) <= HeadersCap

(* No answer is among the messages ms, or one, with the headers up to u.     *)
NoAnswer(ms) == \A i \in 1..Len(ms) : ms[i].kind # "headers"
OneAnswer(ms, u) ==
    \E k \in 1..Len(ms) : /\ ms[k].kind = "headers" /\ ms[k].upto = u
                          /\ \A i \in 1..Len(ms) : i # k => ms[i].kind # "headers"

(* The answer will reach all headers that the inv message in hand announces. *)
Room == losses = 0 /\ remote <= start + MaxHeaders
Enough(u) == Room /\ task = "listen_wait" => \A v \in vect : v <= u

NoneInFlight == asked = <<>> /\ NoAnswer(wire) /\ NoAnswer(blocked) /\ answers = <<>>
OneInFlight ==
    \/ asked = <<tip>> /\ NoAnswer(wire) /\ NoAnswer(blocked) /\ answers = <<>>
    \/ \E u \in 0..remote :
          /\ asked = <<>> /\ Enough(u)
          /\ \/ OneAnswer(wire, u) /\ NoAnswer(blocked) /\ answers = <<>>
             \/ NoAnswer(wire) /\ OneAnswer(blocked, u) /\ answers = <<>>
             \/ NoAnswer(wire) /\ NoAnswer(blocked) /\ answers = <<u>>

FlightInv ==
    /\ \/ NoneInFlight /\ (losses = 0 => task \notin Waits)
       \/ OneInFlight /\ task \in Waits
    /\ losses = 0 /\ task \in {"listen", "listen_wait"} => start <= tip

(* Height n is announced in one of the messages ms, or of the lists hs.      *)
Told(ms, n) == \E i \in 1..Len(ms) : ms[i].kind = "inv" /\ n \in ms[i].heights
Listed(hs, n) == \E i \in 1..Len(hs) : n \in hs[i]
Pending(n) == n \in vect \/ Told(wire, n) \/ Told(blocked, n) \/ Listed(invs, n)
CoverInv == Room => \A n \in start + 1 .. remote : n <= tip \/ Pending(n)

SyncInv == LinkInv /\ QueueInv /\ FlightInv /\ CoverInv

-----------------------------------------------------------------------------
(* Messages.                                                                *)

(* What a node may send, it may send when its chain is longer.               *)
LEMMA SentGrows ==
    ASSUME NEW a \in Nat, NEW b \in Nat, a <= b
    PROVE  /\ 0..a \subseteq 0..b /\ Sent(a) \subseteq Sent(b)
           /\ Seq(Sent(a)) \subseteq Seq(Sent(b)) /\ Seq(0..a) \subseteq Seq(0..b)
           /\ Seq(SUBSET (0..a)) \subseteq Seq(SUBSET (0..b))
<1>1. 0..a \subseteq 0..b
  OBVIOUS
<1>2. Sent(a) \subseteq Sent(b)
  BY <1>1 DEF Sent, InvsTo, AnswersTo
<1>3. SUBSET (0..a) \subseteq SUBSET (0..b)
  BY <1>1
<1>4. \A S, T : S \subseteq T => Seq(S) \subseteq Seq(T)
  OBVIOUS
<1> QED BY <1>1, <1>2, <1>3, <1>4, Zenon

(* A message is an inv or an answer.                                        *)
LEMMA SentIs ==
    ASSUME NEW n \in Nat
    PROVE  /\ \A m \in Sent(n) : \/ m.kind = "inv" /\ m.heights \subseteq 0..n
                                 \/ m.kind = "headers" /\ m.upto \in 0..n
           /\ \A S \in SUBSET (0..n) : /\ Inv(S) \in Sent(n) /\ Inv(S).kind = "inv"
                                       /\ Inv(S).heights = S
           /\ \A u \in 0..n : /\ HeadersMsg(u) \in Sent(n) /\ HeadersMsg(u).kind = "headers"
                              /\ HeadersMsg(u).upto = u
BY DEF Sent, InvsTo, AnswersTo, Inv, HeadersMsg

(* A message more at the end.                                               *)
LEMMA AppendSent ==
    ASSUME NEW S, NEW ms \in Seq(S), NEW m \in S
    PROVE  /\ Append(ms, m) \in Seq(S) /\ Len(Append(ms, m)) = Len(ms) + 1
           /\ m.kind # "headers" => /\ NoAnswer(ms) => NoAnswer(Append(ms, m))
                                    /\ \A u : OneAnswer(ms, u) => OneAnswer(Append(ms, m), u)
           /\ m.kind = "headers" /\ NoAnswer(ms) => OneAnswer(Append(ms, m), m.upto)
           /\ \A n : Told(ms, n) => Told(Append(ms, m), n)
           /\ m.kind = "inv" => \A n \in m.heights : Told(Append(ms, m), n)
<1> DEFINE t == Append(ms, m)
<1>1. /\ t \in Seq(S) /\ Len(t) = Len(ms) + 1 /\ Len(ms) \in Nat
      /\ \A i \in 1..Len(ms) : t[i] = ms[i]
      /\ t[Len(ms) + 1] = m
  BY AppendProperties
<1>2. /\ Len(ms) + 1 \in 1..Len(t)
      /\ \A i \in 1..Len(t) : i \in 1..Len(ms) \/ i = Len(ms) + 1
      /\ \A i \in 1..Len(ms) : i \in 1..Len(t) /\ i # Len(ms) + 1
  BY <1>1
<1> HIDE DEF t
<1>3. ASSUME m.kind # "headers", NoAnswer(ms) PROVE NoAnswer(t)
  BY <1>1, <1>2, <1>3 DEF NoAnswer
<1>4. ASSUME m.kind # "headers", NEW u, OneAnswer(ms, u) PROVE OneAnswer(t, u)
  <2>1. PICK k \in 1..Len(ms) : /\ ms[k].kind = "headers" /\ ms[k].upto = u
                                /\ \A i \in 1..Len(ms) : i # k => ms[i].kind # "headers"
    BY <1>4 DEF OneAnswer
  <2>2. k \in 1..Len(t) /\ t[k].kind = "headers" /\ t[k].upto = u
        /\ \A i \in 1..Len(t) : i # k => t[i].kind # "headers"
    BY <1>1, <1>2, <1>4, <2>1
  <2> QED BY <2>2 DEF OneAnswer
<1>5. ASSUME m.kind = "headers", NoAnswer(ms) PROVE OneAnswer(t, m.upto)
  <2>1. \A i \in 1..Len(t) : i # Len(ms) + 1 => t[i].kind # "headers"
    BY <1>1, <1>2, <1>5 DEF NoAnswer
  <2> QED BY <1>1, <1>2, <1>5, <2>1 DEF OneAnswer
<1>6. ASSUME NEW n, Told(ms, n) PROVE Told(t, n)
  BY <1>1, <1>2, <1>6 DEF Told
<1>7. ASSUME m.kind = "inv", NEW n \in m.heights PROVE Told(t, n)
  BY <1>1, <1>2, <1>7 DEF Told
<1> QED BY <1>1, <1>3, <1>4, <1>5, <1>6, <1>7 DEF t

(* The messages t are ms without the one at place k.                         *)
Without(t, ms, k) ==
    /\ Len(t) = Len(ms) - 1 /\ Len(t) \in Nat
    /\ \A j \in 1..Len(t) : t[j] = IF j < k THEN ms[j] ELSE ms[j + 1]

(* ... as when the first is taken ...                                        *)
LEMMA TailWithout ==
    ASSUME NEW S, NEW ms \in Seq(S), ms # <<>>
    PROVE  /\ Tail(ms) \in Seq(S) /\ Without(Tail(ms), ms, 1)
           /\ 1 \in 1..Len(ms) /\ Head(ms) = ms[1] /\ Head(ms) \in S
<1> DEFINE t == Tail(ms)
<1>1. /\ t \in Seq(S) /\ Len(ms) \in Nat \ {0} /\ Len(t) = Len(ms) - 1
      /\ \A i \in 1..Len(t) : t[i] = ms[i + 1]
      /\ Head(ms) \in S /\ Head(ms) = ms[1]
  BY HeadTailProperties, EmptySeq
<1> HIDE DEF t
<1>2. \A j \in 1..Len(t) : ~(j < 1)
  BY <1>1
<1> QED BY <1>1, <1>2 DEF Without, t

(* ... or any of them.                                                      *)
LEMMA RemoveWithout ==
    ASSUME NEW S, NEW ms \in Seq(S), NEW k \in 1..Len(ms)
    PROVE  RemoveAt(ms, k) \in Seq(S) /\ Without(RemoveAt(ms, k), ms, k)
<1> DEFINE a == SubSeq(ms, 1, k - 1)
           b == SubSeq(ms, k + 1, Len(ms))
           t == RemoveAt(ms, k)
<1>1. /\ 1 \in Int /\ k - 1 \in Int /\ k + 1 \in Int /\ Len(ms) \in Int /\ k \in Nat
      /\ k <= Len(ms) /\ 1 <= k /\ Len(ms) \in Nat
  OBVIOUS
<1>2. (\A i \in 1..k-1 : ms[i] \in S) /\ \A i \in k+1..Len(ms) : ms[i] \in S
  BY <1>1
<1>3. /\ a \in Seq(S) /\ Len(a) = IF 1 <= k - 1 THEN k - 1 - 1 + 1 ELSE 0
      /\ \A i \in 1 .. k - 1 - 1 + 1 : a[i] = ms[1 + i - 1]
  BY <1>1, <1>2, SubSeqProperties
<1>4. /\ b \in Seq(S)
      /\ Len(b) = IF k + 1 <= Len(ms) THEN Len(ms) - (k + 1) + 1 ELSE 0
      /\ \A i \in 1 .. Len(ms) - (k + 1) + 1 : b[i] = ms[k + 1 + i - 1]
  BY <1>1, <1>2, SubSeqProperties
<1>5. t = a \o b
  BY DEF RemoveAt
<1> HIDE DEF a, b, t
<1>6. Len(a) = k - 1 /\ \A i \in 1..k-1 : a[i] = ms[i]
  BY <1>1, <1>3
<1>7. Len(b) = Len(ms) - k /\ \A i \in 1..Len(ms)-k : b[i] = ms[k + i]
  BY <1>1, <1>4
<1>8. /\ t \in Seq(S) /\ Len(t) = Len(a) + Len(b)
      /\ \A i \in 1 .. Len(a) + Len(b) : t[i] = IF i <= Len(a) THEN a[i] ELSE b[i - Len(a)]
  BY <1>3, <1>4, <1>5, ConcatProperties
<1>9. Len(t) = Len(ms) - 1 /\ Len(t) \in Nat
  BY <1>1, <1>6, <1>7, <1>8
<1>10. ASSUME NEW j \in 1..Len(t) PROVE t[j] = IF j < k THEN ms[j] ELSE ms[j + 1]
  <2>1. t[j] = IF j <= k - 1 THEN a[j] ELSE b[j - (k - 1)]
    BY <1>6, <1>8
  <2>2. CASE j < k
    <3>1. j <= k - 1 /\ j \in 1..k-1
      BY <1>1, <1>9, <2>2
    <3> QED BY <1>6, <2>1, <2>2, <3>1
  <2>3. CASE ~(j < k)
    <3>1. ~(j <= k - 1) /\ j - (k - 1) \in 1..Len(ms)-k /\ k + (j - (k - 1)) = j + 1
      BY <1>1, <1>9, <2>3
    <3> QED BY <1>7, <2>1, <2>3, <3>1
  <2> QED BY <2>2, <2>3
<1> QED BY <1>8, <1>9, <1>10 DEF Without, t

(* A message less.                                                          *)
LEMMA WithoutSent ==
    ASSUME NEW S, NEW ms \in Seq(S), NEW k \in 1..Len(ms), NEW t, Without(t, ms, k)
    PROVE  /\ NoAnswer(ms) => NoAnswer(t) /\ ms[k].kind # "headers"
           /\ \A u : OneAnswer(ms, u) =>
                 IF ms[k].kind = "headers" THEN NoAnswer(t) /\ ms[k].upto = u
                 ELSE OneAnswer(t, u)
           /\ \A n : Told(ms, n) => \/ Told(t, n)
                                    \/ ms[k].kind = "inv" /\ n \in ms[k].heights
<1>1. /\ Len(ms) \in Nat /\ k \in Nat /\ Len(t) = Len(ms) - 1 /\ Len(t) \in Nat
      /\ \A j \in 1..Len(t) : t[j] = IF j < k THEN ms[j] ELSE ms[j + 1]
  BY DEF Without
<1>2. ASSUME NEW j \in 1..Len(t)
      PROVE  \E i \in 1..Len(ms) : i # k /\ t[j] = ms[i] /\ i = IF j < k THEN j ELSE j + 1
  <2> DEFINE i == IF j < k THEN j ELSE j + 1
  <2>1. i \in 1..Len(ms) /\ i # k /\ t[j] = ms[i]
    BY <1>1
  <2> QED BY <2>1
<1>3. ASSUME NEW i \in 1..Len(ms), i # k
      PROVE  \E j \in 1..Len(t) : t[j] = ms[i] /\ i = IF j < k THEN j ELSE j + 1
  <2> DEFINE j == IF i < k THEN i ELSE i - 1
  <2>1. j \in 1..Len(t) /\ i = (IF j < k THEN j ELSE j + 1) /\ j \in Nat
    BY <1>1, <1>3
  <2> HIDE DEF j
  <2>2. t[j] = ms[i]
    BY <1>1, <2>1
  <2> QED BY <2>1, <2>2
<1>4. ASSUME NoAnswer(ms) PROVE NoAnswer(t) /\ ms[k].kind # "headers"
  BY <1>2, <1>4 DEF NoAnswer
<1>5. ASSUME NEW u, OneAnswer(ms, u)
      PROVE  IF ms[k].kind = "headers" THEN NoAnswer(t) /\ ms[k].upto = u ELSE OneAnswer(t, u)
  <2>1. PICK p \in 1..Len(ms) : /\ ms[p].kind = "headers" /\ ms[p].upto = u
                                /\ \A i \in 1..Len(ms) : i # p => ms[i].kind # "headers"
    BY <1>5 DEF OneAnswer
  <2>2. CASE p = k
    <3>1. NoAnswer(t)
      BY <1>2, <2>1, <2>2 DEF NoAnswer
    <3> QED BY <2>1, <2>2, <3>1
  <2>3. CASE p # k
    <3>1. PICK q \in 1..Len(t) : t[q] = ms[p] /\ p = IF q < k THEN q ELSE q + 1
      BY <1>3, <2>3
    <3>2. ASSUME NEW j \in 1..Len(t), j # q PROVE t[j].kind # "headers"
      <4>1. PICK i \in 1..Len(ms) : t[j] = ms[i] /\ i = IF j < k THEN j ELSE j + 1
        BY <1>2
      <4>2. i # p
        <5>1. \A x, y \in Nat : (IF x < k THEN x ELSE x + 1) = (IF y < k THEN y ELSE y + 1)
                                   => x = y
          BY <1>1
        <5>2. j \in Nat /\ q \in Nat
          BY <1>1
        <5> QED BY <3>1, <3>2, <4>1, <5>1, <5>2
      <4> QED BY <2>1, <4>1, <4>2
    <3>3. OneAnswer(t, u)
      BY <2>1, <3>1, <3>2 DEF OneAnswer
    <3>4. ms[k].kind # "headers"
      BY <2>1, <2>3
    <3> QED BY <3>3, <3>4
  <2> QED BY <2>2, <2>3
<1>6. ASSUME NEW n, Told(ms, n)
      PROVE  Told(t, n) \/ (ms[k].kind = "inv" /\ n \in ms[k].heights)
  <2>1. PICK i \in 1..Len(ms) : ms[i].kind = "inv" /\ n \in ms[i].heights
    BY <1>6 DEF Told
  <2>2. CASE i = k
    BY <2>1, <2>2
  <2>3. CASE i # k
    <3>1. PICK j \in 1..Len(t) : t[j] = ms[i]
      BY <1>3, <2>3
    <3>2. Told(t, n)
      BY <2>1, <3>1 DEF Told
    <3> QED BY <3>2
  <2> QED BY <2>2, <2>3
<1> QED BY <1>4, <1>5, <1>6

(* The messages that a lost connection leaves.                               *)
LEMMA PrefixSent ==
    ASSUME NEW S, NEW ms \in Seq(S), NEW n \in 0..Len(ms)
    PROVE  /\ SubSeq(ms, 1, n) \in Seq(S)
           /\ NoAnswer(ms) => NoAnswer(SubSeq(ms, 1, n))
           /\ \A u : OneAnswer(ms, u) =>
                 NoAnswer(SubSeq(ms, 1, n)) \/ OneAnswer(SubSeq(ms, 1, n), u)
<1> DEFINE t == SubSeq(ms, 1, n)
<1>1. t \in Seq(S) /\ Len(t) = n /\ \A i \in 1..n : t[i] = ms[i]
  <2>1. 1 \in Int /\ n \in Int /\ n \in Nat /\ Len(ms) \in Nat /\ \A i \in 1..n : ms[i] \in S
    OBVIOUS
  <2>2. /\ t \in Seq(S) /\ Len(t) = IF 1 <= n THEN n - 1 + 1 ELSE 0
        /\ \A i \in 1 .. n - 1 + 1 : t[i] = ms[1 + i - 1]
    BY <2>1, SubSeqProperties
  <2> HIDE DEF t
  <2> QED BY <2>1, <2>2
<1>2. \A i \in 1..n : i \in 1..Len(ms)
  OBVIOUS
<1> HIDE DEF t
<1>3. ASSUME NoAnswer(ms) PROVE NoAnswer(t)
  BY <1>1, <1>2, <1>3 DEF NoAnswer
<1>4. ASSUME NEW u, OneAnswer(ms, u) PROVE NoAnswer(t) \/ OneAnswer(t, u)
  <2>1. PICK p \in 1..Len(ms) : /\ ms[p].kind = "headers" /\ ms[p].upto = u
                                /\ \A i \in 1..Len(ms) : i # p => ms[i].kind # "headers"
    BY <1>4 DEF OneAnswer
  <2>2. CASE p \in 1..n
    BY <1>1, <1>2, <2>1, <2>2 DEF OneAnswer
  <2>3. CASE p \notin 1..n
    BY <1>1, <1>2, <2>1, <2>3 DEF NoAnswer
  <2> QED BY <2>2, <2>3
<1> QED BY <1>1, <1>3, <1>4 DEF t

(* What InFlight counts.                                                    *)
LEMMA AnswersCount ==
    ASSUME NEW S, NEW ms \in Seq(S)
    PROVE  /\ NoAnswer(ms) => Cardinality(AnswersIn(ms)) = 0
           /\ \A u : OneAnswer(ms, u) => Cardinality(AnswersIn(ms)) = 1
<1>1. DOMAIN ms = 1..Len(ms)
  OBVIOUS
<1>2. ASSUME NoAnswer(ms) PROVE Cardinality(AnswersIn(ms)) = 0
  <2>1. AnswersIn(ms) = {}
    BY <1>1, <1>2 DEF AnswersIn, NoAnswer
  <2> QED BY <2>1, FS_EmptySet
<1>3. ASSUME NEW u, OneAnswer(ms, u) PROVE Cardinality(AnswersIn(ms)) = 1
  <2>1. PICK k : AnswersIn(ms) = {k}
    BY <1>1, <1>3 DEF AnswersIn, OneAnswer
  <2> QED BY <2>1, FS_Singleton
<1> QED BY <1>2, <1>3

(* The lesser and the greater of two heights.                                *)
LEMMA PairBounds ==
    ASSUME NEW a \in Nat, NEW b \in Nat
    PROVE  /\ Min({a, b}) \in {a, b} /\ Min({a, b}) <= a /\ Min({a, b}) <= b
           /\ Max({a, b}) \in {a, b} /\ a <= Max({a, b}) /\ b <= Max({a, b})
<1>1. \E x \in {a, b} : \A y \in {a, b} : x <= y
  OBVIOUS
<1>2. \E x \in {a, b} : \A y \in {a, b} : x >= y
  OBVIOUS
<1>3. Min({a, b}) \in {a, b} /\ \A y \in {a, b} : Min({a, b}) <= y
  BY <1>1, Zenon DEF Min
<1>4. Max({a, b}) \in {a, b} /\ \A y \in {a, b} : Max({a, b}) >= y
  BY <1>2, Zenon DEF Max
<1> QED BY <1>3, <1>4

(* A list of heights more, or less: what is announced in them.               *)
LEMMA ListedMoves ==
    ASSUME NEW S, NEW hs \in Seq(S)
    PROVE  /\ \A h \in S : /\ \A n : Listed(hs, n) => Listed(Append(hs, h), n)
                           /\ \A n \in h : Listed(Append(hs, h), n)
           /\ hs # <<>> => \A n : Listed(hs, n) => n \in Head(hs) \/ Listed(Tail(hs), n)
<1>1. ASSUME NEW h \in S
      PROVE  /\ \A n : Listed(hs, n) => Listed(Append(hs, h), n)
             /\ \A n \in h : Listed(Append(hs, h), n)
  <2> DEFINE t == Append(hs, h)
  <2>1. /\ Len(t) = Len(hs) + 1 /\ Len(hs) \in Nat /\ t[Len(hs) + 1] = h
        /\ \A i \in 1..Len(hs) : t[i] = hs[i]
    BY AppendProperties
  <2>2. Len(hs) + 1 \in 1..Len(t) /\ \A i \in 1..Len(hs) : i \in 1..Len(t)
    BY <2>1
  <2> HIDE DEF t
  <2> QED BY <2>1, <2>2 DEF Listed, t
<1>2. ASSUME hs # <<>>, NEW n, Listed(hs, n) PROVE n \in Head(hs) \/ Listed(Tail(hs), n)
  <2> DEFINE t == Tail(hs)
  <2>1. /\ Len(hs) \in Nat \ {0} /\ Len(t) = Len(hs) - 1 /\ Head(hs) = hs[1]
        /\ \A i \in 1..Len(t) : t[i] = hs[i + 1]
    BY <1>2, HeadTailProperties, EmptySeq
  <2> HIDE DEF t
  <2>2. PICK i \in 1..Len(hs) : n \in hs[i]
    BY <1>2 DEF Listed
  <2>3. CASE i = 1
    BY <2>1, <2>2, <2>3
  <2>4. CASE i # 1
    <3>1. i - 1 \in 1..Len(t) /\ (i - 1) + 1 = i
      BY <2>1, <2>4
    <3>2. n \in t[i - 1]
      BY <2>1, <2>2, <3>1
    <3> QED BY <3>1, <3>2 DEF Listed, t
  <2> QED BY <2>3, <2>4
<1> QED BY <1>1, <1>2

-----------------------------------------------------------------------------
(* The invariant holds always.                                              *)

(* It holds at the start ...                                                *)
LEMMA SyncStart ==
    ASSUME SyncAssumption, Init
    PROVE  SyncInv
<1>1. /\ MaxRemote \in Nat /\ MaxListings \in Nat /\ MaxLosses \in Nat
      /\ HandlerCount \in Nat \ {0} /\ InvCap \in Nat \ {0} /\ HeadersCap \in Nat \ {0}
  BY DEF SyncAssumption
<1>2. /\ link = "up" /\ losses = 0 /\ listings = 0 /\ remote \in 0..MaxRemote /\ start = remote
      /\ asked = <<>> /\ wire = <<>> /\ invs = <<>> /\ answers = <<>>
      /\ handlers = HandlerCount /\ blocked = <<>> /\ tip = 0 /\ task = "initial" /\ vect = {}
  BY DEF Init, Heights
<1>3. LinkInv
  BY <1>1, <1>2 DEF LinkInv, Heights
<1>4. QueueInv
  BY <1>1, <1>2 DEF QueueInv
<1>5. FlightInv
  BY <1>2 DEF FlightInv, NoneInFlight, NoAnswer, Waits
<1>6. CoverInv
  BY <1>1, <1>2 DEF CoverInv
<1> QED BY <1>3, <1>4, <1>5, <1>6 DEF SyncInv

(* What the steps need of the constants and of the invariant.                *)
LEMMA SyncFacts ==
    ASSUME SyncAssumption, SyncInv
    PROVE  /\ MaxRemote \in Nat /\ MaxLosses \in Nat /\ HandlerCount \in Nat \ {0}
           /\ InvCap \in Nat \ {0} /\ HeadersCap \in Nat \ {0} /\ MaxHeaders \in Nat \ {0}
           /\ losses \in Nat /\ remote \in Nat /\ start \in Nat /\ tip \in Nat
           /\ start <= remote /\ tip <= remote /\ remote <= MaxRemote /\ handlers \in Nat
           /\ wire \in Seq(Sent(remote)) /\ blocked \in Seq(Sent(remote))
           /\ asked \in Seq(0..remote) /\ invs \in Seq(SUBSET (0..remote))
           /\ answers \in Seq(0..remote) /\ vect \subseteq 0..remote
           /\ link # "up" => losses # 0
           /\ LinkInv /\ QueueInv /\ FlightInv /\ CoverInv
<1>1. /\ LinkInv /\ QueueInv /\ FlightInv /\ CoverInv
  BY DEF SyncInv
<1>2. /\ MaxRemote \in Nat /\ MaxLosses \in Nat /\ HandlerCount \in Nat \ {0}
      /\ InvCap \in Nat \ {0} /\ HeadersCap \in Nat \ {0} /\ MaxHeaders \in Nat \ {0}
  BY DEF SyncAssumption
<1>3. /\ wire \in Seq(Sent(remote)) /\ blocked \in Seq(Sent(remote))
      /\ asked \in Seq(0..remote) /\ invs \in Seq(SUBSET (0..remote))
      /\ answers \in Seq(0..remote)
  BY <1>1 DEF QueueInv
<1>4. /\ losses \in Nat /\ remote \in Nat /\ start \in Nat /\ tip \in Nat
      /\ start <= remote /\ tip <= remote /\ remote <= MaxRemote /\ handlers \in Nat
      /\ vect \subseteq 0..remote /\ (link # "up" => losses # 0)
  BY <1>1, <1>2 DEF LinkInv, Heights
<1> QED BY <1>1, <1>2, <1>3, <1>4

(* A message of the node more on the wire, its chain as long or longer.      *)
LEMMA SendSteps ==
    ASSUME SyncAssumption, SyncInv, NEW hs, hs \subseteq 0..remote',
           remote' \in Heights, remote <= remote', listings' \in 0..MaxListings,
           remote + 1 .. remote' \subseteq hs,
           wire' = Append(wire, Inv(hs)), UNCHANGED <<linkVars, asked, queueVars, taskVars>>
    PROVE  SyncInv'
<1>1. /\ link' = link /\ losses' = losses /\ start' = start /\ handlers' = handlers
      /\ asked' = asked /\ blocked' = blocked /\ invs' = invs /\ answers' = answers
      /\ tip' = tip /\ task' = task /\ vect' = vect
  BY DEF linkVars, queueVars, taskVars
<1>2. /\ remote \in Nat /\ remote' \in Nat /\ remote <= remote' /\ start \in Nat /\ tip \in Nat
      /\ start <= remote /\ tip <= remote /\ wire \in Seq(Sent(remote)) /\ vect \subseteq 0..remote
      /\ losses \in Nat /\ MaxHeaders \in Nat
      /\ LinkInv /\ QueueInv /\ FlightInv /\ CoverInv
  BY SyncFacts DEF Heights
<1>3. /\ 0..remote \subseteq 0..remote' /\ Seq(Sent(remote)) \subseteq Seq(Sent(remote'))
      /\ Seq(0..remote) \subseteq Seq(0..remote')
      /\ Seq(SUBSET (0..remote)) \subseteq Seq(SUBSET (0..remote'))
  BY <1>2, SentGrows
<1> DEFINE m == Inv(hs)
<1>4. m \in Sent(remote') /\ m.kind = "inv" /\ m.heights = hs /\ m.kind # "headers"
  BY <1>2, SentIs
<1> HIDE DEF m
<1>5. /\ wire' \in Seq(Sent(remote'))
      /\ NoAnswer(wire) => NoAnswer(wire')
      /\ \A u : OneAnswer(wire, u) => OneAnswer(wire', u)
      /\ \A n : Told(wire, n) => Told(wire', n)
      /\ \A n \in hs : Told(wire', n)
  <2>1. wire' = Append(wire, m) /\ wire \in Seq(Sent(remote'))
    BY <1>2, <1>3 DEF m
  <2> QED BY <1>4, <2>1, AppendSent
<1>6. LinkInv'
  BY <1>1, <1>2, <1>3 DEF LinkInv
<1>7. QueueInv'
  BY <1>1, <1>2, <1>3, <1>5 DEF QueueInv
<1>8. Room' => Room
  BY <1>1, <1>2 DEF Room
<1>9. \A u : Enough(u) => Enough(u)'
  BY <1>1, <1>8 DEF Enough
<1>10. FlightInv'
  <2>1. NoneInFlight => NoneInFlight'
    BY <1>1, <1>5 DEF NoneInFlight
  <2>2. ASSUME OneInFlight PROVE OneInFlight'
    <3>1. CASE asked = <<tip>> /\ NoAnswer(wire) /\ NoAnswer(blocked) /\ answers = <<>>
      BY <1>1, <1>5, <3>1 DEF OneInFlight
    <3>2. ASSUME NEW u \in 0..remote, asked = <<>>, Enough(u),
                 \/ OneAnswer(wire, u) /\ NoAnswer(blocked) /\ answers = <<>>
                 \/ NoAnswer(wire) /\ OneAnswer(blocked, u) /\ answers = <<>>
                 \/ NoAnswer(wire) /\ NoAnswer(blocked) /\ answers = <<u>>
          PROVE  OneInFlight'
      <4>1. /\ u \in 0..remote' /\ asked' = <<>> /\ Enough(u)'
            /\ \/ OneAnswer(wire', u) /\ NoAnswer(blocked') /\ answers' = <<>>
               \/ NoAnswer(wire') /\ OneAnswer(blocked', u) /\ answers' = <<>>
               \/ NoAnswer(wire') /\ NoAnswer(blocked') /\ answers' = <<u>>
        BY <1>1, <1>3, <1>5, <1>9, <3>2
      <4> QED BY <4>1 DEF OneInFlight
    <3> QED BY <2>2, <3>1, <3>2 DEF OneInFlight
  <2> QED BY <1>1, <1>2, <2>1, <2>2 DEF FlightInv
<1>11. CoverInv'
  <2> SUFFICES ASSUME Room', NEW n \in start' + 1 .. remote' PROVE (n <= tip \/ Pending(n))'
    BY DEF CoverInv
  <2>1. CASE n <= remote
    <3>1. n \in start + 1 .. remote
      BY <1>1, <1>2, <2>1
    <3>2. n <= tip \/ Pending(n)
      BY <1>2, <1>8, <3>1 DEF CoverInv
    <3> QED BY <1>1, <1>5, <3>2 DEF Pending
  <2>2. CASE ~(n <= remote)
    <3>1. n \in hs
      BY <1>1, <1>2, <2>2
    <3> QED BY <1>5, <3>1 DEF Pending
  <2> QED BY <2>1, <2>2
<1> QED BY <1>6, <1>7, <1>10, <1>11 DEF SyncInv

(* The node finds blocks and announces them, or lists those it has.          *)
LEMMA InvSteps ==
    ASSUME SyncAssumption, SyncInv, (\E n \in 1..MaxRemote : Announce(n)) \/ Listing
    PROVE  SyncInv'
<1>1. remote \in Nat /\ remote <= MaxRemote /\ MaxRemote \in Nat /\ listings \in 0..MaxListings
      /\ MaxListings \in Nat
  BY SyncFacts DEF LinkInv, SyncAssumption
<1>2. ASSUME NEW n \in 1..MaxRemote, Announce(n) PROVE SyncInv'
  <2> DEFINE hs == remote + 1 .. remote + n
  <2>1. /\ remote' = remote + n /\ remote + n <= MaxRemote /\ listings' = listings
        /\ wire' = Append(wire, Inv(hs)) /\ UNCHANGED <<linkVars, asked, queueVars, taskVars>>
    BY <1>2 DEF Announce
  <2>2. /\ hs \subseteq 0..remote' /\ remote' \in Heights /\ remote <= remote'
        /\ listings' \in 0..MaxListings /\ remote + 1 .. remote' \subseteq hs
    BY <1>1, <2>1 DEF Heights
  <2> HIDE DEF hs
  <2> QED BY <2>1, <2>2, SendSteps
<1>3. ASSUME Listing PROVE SyncInv'
  <2> DEFINE hs == 1 .. remote
  <2>1. /\ remote' = remote /\ listings < MaxListings /\ listings' = listings + 1
        /\ wire' = Append(wire, Inv(hs)) /\ UNCHANGED <<linkVars, asked, queueVars, taskVars>>
    BY <1>3 DEF Listing
  <2>2. /\ hs \subseteq 0..remote' /\ remote' \in Heights /\ remote <= remote'
        /\ listings' \in 0..MaxListings /\ remote + 1 .. remote' \subseteq hs
    BY <1>1, <2>1 DEF Heights
  <2> HIDE DEF hs
  <2> QED BY <2>1, <2>2, SendSteps
<1> QED BY <1>2, <1>3

(* Off the connection the node's chain may grow unseen.                      *)
LEMMA UnseenStep ==
    ASSUME SyncAssumption, SyncInv, FindUnseen
    PROVE  SyncInv'
<1>1. /\ link # "up" /\ remote < MaxRemote /\ remote' = remote + 1 /\ listings' = listings
      /\ link' = link /\ losses' = losses /\ start' = start /\ handlers' = handlers
      /\ asked' = asked /\ wire' = wire
      /\ blocked' = blocked /\ invs' = invs /\ answers' = answers
      /\ tip' = tip /\ task' = task /\ vect' = vect
  BY DEF FindUnseen, linkVars, queueVars, taskVars
<1>2. /\ remote \in Nat /\ MaxRemote \in Nat /\ losses # 0
      /\ LinkInv /\ QueueInv /\ FlightInv /\ CoverInv
  BY <1>1, SyncFacts
<1>3. /\ 0..remote \subseteq 0..remote' /\ Seq(Sent(remote)) \subseteq Seq(Sent(remote'))
      /\ Seq(0..remote) \subseteq Seq(0..remote')
      /\ Seq(SUBSET (0..remote)) \subseteq Seq(SUBSET (0..remote'))
      /\ remote' \in Heights
  <2>1. remote' \in Nat /\ remote <= remote' /\ remote' \in Heights
    BY <1>1, <1>2 DEF Heights
  <2> QED BY <1>2, <2>1, SentGrows
<1>4. LinkInv'
  BY <1>1, <1>2, <1>3 DEF LinkInv
<1>5. QueueInv'
  BY <1>1, <1>2, <1>3 DEF QueueInv
<1>6. ~Room' /\ \A u : Enough(u)'
  BY <1>1, <1>2 DEF Room, Enough
<1>7. FlightInv'
  <2>1. NoneInFlight => NoneInFlight'
    BY <1>1 DEF NoneInFlight
  <2>2. OneInFlight => OneInFlight'
    BY <1>1, <1>3, <1>6 DEF OneInFlight
  <2> QED BY <1>1, <1>2, <2>1, <2>2 DEF FlightInv
<1>8. CoverInv'
  BY <1>6 DEF CoverInv
<1> QED BY <1>4, <1>5, <1>7, <1>8 DEF SyncInv

(* The node answers a request: the answer reaches far enough.                *)
LEMMA AnswerStep ==
    ASSUME SyncAssumption, SyncInv, AnswerHeaders
    PROVE  SyncInv'
<1>1. /\ asked # <<>> /\ asked' = Tail(asked)
      /\ wire' = Append(wire, HeadersMsg(Min({remote, Head(asked) + MaxHeaders})))
      /\ remote' = remote /\ listings' = listings
      /\ link' = link /\ losses' = losses /\ start' = start /\ handlers' = handlers
      /\ blocked' = blocked /\ invs' = invs /\ answers' = answers
      /\ tip' = tip /\ task' = task /\ vect' = vect
  BY DEF AnswerHeaders, nodeVars, linkVars, queueVars, taskVars
<1>2. /\ remote \in Nat /\ start \in Nat /\ tip \in Nat /\ MaxHeaders \in Nat /\ losses \in Nat
      /\ vect \subseteq 0..remote /\ wire \in Seq(Sent(remote))
      /\ LinkInv /\ QueueInv /\ FlightInv /\ CoverInv
  BY SyncFacts
<1>3. /\ asked = <<tip>> /\ NoAnswer(wire) /\ NoAnswer(blocked) /\ answers = <<>>
      /\ task \in Waits /\ (losses = 0 /\ task = "listen_wait" => start <= tip)
  BY <1>1, <1>2 DEF FlightInv, NoneInFlight, OneInFlight, Waits
<1>4. Head(asked) = tip /\ Tail(asked) = <<>>
  BY <1>2, <1>3
<1>5. PICK u \in 0..remote : /\ u = Min({remote, Head(asked) + MaxHeaders})
                             /\ remote <= tip + MaxHeaders => u = remote
  <2>1. \A a, b, c \in Nat : (c = a \/ c = b) /\ c <= a /\ c <= b =>
           c \in 0..a /\ (a <= b => c = a)
    OBVIOUS
  <2>2. tip + MaxHeaders \in Nat
    BY <1>2
  <2> DEFINE w == Min({remote, Head(asked) + MaxHeaders})
  <2>3. w \in {remote, tip + MaxHeaders} /\ w <= remote /\ w <= tip + MaxHeaders
    BY <1>2, <1>4, <2>2, PairBounds
  <2> HIDE DEF w
  <2>4. w \in 0..remote /\ (remote <= tip + MaxHeaders => w = remote)
    BY <1>2, <2>1, <2>2, <2>3
  <2> QED BY <2>4 DEF w
<1> DEFINE m == HeadersMsg(u)
<1>6. m \in Sent(remote) /\ m.kind = "headers" /\ m.upto = u
  BY <1>2, <1>5, SentIs
<1> HIDE DEF m
<1>7. wire' \in Seq(Sent(remote)) /\ OneAnswer(wire', u) /\ \A n : Told(wire, n) => Told(wire', n)
  <2>1. wire' = Append(wire, m)
    BY <1>1, <1>5, Zenon DEF m
  <2> QED BY <1>2, <1>3, <1>6, <2>1, AppendSent
<1>8. Enough(u)'
  <2> SUFFICES ASSUME Room', task' = "listen_wait", NEW v \in vect PROVE v <= u
    BY <1>1 DEF Enough
  <2>1. losses = 0 /\ remote <= start + MaxHeaders /\ start <= tip
    BY <1>1, <1>3 DEF Room
  <2>2. remote <= tip + MaxHeaders
    BY <1>2, <2>1
  <2>3. u = remote
    BY <1>5, <2>2, Zenon
  <2> QED BY <1>2, <2>3
<1>9. LinkInv'
  BY <1>1, <1>2 DEF LinkInv
<1>10. QueueInv'
  BY <1>1, <1>2, <1>4, <1>7 DEF QueueInv
<1>11. FlightInv'
  <2>1. u \in 0..remote' /\ asked' = <<>> /\ Enough(u)'
        /\ OneAnswer(wire', u) /\ NoAnswer(blocked') /\ answers' = <<>>
    BY <1>1, <1>3, <1>4, <1>5, <1>7, <1>8
  <2>2. OneInFlight'
    BY <2>1 DEF OneInFlight
  <2> QED BY <1>1, <1>2, <1>3, <2>2 DEF FlightInv
<1>12. CoverInv'
  BY <1>1, <1>2, <1>7 DEF CoverInv, Room, Pending
<1> QED BY <1>9, <1>10, <1>11, <1>12 DEF SyncInv

(* A message that finds room in its queue.                                   *)
LEMMA PutIs ==
    ASSUME SyncAssumption, SyncInv, NEW m \in Sent(remote), HasRoom(m), Put(m)
    PROVE  /\ invs' \in Seq(SUBSET (0..remote)) /\ Len(invs') <= InvCap
           /\ answers' \in Seq(0..remote) /\ Len(answers') <= HeadersCap
           /\ \A n : Listed(invs, n) => Listed(invs', n)
           /\ m.kind = "inv" => \A n \in m.heights : Listed(invs', n)
           /\ m.kind # "headers" => answers' = answers
           /\ m.kind = "headers" /\ answers = <<>> => answers' = <<m.upto>>
<1>1. /\ remote \in Nat /\ invs \in Seq(SUBSET (0..remote)) /\ answers \in Seq(0..remote)
      /\ InvCap \in Nat /\ HeadersCap \in Nat
      /\ Len(invs) <= InvCap /\ Len(answers) <= HeadersCap
  BY SyncFacts DEF QueueInv
<1>2. CASE m.kind = "inv"
  <2>1. /\ m.heights \in SUBSET (0..remote) /\ m.kind # "headers"
    <3>1. (m.kind = "inv" /\ m.heights \subseteq 0..remote) \/ m.kind = "headers"
      BY <1>1, SentIs
    <3> QED BY <1>2, <3>1
  <2>2. invs' = Append(invs, m.heights) /\ answers' = answers /\ Len(invs) < InvCap
    BY <1>2, <2>1 DEF Put, HasRoom
  <2>3. invs' \in Seq(SUBSET (0..remote)) /\ Len(invs') = Len(invs) + 1 /\ Len(invs) \in Nat
    <3> DEFINE h == m.heights
    <3>1. h \in SUBSET (0..remote) /\ invs' = Append(invs, h)
      BY <2>1, <2>2
    <3> HIDE DEF h
    <3> QED BY <1>1, <3>1, AppendProperties
  <2>4. /\ \A n : Listed(invs, n) => Listed(invs', n)
        /\ \A n \in m.heights : Listed(invs', n)
    BY <1>1, <2>1, <2>2, ListedMoves
  <2>5. Len(invs') <= InvCap
    BY <1>1, <2>2, <2>3
  <2> QED BY <1>1, <2>1, <2>2, <2>3, <2>4, <2>5
<1>3. CASE m.kind # "inv"
  <2>1. m.kind = "headers" /\ m.upto \in 0..remote
    BY <1>1, <1>3, SentIs
  <2>2. invs' = invs /\ answers' = Append(answers, m.upto) /\ Len(answers) < HeadersCap
    BY <1>3, <2>1 DEF Put, HasRoom
  <2>3. answers' \in Seq(0..remote) /\ Len(answers') = Len(answers) + 1 /\ Len(answers) \in Nat
    <3> DEFINE h == m.upto
    <3>1. h \in 0..remote /\ answers' = Append(answers, h)
      BY <2>1, <2>2
    <3> HIDE DEF h
    <3> QED BY <1>1, <3>1, AppendProperties
  <2>4. answers = <<>> => answers' = <<m.upto>>
    BY <2>2
  <2>5. Len(answers') <= HeadersCap
    BY <1>1, <2>2, <2>3
  <2> QED BY <1>1, <1>3, <2>1, <2>2, <2>3, <2>4, <2>5
<1> QED BY <1>2, <1>3

(* A message moves on, from the wire or from a handler that waits, to its    *)
(* queue or to a handler that waits: nothing is lost on the way.             *)
LEMMA Moves ==
    ASSUME SyncAssumption, SyncInv,
           UNCHANGED <<nodeVars, linkVars, asked, taskVars>>,
           wire' \in Seq(Sent(remote)), blocked' \in Seq(Sent(remote)),
           Len(blocked') <= handlers,
           invs' \in Seq(SUBSET (0..remote)), Len(invs') <= InvCap,
           answers' \in Seq(0..remote), Len(answers') <= HeadersCap,
           NoAnswer(wire) /\ NoAnswer(blocked) =>
              NoAnswer(wire') /\ NoAnswer(blocked') /\ answers' = answers,
           \A u : \/ OneAnswer(wire, u) /\ NoAnswer(blocked) /\ answers = <<>>
                  \/ NoAnswer(wire) /\ OneAnswer(blocked, u) /\ answers = <<>>
                  => \/ OneAnswer(wire', u) /\ NoAnswer(blocked') /\ answers' = <<>>
                     \/ NoAnswer(wire') /\ OneAnswer(blocked', u) /\ answers' = <<>>
                     \/ NoAnswer(wire') /\ NoAnswer(blocked') /\ answers' = <<u>>,
           \A n : Told(wire, n) \/ Told(blocked, n) \/ Listed(invs, n) =>
                  Told(wire', n) \/ Told(blocked', n) \/ Listed(invs', n)
    PROVE  SyncInv'
<1>1. /\ remote' = remote /\ listings' = listings
      /\ link' = link /\ losses' = losses /\ start' = start /\ handlers' = handlers
      /\ asked' = asked /\ tip' = tip /\ task' = task /\ vect' = vect
  BY DEF nodeVars, linkVars, taskVars
<1>2. LinkInv /\ QueueInv /\ FlightInv /\ CoverInv
  BY DEF SyncInv
<1>3. LinkInv'
  BY <1>1, <1>2 DEF LinkInv
<1>4. QueueInv'
  BY <1>1, <1>2 DEF QueueInv
<1>5. FlightInv'
  <2>1. NoneInFlight => NoneInFlight'
    BY <1>1 DEF NoneInFlight
  <2>2. ASSUME OneInFlight PROVE OneInFlight'
    <3>1. CASE asked = <<tip>> /\ NoAnswer(wire) /\ NoAnswer(blocked) /\ answers = <<>>
      BY <1>1, <3>1 DEF OneInFlight
    <3>2. ASSUME NEW u \in 0..remote, asked = <<>>, Enough(u),
                 \/ OneAnswer(wire, u) /\ NoAnswer(blocked) /\ answers = <<>>
                 \/ NoAnswer(wire) /\ OneAnswer(blocked, u) /\ answers = <<>>
                 \/ NoAnswer(wire) /\ NoAnswer(blocked) /\ answers = <<u>>
          PROVE  OneInFlight'
      <4>1. u \in 0..remote' /\ asked' = <<>> /\ Enough(u)'
        BY <1>1, <3>2 DEF Enough, Room
      <4>2. \/ OneAnswer(wire', u) /\ NoAnswer(blocked') /\ answers' = <<>>
            \/ NoAnswer(wire') /\ OneAnswer(blocked', u) /\ answers' = <<>>
            \/ NoAnswer(wire') /\ NoAnswer(blocked') /\ answers' = <<u>>
        BY <3>2
      <4> QED BY <4>1, <4>2 DEF OneInFlight
    <3> QED BY <2>2, <3>1, <3>2 DEF OneInFlight
  <2> QED BY <1>1, <1>2, <2>1, <2>2 DEF FlightInv
<1>6. CoverInv'
  BY <1>1, <1>2 DEF CoverInv, Room, Pending
<1> QED BY <1>3, <1>4, <1>5, <1>6 DEF SyncInv

(* on_inv() and on_headers().                                               *)
LEMMA HandleStep ==
    ASSUME SyncAssumption, SyncInv, Handle
    PROVE  SyncInv'
<1>1. /\ wire # <<>> /\ Len(blocked) < handlers /\ wire' = Tail(wire)
      /\ UNCHANGED <<nodeVars, linkVars, asked, taskVars>>
      /\ \/ HasRoom(Head(wire)) /\ Put(Head(wire)) /\ blocked' = blocked
         \/ blocked' = Append(blocked, Head(wire)) /\ invs' = invs /\ answers' = answers
  BY DEF Handle
<1>2. /\ remote \in Nat /\ wire \in Seq(Sent(remote)) /\ blocked \in Seq(Sent(remote))
      /\ handlers \in Nat /\ Len(blocked) \in Nat
      /\ invs \in Seq(SUBSET (0..remote)) /\ Len(invs) <= InvCap
      /\ answers \in Seq(0..remote) /\ Len(answers) <= HeadersCap
  BY SyncFacts DEF QueueInv
<1> DEFINE m == Head(wire)
<1>3. /\ wire' \in Seq(Sent(remote)) /\ Without(wire', wire, 1) /\ 1 \in 1..Len(wire)
      /\ m = wire[1] /\ m \in Sent(remote)
  BY <1>1, <1>2, TailWithout
<1>4. /\ NoAnswer(wire) => NoAnswer(wire') /\ wire[1].kind # "headers"
      /\ \A u : OneAnswer(wire, u) =>
            IF wire[1].kind = "headers" THEN NoAnswer(wire') /\ wire[1].upto = u
            ELSE OneAnswer(wire', u)
      /\ \A n : Told(wire, n) => \/ Told(wire', n)
                                 \/ wire[1].kind = "inv" /\ n \in wire[1].heights
  BY <1>2, <1>3, WithoutSent
<1>5. /\ NoAnswer(wire) => NoAnswer(wire') /\ m.kind # "headers"
      /\ \A u : OneAnswer(wire, u) =>
            IF m.kind = "headers" THEN NoAnswer(wire') /\ m.upto = u ELSE OneAnswer(wire', u)
      /\ \A n : Told(wire, n) => Told(wire', n) \/ (m.kind = "inv" /\ n \in m.heights)
  BY <1>3, <1>4
<1> HIDE DEF m
<1>6. CASE HasRoom(m) /\ Put(m) /\ blocked' = blocked
  <2>1. /\ invs' \in Seq(SUBSET (0..remote)) /\ Len(invs') <= InvCap
        /\ answers' \in Seq(0..remote) /\ Len(answers') <= HeadersCap
        /\ \A n : Listed(invs, n) => Listed(invs', n)
        /\ m.kind = "inv" => \A n \in m.heights : Listed(invs', n)
        /\ m.kind # "headers" => answers' = answers
        /\ m.kind = "headers" /\ answers = <<>> => answers' = <<m.upto>>
    BY <1>3, <1>6, PutIs
  <2>2. \A u : \/ OneAnswer(wire, u) /\ NoAnswer(blocked) /\ answers = <<>>
               \/ NoAnswer(wire) /\ OneAnswer(blocked, u) /\ answers = <<>>
               => \/ OneAnswer(wire', u) /\ NoAnswer(blocked') /\ answers' = <<>>
                  \/ NoAnswer(wire') /\ OneAnswer(blocked', u) /\ answers' = <<>>
                  \/ NoAnswer(wire') /\ NoAnswer(blocked') /\ answers' = <<u>>
    BY <1>5, <1>6, <2>1
  <2>3. NoAnswer(wire) /\ NoAnswer(blocked) =>
           NoAnswer(wire') /\ NoAnswer(blocked') /\ answers' = answers
    BY <1>5, <1>6, <2>1
  <2>4. \A n : Told(wire, n) \/ Told(blocked, n) \/ Listed(invs, n) =>
               Told(wire', n) \/ Told(blocked', n) \/ Listed(invs', n)
    BY <1>5, <1>6, <2>1
  <2>5. blocked' \in Seq(Sent(remote)) /\ Len(blocked') <= handlers
    BY <1>1, <1>2, <1>6
  <2> QED BY <1>1, <1>3, <2>1, <2>2, <2>3, <2>4, <2>5, Moves
<1>7. CASE blocked' = Append(blocked, m) /\ invs' = invs /\ answers' = answers
  <2>1. /\ blocked' \in Seq(Sent(remote)) /\ Len(blocked') = Len(blocked) + 1
        /\ m.kind # "headers" => /\ NoAnswer(blocked) => NoAnswer(blocked')
                                 /\ \A u : OneAnswer(blocked, u) => OneAnswer(blocked', u)
        /\ m.kind = "headers" /\ NoAnswer(blocked) => OneAnswer(blocked', m.upto)
        /\ \A n : Told(blocked, n) => Told(blocked', n)
        /\ m.kind = "inv" => \A n \in m.heights : Told(blocked', n)
    BY <1>2, <1>3, <1>7, AppendSent
  <2>2. \A u : \/ OneAnswer(wire, u) /\ NoAnswer(blocked) /\ answers = <<>>
               \/ NoAnswer(wire) /\ OneAnswer(blocked, u) /\ answers = <<>>
               => \/ OneAnswer(wire', u) /\ NoAnswer(blocked') /\ answers' = <<>>
                  \/ NoAnswer(wire') /\ OneAnswer(blocked', u) /\ answers' = <<>>
                  \/ NoAnswer(wire') /\ NoAnswer(blocked') /\ answers' = <<u>>
    BY <1>5, <1>7, <2>1
  <2>3. NoAnswer(wire) /\ NoAnswer(blocked) =>
           NoAnswer(wire') /\ NoAnswer(blocked') /\ answers' = answers
    BY <1>5, <1>7, <2>1
  <2>4. \A n : Told(wire, n) \/ Told(blocked, n) \/ Listed(invs, n) =>
               Told(wire', n) \/ Told(blocked', n) \/ Listed(invs', n)
    BY <1>5, <1>7, <2>1
  <2>5. Len(blocked') <= handlers
    BY <1>1, <1>2, <2>1
  <2> QED BY <1>1, <1>2, <1>3, <1>7, <2>1, <2>2, <2>3, <2>4, <2>5, Moves
<1> QED BY <1>1, <1>6, <1>7 DEF m

(* A handler that waits in put() finds room.                                 *)
LEMMA UnblockStep ==
    ASSUME SyncAssumption, SyncInv, Unblock
    PROVE  SyncInv'
<1>1. PICK i \in DOMAIN blocked :
        /\ HasRoom(blocked[i]) /\ Put(blocked[i]) /\ blocked' = RemoveAt(blocked, i)
        /\ UNCHANGED <<nodeVars, linkVars, asked, wire, taskVars>>
  BY DEF Unblock
<1>2. /\ remote \in Nat /\ wire \in Seq(Sent(remote)) /\ blocked \in Seq(Sent(remote))
      /\ handlers \in Nat /\ Len(blocked) <= handlers /\ Len(blocked) \in Nat
      /\ i \in 1..Len(blocked) /\ blocked[i] \in Sent(remote)
  BY SyncFacts DEF QueueInv
<1> DEFINE m == blocked[i]
<1>3. blocked' \in Seq(Sent(remote)) /\ Without(blocked', blocked, i)
  BY <1>1, <1>2, RemoveWithout
<1>4. /\ NoAnswer(blocked) => NoAnswer(blocked') /\ m.kind # "headers"
      /\ \A u : OneAnswer(blocked, u) =>
            IF m.kind = "headers" THEN NoAnswer(blocked') /\ m.upto = u
            ELSE OneAnswer(blocked', u)
      /\ \A n : Told(blocked, n) => \/ Told(blocked', n)
                                    \/ m.kind = "inv" /\ n \in m.heights
  BY <1>2, <1>3, WithoutSent
<1>5. /\ HasRoom(m) /\ Put(m) /\ m \in Sent(remote) /\ wire' = wire
      /\ UNCHANGED <<nodeVars, linkVars, asked, taskVars>>
  BY <1>1, <1>2
<1> HIDE DEF m
<1>6. /\ invs' \in Seq(SUBSET (0..remote)) /\ Len(invs') <= InvCap
      /\ answers' \in Seq(0..remote) /\ Len(answers') <= HeadersCap
      /\ \A n : Listed(invs, n) => Listed(invs', n)
      /\ m.kind = "inv" => \A n \in m.heights : Listed(invs', n)
      /\ m.kind # "headers" => answers' = answers
      /\ m.kind = "headers" /\ answers = <<>> => answers' = <<m.upto>>
  BY <1>5, PutIs
<1>7. \A u : \/ OneAnswer(wire, u) /\ NoAnswer(blocked) /\ answers = <<>>
             \/ NoAnswer(wire) /\ OneAnswer(blocked, u) /\ answers = <<>>
             => \/ OneAnswer(wire', u) /\ NoAnswer(blocked') /\ answers' = <<>>
                \/ NoAnswer(wire') /\ OneAnswer(blocked', u) /\ answers' = <<>>
                \/ NoAnswer(wire') /\ NoAnswer(blocked') /\ answers' = <<u>>
  BY <1>4, <1>5, <1>6
<1>8. NoAnswer(wire) /\ NoAnswer(blocked) =>
         NoAnswer(wire') /\ NoAnswer(blocked') /\ answers' = answers
  BY <1>4, <1>5, <1>6
<1>9. \A n : Told(wire, n) \/ Told(blocked, n) \/ Listed(invs, n) =>
             Told(wire', n) \/ Told(blocked', n) \/ Listed(invs', n)
  BY <1>4, <1>5, <1>6
<1>10. Len(blocked') <= handlers
  BY <1>2, <1>3 DEF Without
<1> QED BY <1>2, <1>3, <1>5, <1>6, <1>7, <1>8, <1>9, <1>10, Moves

(* The connection is lost, with the request or part of the messages.         *)
LEMMA LoseStep ==
    ASSUME SyncAssumption, SyncInv, Lose
    PROVE  SyncInv'
<1>1. /\ link = "up" /\ losses < MaxLosses /\ link' = "closed" /\ losses' = losses + 1
      /\ asked' = <<>> /\ remote' = remote /\ listings' = listings /\ start' = start
      /\ invs' = invs /\ answers' = answers /\ tip' = tip /\ task' = task /\ vect' = vect
      /\ \/ handlers' = handlers /\ blocked' = blocked
         \/ handlers' = 0 /\ blocked' = <<>>
  BY DEF Lose, nodeVars, taskVars
<1>2. PICK n \in 0 .. Len(wire) : wire' = SubSeq(wire, 1, n)
  BY DEF Lose
<1>3. /\ remote \in Nat /\ losses \in Nat /\ MaxLosses \in Nat /\ HandlerCount \in Nat \ {0}
      /\ wire \in Seq(Sent(remote)) /\ handlers \in Nat
      /\ LinkInv /\ QueueInv /\ FlightInv /\ CoverInv
  BY SyncFacts
<1>4. /\ wire' \in Seq(Sent(remote)) /\ (NoAnswer(wire) => NoAnswer(wire'))
      /\ \A u : OneAnswer(wire, u) => NoAnswer(wire') \/ OneAnswer(wire', u)
  BY <1>2, <1>3, PrefixSent
<1>5. losses' # 0 /\ ~Room' /\ \A u : Enough(u)'
  BY <1>1, <1>3 DEF Room, Enough
<1>6. LinkInv'
  <2>1. handlers <= (losses + 1) * HandlerCount
    BY <1>1, <1>3 DEF LinkInv
  <2>2. 0 <= (losses + 1) * HandlerCount
    BY <1>3, <2>1
  <2>3. (losses' + (IF link' = "up" THEN 1 ELSE 0)) * HandlerCount = (losses + 1) * HandlerCount
    <3>1. losses' + (IF link' = "up" THEN 1 ELSE 0) = losses + 1
      BY <1>1, <1>3
    <3> QED BY <3>1
  <2>4. handlers' \in Nat /\ handlers' <= (losses + 1) * HandlerCount
    BY <1>1, <1>3, <2>1, <2>2
  <2>5. losses' \in 0..MaxLosses
    BY <1>1, <1>3
  <2> QED BY <1>1, <1>3, <1>5, <2>3, <2>4, <2>5 DEF LinkInv
<1>7. QueueInv'
  <2>1. blocked' \in Seq(Sent(remote)) /\ Len(blocked') <= handlers'
    <3>1. blocked \in Seq(Sent(remote)) /\ Len(blocked) <= handlers
      BY <1>3 DEF QueueInv
    <3>2. <<>> \in Seq(Sent(remote)) /\ Len(<<>>) <= 0
      OBVIOUS
    <3>3. Len(blocked') <= handlers'
      BY <1>1, <3>1, <3>2, Zenon
    <3> QED BY <1>1, <3>1, <3>2, <3>3
  <2>2. <<>> \in Seq(0..remote)
    OBVIOUS
  <2> QED BY <1>1, <1>3, <1>4, <2>1, <2>2 DEF QueueInv
<1>8. FlightInv'
  <2>1. NoAnswer(blocked) => NoAnswer(blocked')
    BY <1>1 DEF NoAnswer
  <2>2. \A u : OneAnswer(blocked, u) => NoAnswer(blocked') \/ OneAnswer(blocked', u)
    BY <1>1 DEF NoAnswer
  <2>3. NoneInFlight => NoneInFlight'
    BY <1>1, <1>4, <2>1 DEF NoneInFlight
  <2>4. ASSUME OneInFlight PROVE NoneInFlight' \/ OneInFlight'
    <3>1. CASE asked = <<tip>> /\ NoAnswer(wire) /\ NoAnswer(blocked) /\ answers = <<>>
      BY <1>1, <1>4, <2>1, <3>1 DEF NoneInFlight
    <3>2. ASSUME NEW u \in 0..remote,
                 \/ OneAnswer(wire, u) /\ NoAnswer(blocked) /\ answers = <<>>
                 \/ NoAnswer(wire) /\ OneAnswer(blocked, u) /\ answers = <<>>
                 \/ NoAnswer(wire) /\ NoAnswer(blocked) /\ answers = <<u>>
          PROVE  NoneInFlight' \/ OneInFlight'
      <4>1. u \in 0..remote' /\ asked' = <<>> /\ Enough(u)'
        BY <1>1, <1>5
      <4>2. \/ NoAnswer(wire') /\ NoAnswer(blocked') /\ answers' = <<>>
            \/ OneAnswer(wire', u) /\ NoAnswer(blocked') /\ answers' = <<>>
            \/ NoAnswer(wire') /\ OneAnswer(blocked', u) /\ answers' = <<>>
            \/ NoAnswer(wire') /\ NoAnswer(blocked') /\ answers' = <<u>>
        BY <1>1, <1>4, <2>1, <2>2, <3>2
      <4> QED BY <4>1, <4>2 DEF OneInFlight, NoneInFlight
    <3> QED BY <2>4, <3>1, <3>2 DEF OneInFlight
  <2> QED BY <1>1, <1>3, <1>5, <2>3, <2>4 DEF FlightInv
<1>9. CoverInv'
  BY <1>5 DEF CoverInv
<1> QED BY <1>6, <1>7, <1>8, <1>9 DEF SyncInv

(* reset_connection_state(), and a connection anew.                          *)
LEMMA BackSteps ==
    ASSUME SyncAssumption, SyncInv, Reset \/ Reconnect
    PROVE  SyncInv'
<1>1. /\ link # "up" /\ losses' = losses /\ remote' = remote /\ listings' = listings
      /\ asked' = asked /\ wire' = wire
      /\ blocked' = blocked /\ invs' = invs /\ answers' = answers
      /\ tip' = tip /\ task' = task /\ vect' = vect
  BY DEF Reset, Reconnect, nodeVars, queueVars, taskVars
<1>2. /\ remote \in Nat /\ losses \in Nat /\ losses # 0 /\ HandlerCount \in Nat \ {0}
      /\ handlers \in Nat /\ Len(blocked) \in Nat
      /\ LinkInv /\ QueueInv /\ FlightInv /\ CoverInv
  BY <1>1, SyncFacts
<1>3. /\ link' \in {"up", "closed", "none"} /\ start' \in 0..remote
      /\ handlers' \in Nat /\ handlers <= handlers'
      /\ handlers' <= (losses + (IF link' = "up" THEN 1 ELSE 0)) * HandlerCount
  <2>1. handlers <= losses * HandlerCount
    <3>1. losses + (IF link = "up" THEN 1 ELSE 0) = losses
      BY <1>1, <1>2
    <3> QED BY <1>2, <3>1 DEF LinkInv
  <2>2. CASE Reset
    <3>1. /\ link' = "none" /\ handlers' = handlers /\ start' = start
          /\ losses + (IF link' = "up" THEN 1 ELSE 0) = losses
      BY <1>2, <2>2 DEF Reset
    <3> QED BY <1>2, <2>1, <3>1 DEF LinkInv
  <2>3. CASE Reconnect
    <3>1. /\ link' = "up" /\ handlers' = handlers + HandlerCount /\ start' = remote
          /\ losses + (IF link' = "up" THEN 1 ELSE 0) = losses + 1
      BY <1>2, <2>3 DEF Reconnect
    <3>2. (losses + 1) * HandlerCount = losses * HandlerCount + HandlerCount
      BY <1>2
    <3>3. losses * HandlerCount \in Nat
      BY <1>2
    <3> QED BY <1>2, <2>1, <3>1, <3>2, <3>3
  <2> QED BY <2>2, <2>3
<1>4. ~Room' /\ \A u : Enough(u)'
  BY <1>1, <1>2 DEF Room, Enough
<1>5. LinkInv'
  BY <1>1, <1>2, <1>3 DEF LinkInv
<1>6. QueueInv'
  <2>1. Len(blocked') <= handlers'
    BY <1>1, <1>2, <1>3 DEF QueueInv
  <2> QED BY <1>1, <1>2, <2>1 DEF QueueInv
<1>7. FlightInv'
  <2>1. NoneInFlight => NoneInFlight'
    BY <1>1 DEF NoneInFlight
  <2>2. OneInFlight => OneInFlight'
    BY <1>1, <1>4 DEF OneInFlight
  <2> QED BY <1>1, <1>2, <2>1, <2>2 DEF FlightInv
<1>8. CoverInv'
  BY <1>4 DEF CoverInv
<1> QED BY <1>5, <1>6, <1>7, <1>8 DEF SyncInv
(* get_max_headers() sends a request when none is under way.                 *)
LEMMA RequestSteps ==
    ASSUME SyncAssumption, SyncInv, InitialRequest \/ ListenRequest
    PROVE  SyncInv'
<1>1. /\ losses' = losses /\ remote' = remote /\ listings' = listings /\ link' = link
      /\ start' = start /\ handlers' = handlers /\ wire' = wire
      /\ blocked' = blocked /\ invs' = invs /\ answers' = answers
      /\ tip' = tip /\ vect' = vect
      /\ asked' = (IF link = "up" THEN Append(asked, tip) ELSE asked)
  BY DEF InitialRequest, ListenRequest, Request, nodeVars, linkVars, queueVars
<1>2. /\ \/ task = "initial" /\ task' = IF link = "none" THEN "dead" ELSE "initial_wait"
         \/ task = "listen" /\ task' = IF link = "none" THEN "dead" ELSE "listen_wait"
      /\ task \notin Waits /\ (task' = "listen_wait" => task = "listen")
  BY DEF InitialRequest, ListenRequest, Request, Waits
<1>3. /\ remote \in Nat /\ tip \in 0..remote /\ (link # "up" => losses # 0)
      /\ LinkInv /\ QueueInv /\ FlightInv /\ CoverInv
  BY SyncFacts
<1>4. NoneInFlight /\ (losses = 0 /\ task = "listen" => start <= tip)
  BY <1>2, <1>3 DEF FlightInv
<1>5. asked = <<>> /\ NoAnswer(wire) /\ NoAnswer(blocked) /\ answers = <<>>
  BY <1>4 DEF NoneInFlight
<1>6. asked' = <<tip>> \/ (asked' = <<>> /\ link # "up")
  BY <1>1, <1>5
<1>7. LinkInv'
  BY <1>1, <1>2, <1>3 DEF LinkInv, Waits
<1>8. QueueInv'
  <2>1. asked' \in Seq(0..remote)
    <3>1. <<tip>> \in Seq(0..remote) /\ <<>> \in Seq(0..remote)
      BY <1>3
    <3> QED BY <1>6, <3>1, Zenon
  <2> QED BY <1>1, <1>3, <2>1 DEF QueueInv
<1>9. FlightInv'
  <2>1. losses' = 0 /\ task' \in {"listen", "listen_wait"} => start' <= tip'
    BY <1>1, <1>2, <1>4
  <2>2. CASE link = "up"
    <3>1. asked' = <<tip'>> /\ NoAnswer(wire') /\ NoAnswer(blocked') /\ answers' = <<>>
      BY <1>1, <1>5, <2>2
    <3>2. task' \in Waits
      BY <1>2, <2>2 DEF Waits
    <3> QED BY <2>1, <3>1, <3>2 DEF FlightInv, OneInFlight
  <2>3. CASE link # "up"
    <3>1. asked' = <<>> /\ NoAnswer(wire') /\ NoAnswer(blocked') /\ answers' = <<>>
      BY <1>1, <1>5, <2>3
    <3>2. losses' # 0
      BY <1>1, <1>3, <2>3
    <3> QED BY <2>1, <3>1, <3>2 DEF FlightInv, NoneInFlight
  <2> QED BY <2>2, <2>3
<1>10. CoverInv'
  BY <1>1, <1>3 DEF CoverInv, Room, Pending
<1> QED BY <1>7, <1>8, <1>9, <1>10 DEF SyncInv

(* The answer comes, and is the one to the request that was made.            *)
LEMMA AnsweredSteps ==
    ASSUME SyncAssumption, SyncInv, InitialAnswer \/ ListenAnswer
    PROVE  SyncInv'
<1>1. /\ losses' = losses /\ remote' = remote /\ listings' = listings /\ link' = link
      /\ start' = start /\ handlers' = handlers /\ asked' = asked /\ wire' = wire
      /\ blocked' = blocked /\ invs' = invs
      /\ answers # <<>> /\ answers' = Tail(answers) /\ tip' = Max({tip, Head(answers)})
      /\ \/ task = "initial_wait" /\ task' = "initial" /\ vect' = vect
         \/ task = "listen_wait" /\ task' = "listen" /\ vect' = Missing(vect \ {Min(vect)}, tip')
  BY DEF InitialAnswer, ListenAnswer, nodeVars, linkVars
<1>2. /\ remote \in Nat /\ tip \in Nat /\ tip <= remote /\ start \in Nat /\ vect \subseteq 0..remote
      /\ LinkInv /\ QueueInv /\ FlightInv /\ CoverInv
  BY SyncFacts
<1>3. OneInFlight /\ task \in Waits
  BY <1>1, <1>2 DEF FlightInv, NoneInFlight
<1>4. PICK u \in 0..remote :
        asked = <<>> /\ Enough(u) /\ NoAnswer(wire) /\ NoAnswer(blocked) /\ answers = <<u>>
  BY <1>1, <1>3 DEF OneInFlight
<1>5. Head(answers) = u /\ Tail(answers) = <<>> /\ u \in Nat
  BY <1>2, <1>4
<1>6. tip' \in 0..remote /\ tip <= tip' /\ u <= tip'
  <2>1. /\ Max({tip, u}) \in {tip, u} /\ tip <= Max({tip, u}) /\ u <= Max({tip, u})
    BY <1>2, <1>5, PairBounds
  <2>2. tip' \in {tip, u} /\ tip <= tip' /\ u <= tip'
    BY <1>1, <1>5, <2>1, Zenon
  <2> QED BY <1>2, <2>2
<1>7. vect' \subseteq vect
  BY <1>1 DEF Missing
<1>8. LinkInv'
  BY <1>1, <1>2, <1>6, <1>7 DEF LinkInv
<1>9. QueueInv'
  <2>1. answers' = <<>> /\ <<>> \in Seq(0..remote) /\ Len(<<>>) = 0
    BY <1>1, <1>5
  <2>2. Len(answers') <= HeadersCap
    BY <2>1 DEF SyncAssumption
  <2> QED BY <1>1, <1>2, <2>1, <2>2 DEF QueueInv
<1>10. FlightInv'
  <2>1. NoneInFlight'
    BY <1>1, <1>4, <1>5 DEF NoneInFlight
  <2>2. task' \notin Waits
    BY <1>1 DEF Waits
  <2>3. losses' = 0 /\ task' \in {"listen", "listen_wait"} => start' <= tip'
    <3>1. ASSUME losses = 0, task' = "listen" PROVE start <= tip'
      <4>1. start <= tip
        BY <1>1, <1>2, <3>1 DEF FlightInv
      <4> QED BY <1>2, <1>6, <4>1
    <3> QED BY <1>1, <3>1
  <2> QED BY <2>1, <2>2, <2>3 DEF FlightInv
<1>11. CoverInv'
  <2> SUFFICES ASSUME Room, NEW n \in start + 1 .. remote PROVE n <= tip' \/ Pending(n)'
    BY <1>1 DEF CoverInv, Room
  <2>1. n \in Nat /\ (n <= tip \/ Pending(n))
    BY <1>2 DEF CoverInv
  <2>2. CASE n <= tip
    BY <1>2, <1>6, <2>1, <2>2
  <2>3. CASE Told(wire, n) \/ Told(blocked, n) \/ Listed(invs, n)
    BY <1>1, <2>3 DEF Pending
  <2>4. CASE n \in vect
    <3>1. CASE task = "initial_wait"
      BY <1>1, <2>4, <3>1 DEF Pending
    <3>2. CASE task = "listen_wait"
      <4>1. n <= u
        BY <1>4, <2>4, <3>2 DEF Enough
      <4> QED BY <1>2, <1>5, <1>6, <2>1, <4>1
    <3> QED BY <1>1, <3>1, <3>2
  <2> QED BY <2>1, <2>2, <2>3, <2>4 DEF Pending
<1> QED BY <1>8, <1>9, <1>10, <1>11 DEF SyncInv

(* The task begins to listen, or takes an inv message and keeps of it what   *)
(* the store does not have.                                                 *)
LEMMA ListenSteps ==
    ASSUME SyncAssumption, SyncInv, InitialDone \/ TakeInv
    PROVE  SyncInv'
<1>1. /\ losses' = losses /\ remote' = remote /\ listings' = listings /\ link' = link
      /\ start' = start /\ handlers' = handlers /\ asked' = asked /\ wire' = wire
      /\ blocked' = blocked /\ answers' = answers /\ tip' = tip
      /\ task \in {"initial", "listen"} /\ task' = "listen"
  BY DEF InitialDone, TakeInv, nodeVars, linkVars, queueVars
<1>2. \/ task = "initial" /\ start <= tip /\ invs' = invs /\ vect' = vect
      \/ /\ task = "listen" /\ invs # <<>> /\ vect = {}
         /\ invs' = Tail(invs) /\ vect' = Missing(Head(invs), tip)
  <2>1. tip \in Nat /\ start \in Nat
    BY SyncFacts
  <2> QED BY <2>1 DEF InitialDone, TakeInv, queueVars
<1>3. /\ remote \in Nat /\ tip \in Nat /\ start \in Nat /\ vect \subseteq 0..remote
      /\ invs \in Seq(SUBSET (0..remote)) /\ Len(invs) <= InvCap /\ InvCap \in Nat
      /\ LinkInv /\ QueueInv /\ FlightInv /\ CoverInv
  BY SyncFacts DEF QueueInv
<1>4. invs' \in Seq(SUBSET (0..remote)) /\ Len(invs') <= InvCap /\ vect' \subseteq 0..remote
  <2>1. CASE invs' = invs /\ vect' = vect
    BY <1>3, <2>1
  <2>2. CASE invs # <<>> /\ invs' = Tail(invs) /\ vect' = Missing(Head(invs), tip)
    <3>1. /\ Head(invs) \in SUBSET (0..remote) /\ Tail(invs) \in Seq(SUBSET (0..remote))
          /\ Len(Tail(invs)) = Len(invs) - 1 /\ Len(invs) \in Nat
      BY <1>3, <2>2, HeadTailProperties
    <3> QED BY <1>3, <2>2, <3>1 DEF Missing
  <2> QED BY <1>2, <2>1, <2>2
<1>5. LinkInv'
  BY <1>1, <1>3, <1>4 DEF LinkInv
<1>6. QueueInv'
  BY <1>1, <1>3, <1>4 DEF QueueInv
<1>7. FlightInv'
  <2>1. task \notin Waits /\ task' \notin Waits
    BY <1>1 DEF Waits
  <2>2. NoneInFlight /\ (losses = 0 => start <= tip)
    BY <1>2, <1>3, <2>1 DEF FlightInv
  <2>3. NoneInFlight'
    BY <1>1, <2>2 DEF NoneInFlight
  <2> QED BY <1>1, <2>1, <2>2, <2>3 DEF FlightInv
<1>8. CoverInv'
  <2> SUFFICES ASSUME Room, NEW n \in start + 1 .. remote PROVE n <= tip \/ Pending(n)'
    BY <1>1 DEF CoverInv, Room
  <2>1. n \in Nat /\ (n <= tip \/ Pending(n))
    BY <1>3 DEF CoverInv
  <2>2. CASE invs' = invs /\ vect' = vect
    BY <1>1, <2>1, <2>2 DEF Pending
  <2>3. CASE /\ invs # <<>> /\ vect = {} /\ invs' = Tail(invs)
             /\ vect' = Missing(Head(invs), tip)
    <3>1. \A k : Listed(invs, k) => k \in Head(invs) \/ Listed(Tail(invs), k)
      BY <1>3, <2>3, ListedMoves
    <3>2. n \in Head(invs) /\ ~(n <= tip) => n \in vect'
      BY <1>3, <2>1, <2>3 DEF Missing
    <3> QED BY <1>1, <2>1, <2>3, <3>1, <3>2 DEF Pending
  <2> QED BY <1>2, <2>2, <2>3
<1> QED BY <1>5, <1>6, <1>7, <1>8 DEF SyncInv
(* ... and through every step.                                              *)
LEMMA SyncStep ==
    ASSUME SyncAssumption, SyncInv, [Next]_vars
    PROVE  SyncInv'
<1>1. CASE (\E n \in 1..MaxRemote : Announce(n)) \/ Listing
  BY <1>1, InvSteps
<1>2. CASE FindUnseen
  BY <1>2, UnseenStep
<1>3. CASE AnswerHeaders
  BY <1>3, AnswerStep
<1>4. CASE Handle
  BY <1>4, HandleStep
<1>5. CASE Unblock
  BY <1>5, UnblockStep
<1>6. CASE Lose
  BY <1>6, LoseStep
<1>7. CASE Reset \/ Reconnect
  BY <1>7, BackSteps
<1>8. CASE InitialRequest \/ ListenRequest
  BY <1>8, RequestSteps
<1>9. CASE InitialAnswer \/ ListenAnswer
  BY <1>9, AnsweredSteps
<1>10. CASE InitialDone \/ TakeInv
  BY <1>10, ListenSteps
<1>11. CASE UNCHANGED vars
  BY <1>11 DEF vars, SyncInv, LinkInv, QueueInv, FlightInv, NoneInFlight, OneInFlight,
               Enough, NoAnswer, OneAnswer, CoverInv, Room, Pending, Told, Listed
<1> QED BY <1>1, <1>2, <1>3, <1>4, <1>5, <1>6, <1>7, <1>8, <1>9, <1>10, <1>11 DEF Next

(* The invariant holds in every state.                                      *)
LEMMA SyncAlways == Spec => []SyncInv
<1>1. Init => SyncInv
  BY SyncAssumption, SyncStart
<1>2. SyncInv /\ [Next]_vars => SyncInv'
  BY SyncAssumption, SyncStep
<1> QED BY <1>1, <1>2, PTL DEF Spec

-----------------------------------------------------------------------------
(* The theorems.                                                            *)

(* The state stays within its types: in particular the queues within their   *)
(* limits, and no more handlers wait than there are.                         *)
THEOREM TypeCorrect == Spec => []TypeOK
<1>1. SyncInv => TypeOK
  <2> SUFFICES ASSUME SyncInv PROVE TypeOK
    OBVIOUS
  <2>1. /\ remote \in Nat /\ remote <= MaxRemote /\ MaxRemote \in Nat /\ MaxLosses \in Nat
        /\ HandlerCount \in Nat /\ losses \in Nat /\ LinkInv /\ QueueInv
    BY SyncAssumption, SyncFacts
  <2>2. 0..remote \subseteq Heights
    BY <2>1 DEF Heights
  <2>3. \A m \in Sent(remote) : IsMessage(m)
    <3> SUFFICES ASSUME NEW m \in Sent(remote) PROVE IsMessage(m)
      OBVIOUS
    <3>1. \/ m.kind = "inv" /\ m.heights \subseteq 0..remote
          \/ m.kind = "headers" /\ m.upto \in 0..remote
      BY <2>1, SentIs
    <3> QED BY <2>2, <3>1 DEF IsMessage
  <2>4. /\ \A i \in DOMAIN wire : IsMessage(wire[i])
        /\ \A i \in DOMAIN blocked : IsMessage(blocked[i])
    <3>1. /\ \A i \in DOMAIN wire : wire[i] \in Sent(remote)
          /\ \A i \in DOMAIN blocked : blocked[i] \in Sent(remote)
      BY <2>1 DEF QueueInv
    <3> QED BY <2>3, <3>1
  <2>5. handlers \in 0 .. (MaxLosses + 1) * HandlerCount
    <3>1. \A a, b, h \in Nat : a <= b => a * h <= b * h
      OBVIOUS
    <3> DEFINE a == losses + (IF link = "up" THEN 1 ELSE 0)
    <3>2. a \in Nat /\ MaxLosses + 1 \in Nat /\ a <= MaxLosses + 1
      BY <2>1 DEF LinkInv
    <3>3. handlers \in Nat /\ handlers <= a * HandlerCount
      BY <2>1 DEF LinkInv
    <3> HIDE DEF a
    <3>4. a * HandlerCount <= (MaxLosses + 1) * HandlerCount
      BY <2>1, <3>1, <3>2
    <3>5. a * HandlerCount \in Nat /\ (MaxLosses + 1) * HandlerCount \in Nat
      BY <2>1, <3>2
    <3> QED BY <3>3, <3>4, <3>5
  <2>6. Len(blocked) <= handlers
    BY <2>1 DEF QueueInv
  <2>7. /\ asked \in Seq(Heights) /\ answers \in Seq(Heights) /\ invs \in Seq(SUBSET Heights)
        /\ Len(invs) <= InvCap /\ Len(answers) <= HeadersCap
    <3>1. SUBSET (0..remote) \subseteq SUBSET Heights
      BY <2>2
    <3>2. \A S, T : S \subseteq T => Seq(S) \subseteq Seq(T)
      OBVIOUS
    <3>3. /\ Seq(0..remote) \subseteq Seq(Heights)
          /\ Seq(SUBSET (0..remote)) \subseteq Seq(SUBSET Heights)
      BY <2>2, <3>1, <3>2, Zenon
    <3> QED BY <2>1, <3>3 DEF QueueInv
  <2>8. /\ link \in {"up", "closed", "none"} /\ losses \in 0 .. MaxLosses
        /\ remote \in Heights /\ start \in Heights /\ tip \in Heights
        /\ listings \in 0 .. MaxListings
        /\ task \in {"initial", "listen", "dead"} \cup Waits
        /\ vect \subseteq Heights
    BY <2>1, <2>2 DEF LinkInv
  <2> QED BY <2>4, <2>5, <2>6, <2>7, <2>8 DEF TypeOK
<1> QED BY <1>1, SyncAlways, PTL

(* What get_headers() takes out of headers_queue is the answer to its own    *)
(* request: at most one request or answer is on its way at any time, none    *)
(* when nobody waits, also after any number of lost connections.             *)
THEOREM OwnAnswer == Spec => []AnswerIsOwn
<1>1. SyncInv => AnswerIsOwn
  <2> SUFFICES ASSUME SyncInv PROVE AnswerIsOwn
    OBVIOUS
  <2>1. /\ wire \in Seq(Sent(remote)) /\ blocked \in Seq(Sent(remote)) /\ FlightInv
        /\ remote \in Nat
    BY SyncAssumption, SyncFacts
  <2>2. /\ NoAnswer(wire) => Cardinality(AnswersIn(wire)) = 0
        /\ \A u : OneAnswer(wire, u) => Cardinality(AnswersIn(wire)) = 1
    BY <2>1, AnswersCount
  <2>3. /\ NoAnswer(blocked) => Cardinality(AnswersIn(blocked)) = 0
        /\ \A u : OneAnswer(blocked, u) => Cardinality(AnswersIn(blocked)) = 1
    BY <2>1, AnswersCount
  <2>4. Len(<<>>) = 0 /\ \A u : Len(<<u>>) = 1
    OBVIOUS
  <2>5. NoneInFlight => InFlight = 0
    BY <2>2, <2>3, <2>4 DEF NoneInFlight, InFlight
  <2>6. ASSUME OneInFlight PROVE InFlight = 1
    <3>1. CASE asked = <<tip>> /\ NoAnswer(wire) /\ NoAnswer(blocked) /\ answers = <<>>
      BY <2>2, <2>3, <2>4, <3>1 DEF InFlight
    <3>2. ASSUME NEW u \in 0..remote, asked = <<>>,
                 \/ OneAnswer(wire, u) /\ NoAnswer(blocked) /\ answers = <<>>
                 \/ NoAnswer(wire) /\ OneAnswer(blocked, u) /\ answers = <<>>
                 \/ NoAnswer(wire) /\ NoAnswer(blocked) /\ answers = <<u>>
          PROVE  InFlight = 1
      <4> DEFINE w == Cardinality(AnswersIn(wire))
                 b == Cardinality(AnswersIn(blocked))
                 a == Len(answers)
      <4>1. InFlight = 0 + w + b + a
        BY <2>4, <3>2, Zenon DEF InFlight
      <4>2. \/ w = 1 /\ b = 0 /\ a = 0
            \/ w = 0 /\ b = 1 /\ a = 0
            \/ w = 0 /\ b = 0 /\ a = 1
        BY <2>2, <2>3, <2>4, <3>2, Zenon
      <4> HIDE DEF w, b, a
      <4> QED BY <4>1, <4>2
    <3> QED BY <2>6, <3>1, <3>2 DEF OneInFlight
  <2> QED BY <2>1, <2>5, <2>6 DEF FlightInv, AnswerIsOwn
<1> QED BY <1>1, SyncAlways, PTL

(* No announcement falls through on the first connection: once everything    *)
(* is quiet the store is at the node's tip, if an answer has room for what   *)
(* the node has found since the connection began.                            *)
THEOREM QuietIsSynced == Spec => []QuietMeansSynced
<1>1. SyncInv => QuietMeansSynced
  <2> SUFFICES ASSUME SyncInv, Quiet, remote <= start + MaxHeaders PROVE tip = remote
    BY DEF QuietMeansSynced
  <2>1. /\ losses = 0 /\ task = "listen" /\ vect = {} /\ wire = <<>> /\ blocked = <<>>
        /\ invs = <<>>
    BY DEF Quiet
  <2>2. /\ remote \in Nat /\ tip \in Nat /\ start \in Nat /\ start <= remote /\ tip <= remote
        /\ FlightInv /\ CoverInv
    BY SyncAssumption, SyncFacts
  <2>3. start <= tip
    BY <2>1, <2>2 DEF FlightInv
  <2>4. ~Pending(remote)
    BY <2>1 DEF Pending, Told, Listed
  <2>5. ASSUME tip # remote PROVE FALSE
    <3>1. remote \in start + 1 .. remote /\ ~(remote <= tip) /\ Room
      BY <2>1, <2>2, <2>3, <2>5 DEF Room
    <3> QED BY <2>2, <2>4, <3>1 DEF CoverInv
  <2> QED BY <2>5
<1> QED BY <1>1, SyncAlways, PTL
=============================================================================
