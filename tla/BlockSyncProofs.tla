--------------------------- MODULE BlockSyncProofs ---------------------------
(***************************************************************************)
(* Proofs about BlockSync, for every tree of headers, every set of clients   *)
(* and hosts, and any number of new tips and lost connections.               *)
(*                                                                         *)
(* A block of a round is waiting to be asked for, or in one message that a   *)
(* node has still to answer with, or delivered, or lost with a connection:   *)
(* missing, todo and the messages on the wires are kept apart for that.      *)
(* Unless the chain is reorganised, both stores hold a branch each, one the  *)
(* beginning of the other, and the queued results follow on what the round   *)
(* that is going on will have reached.                                       *)
(***************************************************************************)
EXTENDS BlockSync, HeaderChainsProofs

-----------------------------------------------------------------------------
(* The invariant.                                                           *)

(* What travels: new tips, and answers to getblocks and to getdata.          *)
Traffic == {TipMsg(h) : h \in Blocks} \cup {BlockMsg(h) : h \in Blocks}
           \cup {ListMsg(x, y) : x, y \in Headers}
NewTipResults == [start : Headers, stop : Headers]

InRound == btask \in {"ask", "wait"}

(* The i-th thing that c will hear is block h.                               *)
Asked(c, i, h) == i \in 1..Len(wire[c]) /\ wire[c][i] = BlockMsg(h)

NetInv ==
    /\ best \in Headers /\ closed \subseteq pool /\ pool \subseteq Clients
    /\ events \in 0 .. MaxEvents /\ lost \in BOOLEAN /\ reorged \in BOOLEAN
    /\ wire \in [Clients -> Seq(Traffic)]
    /\ have \in [Hosts -> SUBSET Blocks]
    /\ queued \in [Clients -> Nat] /\ moving \in Seq(Nat)

(* Results are of headers that the store holds.                             *)
ResultsFit(rs, cs) ==
    /\ rs \in Seq(NewTipResults)
    /\ \A i \in 1..Len(rs) :
          rs[i].stop \in Known(cs) /\ Height[rs[i].start] <= Height[rs[i].stop]

HeadInv ==
    /\ GoodChains(chains) /\ ResultsFit(results, chains)
    /\ htask \in {"initial", "follow", "dead"} /\ target \in Nat

RoundInv ==
    /\ GoodChains(done) /\ btask \in {"idle", "get", "ask", "wait", "dead"}
    /\ wanted \in Seq(Blocks) /\ todo \in Seq(Blocks)
    /\ missing \subseteq Blocks /\ delivered \subseteq Headers
    /\ btask = "ask" <=> todo # <<>>
    /\ IsInjective(todo) /\ ToSet(todo) \subseteq missing
    /\ Known(done) \subseteq delivered
    /\ ~InRound => missing = {}
    /\ InRound => /\ wanted # <<>>
                  /\ \A i \in 1..Len(wanted) : i > 1 => Parent[wanted[i]] = wanted[i - 1]
                  /\ missing \subseteq ToSet(wanted)
                  /\ ToSet(wanted) \subseteq missing \cup delivered

(* A block is on its way once, and only while it is missing.                 *)
WireInv ==
    /\ \A c \in Clients : \A i \in 1..Len(wire[c]) : \A h \in Blocks :
          Asked(c, i, h) => h \in missing /\ h \notin ToSet(todo)
    /\ \A c, b \in Clients : \A i \in 1..Len(wire[c]), j \in 1..Len(wire[b]) : \A h \in Blocks :
          Asked(c, i, h) /\ Asked(b, j, h) => c = b /\ i = j

BlocksInv == NetInv /\ HeadInv /\ RoundInv /\ WireInv

(* The last header that is done, or will be when the round is.               *)
Reach == IF InRound THEN wanted[Len(wanted)] ELSE Tip(done)

LineInv ==
    /\ Tip(chains) \in Branch[best] /\ Known(chains) = Branch[Tip(chains)]
    /\ Reach \in Branch[Tip(chains)] /\ Known(done) = Branch[Tip(done)]
    /\ htask # "dead" /\ btask # "dead"
    /\ InRound => /\ Branch[Reach] = Known(done) \cup ToSet(wanted)
                  /\ Parent[wanted[1]] \in Known(done)
                  /\ Parent[wanted[1]] = Genesis \/ ToSet(wanted) \cap Known(done) = {}
    /\ delivered \subseteq Known(done) \cup (IF InRound THEN ToSet(wanted) \ missing ELSE {})

(* Results follow on each other, from what is reached to the tip.            *)
QueueInv ==
    /\ htask = "initial" => results = <<>>
    /\ \A i \in 1..Len(results) :
          /\ results[i].start \in Branch[results[i].stop]
          /\ \/ results[i].start = Genesis /\ i = 1
             \/ /\ results[i].start # Genesis
                /\ Parent[results[i].start] \in
                       IF i = 1 THEN Branch[Reach] ELSE {results[i - 1].stop}
          /\ btask = "get" => \/ results[i].stop \in Known(done)
                              \/ Height[results[i].start] <= 1
                              \/ results[i].start \notin Known(done)
    /\ htask = "follow" =>
          Tip(chains) \in IF results = <<>> THEN {Reach} ELSE {results[Len(results)].stop}

OrderInv == ~reorged => LineInv /\ QueueInv

-----------------------------------------------------------------------------
(* Branches and the paths along them.                                       *)

(* Of two headers of a branch, the lower one is on the branch of the other.  *)
LEMMA LowerIsBelow ==
    ASSUME NEW h \in Headers, NEW x \in Branch[h], NEW y \in Branch[h], Height[x] <= Height[y]
    PROVE  x \in Branch[y] /\ x \in Headers /\ y \in Headers
<1>1. x \in Headers /\ y \in Headers
  BY BranchHolds
<1>2. x \in Branch[y] \/ y \in Branch[x]
  BY BranchLinear
<1>3. CASE y \in Branch[x]
  <2>1. Height[x] \in Nat /\ Height[y] \in Nat
    BY <1>1, HeightIs
  <2>2. Height[y] <= Height[x]
    BY <1>1, <1>3, BranchHeight
  <2>3. Height[y] = Height[x]
    BY <2>1, <2>2
  <2> QED BY <1>1, <1>3, <2>3, BranchHeight, BranchHolds
<1> QED BY <1>1, <1>2, <1>3

(* The header below one of a branch, with the heights of both.              *)
LEMMA AtParent ==
    ASSUME NEW h \in Headers, NEW x \in Branch[h], x # Genesis
    PROVE  /\ x \in Headers /\ Parent[x] \in Headers
           /\ Parent[x] \in Branch[h] /\ Height[x] = Height[Parent[x]] + 1
           /\ Height[Parent[x]] \in Nat
<1>1. x \in Headers /\ Branch[x] \subseteq Branch[h]
  BY BranchHolds
<1>2. Parent[x] \in Headers
  BY <1>1, TreeAssumption
<1>3. Parent[x] \in Branch[x]
  BY <1>1, <1>2, BranchIs, BranchHolds
<1> QED BY <1>1, <1>2, <1>3, HeightIs

(* A path holds the headers of a branch between two heights, in order.      *)
PathIs(s, h, n, k) ==
    /\ s \in Seq(Headers) /\ Len(s) = (k - n) + 1 /\ Len(s) \in Nat \ {0}
    /\ \A i \in 1..Len(s) : s[i] \in Branch[h] /\ Height[s[i]] = (n + i) - 1
    /\ \A i \in 1..Len(s) : i > 1 => s[i] # Genesis /\ Parent[s[i]] = s[i - 1]
    /\ \A x : x \in ToSet(s) <=> x \in Branch[h] /\ n <= Height[x] /\ Height[x] <= k

(* Path() is a path.                                                       *)
LEMMA PathsAre ==
    ASSUME NEW h \in Headers, NEW n \in Nat, NEW k \in 0..Height[h], n <= k
    PROVE  PathIs(Path(h, n, k), h, n, k)
<1> DEFINE s == Path(h, n, k)
           l == (k - n) + 1
<1>1. k \in Nat /\ Height[h] \in Nat /\ k <= Height[h] /\ l \in Nat \ {0} /\ ~(k < n)
      /\ l = k - n + 1
  BY HeightIs
<1>2. s = [i \in 1..l |-> At(h, n + i - 1)]
  BY <1>1 DEF Path
<1>3. \A i \in 1..l : n + i - 1 \in 0..Height[h] /\ n + i - 1 = (n + i) - 1
  BY <1>1
<1>4. \A i \in 1..l : At(h, n + i - 1) \in Branch[h] /\ Height[At(h, n + i - 1)] = (n + i) - 1
  BY <1>3, AtIs
<1>5. \A i \in 1..l : At(h, n + i - 1) \in Headers
  BY <1>4, BranchHolds
<1> HIDE DEF s, l
<1>6. s \in Seq(Headers) /\ Len(s) = l
      /\ \A i \in 1..l : s[i] \in Branch[h] /\ Height[s[i]] = (n + i) - 1
  BY <1>1, <1>2, <1>4, <1>5
<1>7. ASSUME NEW i \in 1..l, i > 1 PROVE s[i] # Genesis /\ Parent[s[i]] = s[i - 1]
  <2>1. i - 1 \in 1..l /\ (n + i) - 1 # 0 /\ (n + i) - 1 = ((n + (i - 1)) - 1) + 1
        /\ (n + (i - 1)) - 1 \in Nat
    BY <1>1, <1>7
  <2>2. s[i] \in Branch[h] /\ Height[s[i]] = (n + i) - 1
        /\ s[i - 1] \in Branch[h] /\ Height[s[i - 1]] = (n + (i - 1)) - 1
    BY <1>6, <2>1
  <2>3. s[i] # Genesis
    BY <2>1, <2>2, HeightIs
  <2>4. Parent[s[i]] \in Branch[h] /\ Height[s[i]] = Height[Parent[s[i]]] + 1
        /\ Height[Parent[s[i]]] \in Nat
    BY <2>2, <2>3, AtParent
  <2>5. Height[Parent[s[i]]] = (n + (i - 1)) - 1
    BY <2>1, <2>2, <2>4
  <2>6. (n + (i - 1)) - 1 \in 0..Height[h]
    BY <1>1, <2>1
  <2> QED BY <2>2, <2>3, <2>4, <2>5, <2>6, AtIs
<1>8. \A x : x \in ToSet(s) <=> \E i \in 1..l : s[i] = x
  BY <1>6, ToSetIn
<1>9. ASSUME NEW x PROVE x \in ToSet(s) <=> x \in Branch[h] /\ n <= Height[x] /\ Height[x] <= k
  <2>1. ASSUME NEW i \in 1..l, s[i] = x
        PROVE  x \in Branch[h] /\ n <= Height[x] /\ Height[x] <= k
    <3>1. n <= (n + i) - 1 /\ (n + i) - 1 <= k
      BY <1>1 DEF l
    <3> QED BY <1>6, <2>1, <3>1
  <2>2. ASSUME x \in Branch[h], n <= Height[x], Height[x] <= k
        PROVE  \E i \in 1..l : s[i] = x
    <3>1. Height[x] \in Nat
      BY <2>2, BranchHolds, HeightIs
    <3> DEFINE i == (Height[x] - n) + 1
    <3>2. i \in 1..l /\ (n + i) - 1 = Height[x] /\ Height[x] \in 0..Height[h]
      BY <1>1, <2>2, <3>1 DEF l
    <3> HIDE DEF i
    <3>3. s[i] \in Branch[h] /\ Height[s[i]] = Height[x]
      BY <1>6, <3>2
    <3> QED BY <2>2, <3>2, <3>3, AtIs
  <2> QED BY <1>8, <2>1, <2>2
<1> QED BY <1>1, <1>6, <1>7, <1>9 DEF PathIs, s, l

(* No header is on a path twice; above the genesis block it is of blocks.    *)
LEMMA PathsAreDistinct ==
    ASSUME NEW s, NEW h \in Headers, NEW n \in Nat, NEW k \in Nat, PathIs(s, h, n, k)
    PROVE  /\ s # <<>> /\ IsInjective(s)
           /\ \A i, j \in 1..Len(s) : s[i] = s[j] => i = j
           /\ n > 0 => s \in Seq(Blocks)
<1>1. /\ s \in Seq(Headers) /\ Len(s) \in Nat \ {0}
      /\ \A i \in 1..Len(s) : s[i] \in Headers /\ s[i] \in Branch[h] /\ Height[s[i]] = (n + i) - 1
  BY BranchHolds DEF PathIs
<1>2. \A i, j \in 1..Len(s) : (n + i) - 1 = (n + j) - 1 => i = j
  BY <1>1
<1>3. \A i, j \in 1..Len(s) : s[i] = s[j] => i = j
  BY <1>1, <1>2
<1>4. IsInjective(s)
  BY <1>1, <1>3 DEF IsInjective
<1>5. ASSUME n > 0 PROVE s \in Seq(Blocks)
  <2>1. \A i \in 1..Len(s) : (n + i) - 1 # 0
    BY <1>1, <1>5
  <2>2. \A i \in 1..Len(s) : s[i] \in Blocks
    BY <1>1, <2>1, HeightIs DEF Blocks
  <2> QED BY <1>1, <2>2
<1> QED BY <1>1, <1>3, <1>4, <1>5

(* What an earlier run has left: one chain that is a branch.                *)
LEMMA ChainToIs ==
    ASSUME NEW h \in Headers
    PROVE  GoodChains(ChainTo(h)) /\ Known(ChainTo(h)) = Branch[h] /\ Tip(ChainTo(h)) = h
<1> DEFINE s == Path(h, 0, Height[h])
           cs == <<s>>
<1>1. Height[h] \in Nat /\ Height[h] \in 0..Height[h] /\ 0 <= Height[h]
  BY HeightIs
<1>2. PathIs(s, h, 0, Height[h])
  BY <1>1, PathsAre
<1> HIDE DEF s
<1>3. /\ s \in Seq(Headers) /\ s # <<>> /\ Len(s) \in Nat \ {0}
      /\ \A i, j \in 1..Len(s) : s[i] = s[j] => i = j
      /\ \A i \in 1..Len(s) : i > 1 => s[i] # Genesis /\ Parent[s[i]] = s[i - 1]
      /\ \A x : x \in ToSet(s) <=> x \in Branch[h]
  <2>1. \A x \in Branch[h] : 0 <= Height[x] /\ Height[x] <= Height[h]
    BY BranchHolds, BranchHeight, HeightIs
  <2>2. s # <<>> /\ \A i, j \in 1..Len(s) : s[i] = s[j] => i = j
    <3>1. 0 \in Nat
      OBVIOUS
    <3> QED BY <1>1, <1>2, <3>1, PathsAreDistinct
  <2>3. /\ s \in Seq(Headers) /\ Len(s) \in Nat \ {0}
        /\ \A i \in 1..Len(s) : i > 1 => s[i] # Genesis /\ Parent[s[i]] = s[i - 1]
        /\ \A x : x \in ToSet(s) <=> x \in Branch[h] /\ 0 <= Height[x] /\ Height[x] <= Height[h]
    BY <1>2 DEF PathIs
  <2> QED BY <2>1, <2>2, <2>3
<1>4. cs \in Seq(Seq(Headers)) /\ Len(cs) = 1 /\ cs[1] = s /\ DOMAIN cs = 1..1 /\ cs # <<>>
  BY <1>3
<1>5. \A i : i \in 1..1 <=> i = 1
  OBVIOUS
<1> HIDE DEF cs
<1>6. s[1] = Genesis
  <2>1. s[1] \in Branch[h] /\ Height[s[1]] = (0 + 1) - 1
    <3>1. 1 \in 1..Len(s)
      BY <1>3
    <3> QED BY <1>2, <3>1 DEF PathIs
  <2>2. (0 + 1) - 1 = 0 /\ 0 \in 0..Height[h]
    BY <1>1
  <2> QED BY <2>1, <2>2, BranchHolds, HeightIs, AtIs
<1>7. IsChains(cs)
  BY <1>3, <1>4, <1>5, <1>6 DEF IsChains
<1>8. Linked(cs) /\ Distinct(cs)
  BY <1>3, <1>4, <1>5 DEF Linked, Distinct
<1>9. \A x : x \in Known(cs) <=> x \in Branch[h]
  <2>1. \A x : x \in Known(cs) <=> x \in ToSet(s)
    BY <1>4, <1>5 DEF Known
  <2> QED BY <1>3, <2>1
<1>10. GoodChains(cs)
  BY <1>7, <1>8 DEF GoodChains
<1>11. Known(cs) = Branch[h] /\ Tip(cs) = h
  BY <1>9, <1>10, LineIsOne
<1> QED BY <1>10, <1>11 DEF ChainTo, cs, s

(* The first headers of a path are a path.                                  *)
LEMMA PathPrefix ==
    ASSUME NEW h \in Headers, NEW m \in Nat, NEW k \in 0..Height[h], m <= k,
           NEW n \in 1..Len(Path(h, m, k))
    PROVE  /\ SubSeq(Path(h, m, k), 1, n) = Path(h, m, (m + n) - 1)
           /\ (m + n) - 1 \in 0..Height[h] /\ m <= (m + n) - 1 /\ (m + n) - 1 <= k
<1>1. PathIs(Path(h, m, k), h, m, k) /\ Height[h] \in Nat
  BY PathsAre, HeightIs
<1>2. Len(Path(h, m, k)) = (k - m) + 1
  BY <1>1 DEF PathIs
<1> DEFINE l == (m + n) - 1
<1>3. l \in 0..Height[h] /\ m <= l /\ l <= k /\ l \in Nat
  BY <1>1, <1>2
<1>4. PathIs(Path(h, m, l), h, m, l)
  BY <1>3, PathsAre
<1>5. (l - m) + 1 = n /\ n \in Nat \ {0}
  BY <1>2
<1> DEFINE s == Path(h, m, k)
           t == Path(h, m, l)
           u == SubSeq(s, 1, n)
<1>6. /\ s \in Seq(Headers) /\ t \in Seq(Headers) /\ Len(t) = n
      /\ \A i \in 1..Len(s) : s[i] \in Branch[h] /\ Height[s[i]] = (m + i) - 1
      /\ \A i \in 1..Len(t) : t[i] \in Branch[h] /\ Height[t[i]] = (m + i) - 1
  BY <1>1, <1>4, <1>5 DEF PathIs
<1> HIDE DEF s, t, l
<1>7. u \in Seq(Headers) /\ Len(u) = n /\ \A i \in 1..n : u[i] = s[i]
  <2>1. \A i \in 1..n : s[i] \in Headers
    BY <1>2, <1>5, <1>6 DEF s
  <2>2. 1 \in Int /\ n \in Int /\ 1 <= n /\ (n - 1) + 1 = n /\ n - 1 + 1 = n
        /\ \A i \in 1..n : 1 + i - 1 = i
    BY <1>5
  <2> QED BY <2>1, <2>2, SubSeqProperties
<1> HIDE DEF u
<1>8. ASSUME NEW i \in 1..n PROVE u[i] = t[i]
  <2>1. i \in 1..Len(s) /\ (m + i) - 1 \in 0..Height[h]
    BY <1>1, <1>2, <1>3, <1>5 DEF s
  <2>2. s[i] \in Branch[h] /\ Height[s[i]] = (m + i) - 1
    BY <1>6, <2>1
  <2>3. t[i] \in Branch[h] /\ Height[t[i]] = (m + i) - 1
    BY <1>6
  <2>4. s[i] = t[i]
    BY <2>1, <2>2, <2>3, AtIs
  <2> QED BY <1>7, <2>4
<1>9. u = t
  BY <1>6, <1>7, <1>8, SeqEqual
<1> QED BY <1>3, <1>9 DEF u, t, s, l

(* Blocks in line, on a known header, connect.                              *)
LEMMA LineConnects ==
    ASSUME NEW b, GoodChains(b), NEW s \in Seq(Blocks), s # <<>>,
           \A i \in 1..Len(s) : i > 1 => Parent[s[i]] = s[i - 1],
           Parent[s[1]] \in Known(b)
    PROVE  /\ GoodChains(FoldLeft(Connect, b, s))
           /\ \A x : x \in Known(FoldLeft(Connect, b, s)) <=> x \in Known(b) \/ x \in ToSet(s)
<1>1. s \in Seq(Headers \ {Genesis})
  BY DEF Blocks
<1>2. ASSUME NEW i \in 1..Len(s)
      PROVE  Parent[s[i]] \in Known(b) \/ \E j \in 1..i-1 : s[j] = Parent[s[i]]
  <2>1. CASE i = 1
    BY <2>1
  <2>2. CASE i # 1
    <3>1. i > 1 /\ i - 1 \in 1..i-1
      BY <2>2
    <3> QED BY <3>1
  <2> QED BY <2>1, <2>2
<1>3. \A x : x \in ToSet(s) <=> \E i \in 1..Len(s) : s[i] = x
  BY ToSetIn
<1> QED BY <1>1, <1>2, <1>3, FoldConnects

(* What the node answers goes on from a header that the client knows.        *)
LEMMA BaseIs ==
    ASSUME best \in Headers, NEW t \in Headers
    PROVE  /\ Base(t) \in 0..Height[best] /\ Height[best] \in Nat
           /\ \E x \in Branch[best] : x \in Branch[t] /\ Height[x] = Base(t)
           /\ t \in Branch[best] => Base(t) = Height[t]
<1> DEFINE C == Locators(t) \cap Branch[best]
           N == {0} \cup {Height[x] : x \in C}
<1>1. /\ Locators(t) \subseteq Branch[t] /\ t \in Locators(t)
      /\ \A x \in Branch[best] : Height[x] \in Nat /\ Height[x] <= Height[best]
      /\ \A x \in Branch[t] : Height[x] \in Nat /\ Height[x] <= Height[t]
      /\ Height[best] \in Nat /\ Height[t] \in Nat
  BY BranchHolds, HeightIs, BranchHeight DEF Locators
<1> HIDE DEF C
<1>2. N \in SUBSET (0..Height[best]) /\ N # {}
  BY <1>1 DEF C
<1>3. Max(N) \in N /\ \A y \in N : y <= Max(N)
  <2> HIDE DEF N
  <2> QED BY <1>1, <1>2, MaxBounded
<1>4. Base(t) = Max(N)
  BY DEF Base, N, C
<1>5. \E x \in Branch[best] : x \in Branch[t] /\ Height[x] = Max(N)
  <2>1. CASE Max(N) = 0
    BY <2>1, BranchHolds, HeightIs
  <2>2. CASE Max(N) # 0
    <3>1. \E x \in C : Height[x] = Max(N)
      BY <1>3, <2>2
    <3> QED BY <1>1, <3>1 DEF C
  <2> QED BY <2>1, <2>2
<1>6. ASSUME t \in Branch[best] PROVE Max(N) = Height[t]
  <2>1. Height[t] \in N
    BY <1>1, <1>6 DEF C
  <2>2. Height[t] <= Max(N)
    BY <1>3, <2>1
  <2>3. PICK x \in Branch[best] : x \in Branch[t] /\ Height[x] = Max(N)
    BY <1>5
  <2>4. Max(N) <= Height[t] /\ Max(N) \in Nat
    BY <1>1, <2>3
  <2> HIDE DEF N
  <2> QED BY <1>1, <2>2, <2>4
<1> HIDE DEF N
<1>7. Max(N) \in 0..Height[best]
  BY <1>2, <1>3
<1> QED BY <1>1, <1>4, <1>5, <1>6, <1>7

(* An answer that is not empty is a path to the tip, and connects.           *)
LEMMA AnswerIs ==
    ASSUME best \in Headers, GoodChains(chains), Base(Tip(chains)) # Height[best]
    PROVE  LET n == Base(Tip(chains)) + 1 IN
           /\ Tip(chains) \in Headers
           /\ n \in Nat \ {0} /\ n <= Height[best] /\ Height[best] \in 0..Height[best]
           /\ Answer = Path(best, n, Height[best])
           /\ PathIs(Answer, best, n, Height[best])
           /\ Answer \in Seq(Blocks) /\ Answer # <<>>
           /\ Parent[Answer[1]] \in Known(chains)
<1> DEFINE t == Tip(chains)
           n == Base(t) + 1
<1>1. t \in Headers /\ Branch[t] \subseteq Known(chains)
  BY KnownClosed, TipsWhere DEF GoodChains
<1>2. /\ Base(t) \in 0..Height[best] /\ Height[best] \in Nat
      /\ \E x \in Branch[best] : x \in Branch[t] /\ Height[x] = Base(t)
  BY <1>1, BaseIs
<1>3. PICK x \in Branch[best] : x \in Branch[t] /\ Height[x] = Base(t)
  BY <1>2
<1>4. n \in Nat \ {0} /\ n <= Height[best] /\ Height[best] \in 0..Height[best] /\ n > 0
  BY <1>2
<1>5. Answer = Path(best, n, Height[best])
  BY DEF Answer
<1> HIDE DEF t, n
<1>6. PathIs(Answer, best, n, Height[best])
  BY <1>4, <1>5, PathsAre
<1>7. Answer \in Seq(Blocks) /\ Answer # <<>>
  BY <1>2, <1>4, <1>6, PathsAreDistinct
<1>8. Parent[Answer[1]] = x
  <2>1. 1 \in 1..Len(Answer) /\ (n + 1) - 1 = n
    BY <1>4, <1>6 DEF PathIs
  <2>2. Answer[1] \in Branch[best] /\ Height[Answer[1]] = n
    BY <1>6, <2>1 DEF PathIs
  <2>3. Answer[1] # Genesis
    BY <1>4, <2>2, HeightIs
  <2>4. Parent[Answer[1]] \in Branch[best] /\ Height[Answer[1]] = Height[Parent[Answer[1]]] + 1
        /\ Height[Parent[Answer[1]]] \in Nat
    BY <2>2, <2>3, AtParent
  <2>5. Height[Parent[Answer[1]]] = Base(t) /\ Base(t) \in 0..Height[best]
    BY <1>2, <2>2, <2>4 DEF n
  <2> QED BY <1>3, <2>4, <2>5, AtIs
<1> QED BY <1>1, <1>3, <1>4, <1>5, <1>6, <1>7, <1>8 DEF t, n

(* A tip that is not known is above the last header in common.               *)
LEMMA AnswerToNewTip ==
    ASSUME best \in Headers, GoodChains(chains), best \notin Known(chains)
    PROVE  Base(Tip(chains)) # Height[best]
<1> DEFINE t == Tip(chains)
<1>1. t \in Headers /\ Branch[t] \subseteq Known(chains)
  BY KnownClosed, TipsWhere DEF GoodChains
<1>2. PICK x \in Branch[best] : x \in Branch[t] /\ Height[x] = Base(t)
  BY <1>1, BaseIs
<1>3. x # best
  BY <1>1, <1>2
<1> QED BY <1>2, <1>3, BranchHeight

-----------------------------------------------------------------------------
(* The wires.                                                               *)

(* What a message is of.                                                    *)
LEMMA TrafficIs ==
    /\ Traffic \subseteq Messages
    /\ \A h \in Blocks : TipMsg(h) \in Traffic /\ BlockMsg(h) \in Traffic
    /\ \A x, y \in Headers : ListMsg(x, y) \in Traffic
    /\ \A m \in Traffic :
          /\ m.kind = "tip" => m.block \in Blocks
          /\ m.kind = "block" => m.block \in Blocks /\ m = BlockMsg(m.block)
          /\ \A h : m = BlockMsg(h) => m.kind = "block" /\ m.block = h
    /\ \A h : TipMsg(h).kind = "tip"
    /\ \A x, y : ListMsg(x, y).kind = "list"
    /\ \A h, k : BlockMsg(h) = BlockMsg(k) => h = k
<1>1. \A h : TipMsg(h).kind = "tip" /\ BlockMsg(h).kind = "block"
             /\ TipMsg(h).block = h /\ BlockMsg(h).block = h
  BY DEF TipMsg, BlockMsg
<1>2. \A x, y : ListMsg(x, y).kind = "list"
  BY DEF ListMsg
<1>3. Blocks \subseteq Headers
  BY DEF Blocks
<1> QED BY <1>1, <1>2, <1>3 DEF Traffic, Messages

(* A message is put at the end of some wires.                               *)
LEMMA SendIs ==
    ASSUME wire \in [Clients -> Seq(Traffic)], NEW m \in Traffic, NEW S
    PROVE  /\ Send(S, m) \in [Clients -> Seq(Traffic)]
           /\ \A c \in Clients : \A i \in 1..Len(Send(S, m)[c]) :
                 \/ i \in 1..Len(wire[c]) /\ Send(S, m)[c][i] = wire[c][i]
                 \/ c \in S /\ i = Len(wire[c]) + 1 /\ Send(S, m)[c][i] = m
<1>1. ASSUME NEW c \in Clients
      PROVE  /\ Send(S, m)[c] \in Seq(Traffic)
             /\ \A i \in 1..Len(Send(S, m)[c]) :
                   \/ i \in 1..Len(wire[c]) /\ Send(S, m)[c][i] = wire[c][i]
                   \/ c \in S /\ i = Len(wire[c]) + 1 /\ Send(S, m)[c][i] = m
  <2>1. Send(S, m)[c] = IF c \in S THEN Append(wire[c], m) ELSE wire[c]
    BY DEF Send
  <2> DEFINE w == wire[c]
  <2>2. w \in Seq(Traffic) /\ Len(w) \in Nat
    OBVIOUS
  <2>3. CASE c \in S
    <3>1. Send(S, m)[c] = Append(w, m)
      BY <2>1, <2>3
    <3> HIDE DEF w
    <3>2. /\ Append(w, m) \in Seq(Traffic) /\ Len(Append(w, m)) = Len(w) + 1
          /\ \A i \in 1..Len(w) : Append(w, m)[i] = w[i]
          /\ Append(w, m)[Len(w) + 1] = m
      BY <2>2, AppendProperties
    <3>3. \A i \in 1..Len(w) + 1 : i \in 1..Len(w) \/ i = Len(w) + 1
      BY <2>2
    <3>4. Send(S, m)[c] \in Seq(Traffic) /\ Len(Send(S, m)[c]) = Len(w) + 1
          /\ (\A i \in 1..Len(w) : Send(S, m)[c][i] = w[i])
          /\ Send(S, m)[c][Len(w) + 1] = m
      BY <3>1, <3>2
    <3> QED BY <2>3, <3>3, <3>4 DEF w
  <2>4. CASE c \notin S
    BY <2>1, <2>2, <2>4
  <2> QED BY <2>3, <2>4
<1>2. Send(S, m) = [c \in Clients |-> Send(S, m)[c]]
  BY DEF Send
<1> QED BY <1>1, <1>2

(* Blocks stay apart when wires are read, cut off, or sent other things.     *)
LEMMA WireKept ==
    ASSUME WireInv, NEW s \in [Clients -> Nat],
           \A c \in Clients : \A i \in 1..Len(wire'[c]) : \A h \in Blocks :
               Asked(c, i, h)' => /\ i + s[c] \in 1..Len(wire[c]) /\ Asked(c, i + s[c], h)
                                  /\ h \in missing' /\ h \notin ToSet(todo')
    PROVE  WireInv'
<1>1. ASSUME NEW c \in Clients, NEW b \in Clients, NEW i \in 1..Len(wire'[c]),
             NEW j \in 1..Len(wire'[b]), NEW h \in Blocks, Asked(c, i, h)', Asked(b, j, h)'
      PROVE  c = b /\ i = j
  <2>1. /\ i + s[c] \in 1..Len(wire[c]) /\ Asked(c, i + s[c], h)
        /\ j + s[b] \in 1..Len(wire[b]) /\ Asked(b, j + s[b], h)
    BY <1>1
  <2>2. c = b /\ i + s[c] = j + s[b]
    BY <2>1 DEF WireInv
  <2>3. i \in Nat /\ j \in Nat /\ s[c] \in Nat
    BY <1>1
  <2> QED BY <2>2, <2>3
<1> QED BY <1>1 DEF WireInv

(* A message that is no block is sent: the blocks on the wires stay those  *)
(* that were.                                                              *)
LEMMA WireSent ==
    ASSUME WireInv, wire \in [Clients -> Seq(Traffic)], NEW m \in Traffic, NEW S,
           m.kind # "block", wire' = Send(S, m), UNCHANGED <<missing, todo>>
    PROVE  WireInv' /\ wire' \in [Clients -> Seq(Traffic)]
<1> DEFINE s == [c \in Clients |-> 0]
<1>1. s \in [Clients -> Nat] /\ \A c \in Clients : s[c] = 0
  OBVIOUS
<1> HIDE DEF s
<1>2. ASSUME NEW c \in Clients, NEW i \in 1..Len(wire'[c]), NEW h \in Blocks, Asked(c, i, h)'
      PROVE  i \in 1..Len(wire[c]) /\ Asked(c, i, h)
  <2>1. wire'[c][i] = BlockMsg(h)
    BY <1>2 DEF Asked
  <2>2. m # BlockMsg(h)
    BY TrafficIs
  <2>3. i \in 1..Len(wire[c]) /\ wire'[c][i] = wire[c][i]
    BY <2>1, <2>2, SendIs
  <2> QED BY <2>1, <2>3 DEF Asked
<1>3. ASSUME NEW c \in Clients, NEW i \in 1..Len(wire'[c]), NEW h \in Blocks, Asked(c, i, h)'
      PROVE  /\ i + s[c] \in 1..Len(wire[c]) /\ Asked(c, i + s[c], h)
             /\ h \in missing' /\ h \notin ToSet(todo')
  <2>1. i + s[c] = i
    BY <1>1
  <2>2. h \in missing /\ h \notin ToSet(todo)
    BY <1>2, <1>3 DEF WireInv
  <2>3. i \in 1..Len(wire[c]) /\ Asked(c, i, h)
    BY <1>2, <1>3
  <2> QED BY <2>1, <2>2, <2>3
<1>4. WireInv'
  BY <1>1, <1>3, WireKept
<1> QED BY <1>4, SendIs

(* The first message of a wire is taken.                                    *)
LEMMA ReadsIs ==
    ASSUME wire \in [Clients -> Seq(Traffic)], NEW c \in Clients, NEW kinds, Reads(c, kinds)
    PROVE  /\ wire' \in [Clients -> Seq(Traffic)]
           /\ 1 \in 1..Len(wire[c]) /\ wire[c][1] = Head(wire[c])
           /\ Head(wire[c]) \in Traffic /\ Head(wire[c]).kind \in kinds
           /\ \A b \in Clients : \A i \in 1..Len(wire'[b]) :
                 /\ b # c => i \in 1..Len(wire[b]) /\ wire'[b][i] = wire[b][i]
                 /\ b = c => i + 1 \in 1..Len(wire[b]) /\ i + 1 # 1 /\ wire'[b][i] = wire[b][i + 1]
<1> DEFINE w == wire[c]
<1>1. w \in Seq(Traffic) /\ w # <<>> /\ Head(w).kind \in kinds
      /\ wire' = [wire EXCEPT ![c] = Tail(w)]
  BY DEF Reads
<1>2. wire'[c] = Tail(w) /\ \A b \in Clients : b # c => wire'[b] = wire[b]
  BY <1>1
<1> HIDE DEF w
<1>3. /\ Head(w) \in Traffic /\ Head(w) = w[1] /\ Tail(w) \in Seq(Traffic)
      /\ Len(w) \in Nat \ {0} /\ Len(Tail(w)) = Len(w) - 1
      /\ \A i \in 1 .. Len(w) - 1 : Tail(w)[i] = w[i + 1]
  BY <1>1, HeadTailElements
<1>4. 1 \in 1..Len(w) /\ \A i \in 1 .. Len(w) - 1 : i + 1 \in 1..Len(w) /\ i + 1 # 1
  BY <1>3
<1>5. wire' \in [Clients -> Seq(Traffic)]
  BY <1>1, <1>3
<1>6. \A i \in 1..Len(wire'[c]) : i + 1 \in 1..Len(w) /\ i + 1 # 1 /\ wire'[c][i] = w[i + 1]
  BY <1>2, <1>3, <1>4
<1> QED BY <1>1, <1>2, <1>3, <1>4, <1>5, <1>6 DEF w

(* The first message of a wire is read: a block that is no longer missing  *)
(* has left the wires.                                                     *)
LEMMA WireRead ==
    ASSUME WireInv, wire \in [Clients -> Seq(Traffic)], NEW c \in Clients, NEW kinds,
           Reads(c, kinds), NEW k, missing' = missing \ {k}, todo' = todo,
           \A i \in 1..Len(wire[c]) : Asked(c, i, k) => i = 1,
           \A b \in Clients : b # c => \A i \in 1..Len(wire[b]) : ~Asked(b, i, k)
    PROVE  WireInv'
<1> DEFINE s == [b \in Clients |-> IF b = c THEN 1 ELSE 0]
<1>1. s \in [Clients -> Nat] /\ s[c] = 1 /\ \A b \in Clients : b # c => s[b] = 0
  OBVIOUS
<1> HIDE DEF s
<1>2. ASSUME NEW b \in Clients, NEW i \in 1..Len(wire'[b]), NEW h \in Blocks, Asked(b, i, h)'
      PROVE  /\ i + s[b] \in 1..Len(wire[b]) /\ Asked(b, i + s[b], h)
             /\ h \in missing' /\ h \notin ToSet(todo')
  <2>1. wire'[b][i] = BlockMsg(h)
    BY <1>2 DEF Asked
  <2>2. /\ i + s[b] \in 1..Len(wire[b]) /\ wire'[b][i] = wire[b][i + s[b]]
        /\ b = c => i + s[b] # 1
    <3>1. i + 0 = i
      OBVIOUS
    <3>2. CASE b = c
      BY <1>1, <1>2, <3>2, ReadsIs
    <3>3. CASE b # c
      BY <1>1, <1>2, <3>1, <3>3, ReadsIs
    <3> QED BY <3>2, <3>3
  <2>3. Asked(b, i + s[b], h)
    BY <2>1, <2>2 DEF Asked
  <2>4. h \in missing /\ h \notin ToSet(todo)
    BY <2>2, <2>3 DEF WireInv
  <2>5. h # k
    BY <2>2, <2>3
  <2> QED BY <2>2, <2>3, <2>4, <2>5
<1> QED BY <1>1, <1>2, WireKept

-----------------------------------------------------------------------------
(* What an action leaves alone.                                             *)

(* What is about headers stays when they do.                               *)
LEMMA HeadSame ==
    ASSUME HeadInv, UNCHANGED headVars
    PROVE  HeadInv'
<1>1. chains' = chains /\ results' = results /\ htask' = htask /\ target' = target
  BY DEF headVars
<1> QED BY <1>1 DEF HeadInv

(* What is about the round stays when it does.                             *)
LEMMA RoundSame ==
    ASSUME RoundInv, UNCHANGED <<syncVars, dataVars>>
    PROVE  RoundInv'
<1>1. /\ done' = done /\ btask' = btask /\ wanted' = wanted /\ todo' = todo
      /\ missing' = missing /\ delivered' = delivered
  BY DEF syncVars, dataVars
<1> QED BY <1>1 DEF RoundInv, InRound

(* What is about the nodes and the clients stays when they do.             *)
LEMMA NetSame ==
    ASSUME NetInv, UNCHANGED <<netVars, have, workVars>>, wire' \in [Clients -> Seq(Traffic)]
    PROVE  NetInv'
<1>1. /\ best' = best /\ pool' = pool /\ closed' = closed /\ events' = events /\ lost' = lost
      /\ reorged' = reorged /\ have' = have /\ queued' = queued /\ moving' = moving
  BY DEF netVars, workVars
<1> QED BY <1>1 DEF NetInv

(* What is about blocks on their way stays when the wires and the round do.*)
LEMMA WireSame ==
    ASSUME WireInv, UNCHANGED <<wire, missing, todo>>
    PROVE  WireInv'
<1>1. wire' = wire /\ missing' = missing /\ todo' = todo
  OBVIOUS
<1> QED BY <1>1 DEF WireInv, Asked

-----------------------------------------------------------------------------
(* The nodes and the clients.                                               *)

(* A new tip is announced: no block is on its way that was not.            *)
LEMMA AdvanceKeeps ==
    ASSUME BlocksInv, NEW h \in Blocks, Advance(h)
    PROVE  BlocksInv'
<1>0. NetInv /\ HeadInv /\ RoundInv /\ WireInv
  BY DEF BlocksInv
<1>1. TipMsg(h) \in Traffic /\ TipMsg(h).kind # "block"
  BY TrafficIs
<1>2. WireInv' /\ wire' \in [Clients -> Seq(Traffic)]
  <2>1. wire \in [Clients -> Seq(Traffic)]
    BY <1>0 DEF NetInv
  <2>2. wire' = Send(Up, TipMsg(h)) /\ UNCHANGED <<missing, todo>>
    BY DEF Advance, dataVars, syncVars
  <2> QED BY <1>0, <1>1, <2>1, <2>2, WireSent
<1>3. NetInv'
  <2>1. h \in Headers /\ events + 1 \in 0..MaxEvents
    BY <1>0, DownloadAssumption DEF NetInv, Advance, Blocks
  <2>2. reorged' \in BOOLEAN
    BY DEF Advance
  <2> QED BY <1>0, <1>2, <2>1, <2>2 DEF NetInv, Advance, workVars
<1>4. HeadInv' /\ RoundInv'
  BY <1>0, HeadSame, RoundSame DEF Advance
<1> QED BY <1>2, <1>3, <1>4 DEF BlocksInv

(* A lost connection loses the blocks on its wire; they stay missing.      *)
LEMMA CloseKeeps ==
    ASSUME BlocksInv, NEW c \in Clients, Close(c)
    PROVE  BlocksInv'
<1>0. NetInv /\ HeadInv /\ RoundInv /\ WireInv
  BY DEF BlocksInv
<1>1. wire \in [Clients -> Seq(Traffic)] /\ wire' = [wire EXCEPT ![c] = <<>>]
  BY <1>0 DEF NetInv, Close
<1>2. wire' \in [Clients -> Seq(Traffic)]
  BY <1>1
<1>3. WireInv'
  <2> DEFINE s == [b \in Clients |-> 0]
  <2>1. s \in [Clients -> Nat] /\ \A b \in Clients : s[b] = 0
    OBVIOUS
  <2> HIDE DEF s
  <2>2. ASSUME NEW b \in Clients, NEW i \in 1..Len(wire'[b]), NEW h \in Blocks, Asked(b, i, h)'
        PROVE  /\ i + s[b] \in 1..Len(wire[b]) /\ Asked(b, i + s[b], h)
               /\ h \in missing' /\ h \notin ToSet(todo')
    <3>1. b # c
      <4>1. Len(wire'[c]) = 0 /\ 1..0 = {}
        BY <1>1
      <4> QED BY <2>2, <4>1
    <3>2. wire'[b] = wire[b] /\ i + s[b] = i
      BY <1>1, <2>1, <3>1
    <3>3. i \in 1..Len(wire[b]) /\ Asked(b, i, h)
      BY <2>2, <3>2 DEF Asked
    <3>4. h \in missing /\ h \notin ToSet(todo)
      BY <1>0, <3>3 DEF WireInv
    <3>5. missing' = missing /\ todo' = todo
      BY DEF Close, dataVars, syncVars
    <3> QED BY <3>2, <3>3, <3>4, <3>5
  <2> QED BY <1>0, <2>1, <2>2, WireKept
<1>4. NetInv'
  <2>1. events + 1 \in 0..MaxEvents /\ events' = events + 1 /\ closed' = closed \cup {c} /\ c \in pool
    BY <1>0, DownloadAssumption DEF NetInv, Close, Up
  <2> QED BY <1>0, <1>2, <2>1 DEF NetInv, Close, workVars
<1>5. HeadInv' /\ RoundInv'
  BY <1>0, HeadSame, RoundSame DEF Close
<1> QED BY <1>3, <1>4, <1>5 DEF BlocksInv

(* on_inv() fills have_blocks only.                                        *)
LEMMA HearKeeps ==
    ASSUME BlocksInv, NEW c \in Clients, Hear(c)
    PROVE  BlocksInv'
<1>0. NetInv /\ HeadInv /\ RoundInv /\ WireInv
  BY DEF BlocksInv
<1> DEFINE m == Head(wire[c])
           S == IF m.kind = "tip" THEN {m.block} ELSE Listed(m.from, m.to)
<1>1. wire \in [Clients -> Seq(Traffic)] /\ Reads(c, {"tip", "list"})
  BY <1>0 DEF NetInv, Hear
<1>2. wire' \in [Clients -> Seq(Traffic)] /\ m \in Traffic
  BY <1>1, ReadsIs
<1>3. S \subseteq Blocks
  <2>1. CASE m.kind = "tip"
    BY <1>2, <2>1, TrafficIs
  <2>2. CASE m.kind # "tip"
    <3> DEFINE low == IF m.from \in Branch[best] THEN Height[m.from] ELSE 0
    <3>1. best \in Headers
      BY <1>0 DEF NetInv
    <3>2. low \in Nat /\ \A x \in Branch[best] : x \in Headers /\ Height[x] \in Nat
      BY <3>1, BranchHolds, HeightIs
    <3>3. \A x \in Listed(m.from, m.to) : x \in Branch[best] /\ Height[x] > low
      BY DEF Listed
    <3> HIDE DEF low
    <3>4. \A x \in Listed(m.from, m.to) : x \in Headers /\ Height[x] # 0
      BY <3>2, <3>3
    <3>5. Listed(m.from, m.to) \subseteq Blocks
      BY <3>4, HeightIs DEF Blocks
    <3> QED BY <2>2, <3>5
  <2> QED BY <2>1, <2>2
<1>4. have' \in [Hosts -> SUBSET Blocks]
  <2>1. have' = [have EXCEPT ![Host[c]] = @ \cup S]
    BY DEF Hear
  <2>2. have \in [Hosts -> SUBSET Blocks] /\ Host[c] \in Hosts
    BY <1>0, DownloadAssumption DEF NetInv
  <2> HIDE DEF S
  <2> QED BY <1>3, <2>1, <2>2
<1>5. /\ best' = best /\ pool' = pool /\ closed' = closed /\ events' = events /\ lost' = lost
      /\ reorged' = reorged /\ queued' = queued /\ moving' = moving
      /\ missing' = missing /\ todo' = todo
  BY DEF Hear, netVars, workVars, dataVars, syncVars
<1>6. NetInv'
  BY <1>0, <1>2, <1>4, <1>5 DEF NetInv
<1>7. WireInv'
  <2>1. \A b \in Clients : \A i \in 1..Len(wire[b]) : ~Asked(b, i, Genesis)
    <3>1. \A b \in Clients : \A i \in 1..Len(wire[b]) : wire[b][i] \in Traffic
      BY <1>1
    <3>2. \A x \in Traffic : x # BlockMsg(Genesis)
      BY TrafficIs DEF Blocks
    <3> QED BY <3>1, <3>2 DEF Asked
  <2>2. missing' = missing \ {Genesis}
    BY <1>0, <1>5 DEF RoundInv, Blocks
  <2> QED BY <1>0, <1>1, <1>5, <2>1, <2>2, WireRead
<1>8. HeadInv' /\ RoundInv'
  BY <1>0, HeadSame, RoundSame DEF Hear
<1> QED BY <1>6, <1>7, <1>8 DEF BlocksInv

(* on_block() gets a block that is missing, and that no other wire has.    *)
LEMMA DeliverKeeps ==
    ASSUME BlocksInv, NEW c \in Clients, Deliver(c)
    PROVE  /\ BlocksInv'
           /\ Head(wire[c]).block \in missing /\ missing' = missing \ {Head(wire[c]).block}
<1>0. NetInv /\ HeadInv /\ RoundInv /\ WireInv
  BY DEF BlocksInv
<1> DEFINE m == Head(wire[c])
           k == m.block
<1>1. wire \in [Clients -> Seq(Traffic)] /\ Reads(c, {"block"})
  BY <1>0 DEF NetInv, Deliver
<1>2. /\ wire' \in [Clients -> Seq(Traffic)] /\ m \in Traffic /\ m.kind = "block"
      /\ 1 \in 1..Len(wire[c]) /\ wire[c][1] = m
  BY <1>1, ReadsIs
<1>3. k \in Blocks /\ Asked(c, 1, k)
  BY <1>2, TrafficIs DEF Asked
<1>4. k \in missing /\ k \notin ToSet(todo)
  BY <1>0, <1>2, <1>3 DEF WireInv
<1>5. /\ missing' = missing \ {k} /\ delivered' = delivered \cup {k}
      /\ done' = done /\ btask' = btask /\ wanted' = wanted /\ todo' = todo
  BY DEF Deliver, syncVars
<1> HIDE DEF k, m
<1>6. WireInv'
  <2>1. \A i \in 1..Len(wire[c]) : Asked(c, i, k) => i = 1
    BY <1>0, <1>2, <1>3 DEF WireInv
  <2>2. \A b \in Clients : b # c => \A i \in 1..Len(wire[b]) : ~Asked(b, i, k)
    BY <1>0, <1>2, <1>3 DEF WireInv
  <2> QED BY <1>0, <1>1, <1>5, <2>1, <2>2, WireRead
<1>7. RoundInv'
  <2>1. k \in Headers
    BY <1>3 DEF Blocks
  <2> QED BY <1>0, <1>4, <1>5, <2>1 DEF RoundInv, InRound
<1>8. NetInv'
  BY <1>0, <1>2, NetSame DEF Deliver
<1>9. HeadInv'
  BY <1>0, HeadSame DEF Deliver
<1> QED BY <1>4, <1>5, <1>6, <1>7, <1>8, <1>9 DEF BlocksInv, k, m

(* connect_task() hands on what was queued; it takes nothing from the      *)
(* round.                                                                  *)
LEMMA LeaveKeeps ==
    ASSUME BlocksInv, NEW c \in Clients, Leave(c)
    PROVE  BlocksInv'
<1>0. NetInv /\ HeadInv /\ RoundInv /\ WireInv
  BY DEF BlocksInv
<1>1. /\ pool' = pool \ {c} /\ closed' = closed \ {c} /\ wire' = wire /\ have' = have
      /\ best' = best /\ events' = events /\ lost' = lost /\ reorged' = reorged
      /\ queued' = [queued EXCEPT ![c] = 0]
      /\ moving' \in {moving, Append(moving, queued[c])}
      /\ missing' = missing /\ todo' = todo
  BY DEF Leave, dataVars, syncVars
<1>2. moving' \in Seq(Nat) /\ queued' \in [Clients -> Nat]
  <2>1. moving \in Seq(Nat) /\ queued \in [Clients -> Nat] /\ queued[c] \in Nat
    BY <1>0 DEF NetInv
  <2>2. Append(moving, queued[c]) \in Seq(Nat)
    BY <2>1
  <2>3. [queued EXCEPT ![c] = 0] \in [Clients -> Nat]
    BY <2>1
  <2> QED BY <1>1, <2>1, <2>2, <2>3
<1>3. NetInv'
  BY <1>0, <1>1, <1>2 DEF NetInv
<1>4. HeadInv' /\ RoundInv' /\ WireInv'
  BY <1>0, <1>1, HeadSame, RoundSame, WireSame DEF Leave
<1> QED BY <1>3, <1>4 DEF BlocksInv

(* A getblocks is sent, or nothing.                                        *)
LEMMA AskAgainIs ==
    ASSUME BlocksInv, NEW c, AskAgain(c), UNCHANGED <<missing, todo>>
    PROVE  WireInv' /\ wire' \in [Clients -> Seq(Traffic)]
<1>0. NetInv /\ RoundInv /\ WireInv /\ wire \in [Clients -> Seq(Traffic)]
  BY DEF BlocksInv, NetInv
<1>1. CASE wire' = wire
  BY <1>0, <1>1, WireSame
<1>2. CASE wire' # wire
  <2> DEFINE m == ListMsg(wanted[1], Last(wanted))
  <2>1. missing # {} /\ wire' = Send({c}, m)
    BY <1>2 DEF AskAgain
  <2>2. wanted \in Seq(Blocks) /\ wanted # <<>>
    BY <1>0, <2>1 DEF RoundInv
  <2>3. Len(wanted) \in Nat \ {0} /\ 1 \in 1..Len(wanted) /\ Len(wanted) \in 1..Len(wanted)
    BY <2>2, HeadTailElements
  <2>4. wanted[1] \in Headers /\ Last(wanted) \in Headers
    BY <2>2, <2>3 DEF Last, Blocks
  <2>5. m \in Traffic /\ m.kind # "block"
    BY <2>4, TrafficIs
  <2> HIDE DEF m
  <2> QED BY <1>0, <2>1, <2>5, WireSent
<1> QED BY <1>1, <1>2

(* Work given on is a getblocks: no block is on its way twice for it.      *)
LEMMA ReallocateKeeps ==
    ASSUME BlocksInv, Reallocate
    PROVE  BlocksInv'
<1>0. NetInv /\ HeadInv /\ RoundInv
  BY DEF BlocksInv
<1>1. PICK c \in pool : queued' = [queued EXCEPT ![c] = @ + Head(moving)] /\ AskAgain(c)
  BY DEF Reallocate
<1>2. /\ moving # <<>> /\ moving' = Tail(moving) /\ have' = have
      /\ best' = best /\ pool' = pool /\ closed' = closed /\ events' = events /\ lost' = lost
      /\ reorged' = reorged /\ missing' = missing /\ todo' = todo
  BY DEF Reallocate, netVars, dataVars, syncVars
<1>3. WireInv' /\ wire' \in [Clients -> Seq(Traffic)]
  BY <1>1, <1>2, AskAgainIs
<1>4. moving' \in Seq(Nat) /\ Head(moving) \in Nat
  BY <1>0, <1>2, HeadTailElements DEF NetInv
<1>5. queued' \in [Clients -> Nat]
  <2>1. queued \in [Clients -> Nat] /\ c \in Clients /\ queued[c] + Head(moving) \in Nat
    BY <1>0, <1>4 DEF NetInv
  <2> QED BY <1>1, <2>1
<1>6. NetInv'
  BY <1>0, <1>2, <1>3, <1>4, <1>5 DEF NetInv
<1>7. HeadInv' /\ RoundInv'
  BY <1>0, HeadSame, RoundSame DEF Reallocate
<1> QED BY <1>3, <1>6, <1>7 DEF BlocksInv

(* The same for a client that joins.                                       *)
LEMMA JoinKeeps ==
    ASSUME BlocksInv, NEW c \in Clients, Join(c)
    PROVE  BlocksInv'
<1>0. NetInv /\ HeadInv /\ RoundInv
  BY DEF BlocksInv
<1>1. /\ AskAgain(c) /\ pool' = pool \cup {c} /\ target' \in {Height[best], target}
      /\ best' = best /\ closed' = closed /\ events' = events /\ lost' = lost
      /\ reorged' = reorged /\ have' = have /\ queued' = queued /\ moving' = moving
      /\ chains' = chains /\ results' = results /\ htask' = htask
      /\ missing' = missing /\ todo' = todo
  BY DEF Join, workVars, dataVars, syncVars
<1>2. WireInv' /\ wire' \in [Clients -> Seq(Traffic)]
  BY <1>1, AskAgainIs
<1>3. NetInv'
  BY <1>0, <1>1, <1>2 DEF NetInv
<1>4. HeadInv'
  BY <1>0, <1>1, HeightIs DEF HeadInv, NetInv
<1>5. RoundInv'
  BY <1>0, RoundSame DEF Join
<1> QED BY <1>2, <1>3, <1>4, <1>5 DEF BlocksInv

-----------------------------------------------------------------------------
(* headers_sync_task().                                                     *)

(* A result of headers that the store holds is queued.                     *)
LEMMA ResultsAppend ==
    ASSUME NEW rs, NEW cs, ResultsFit(rs, cs), NEW ds, Known(cs) \subseteq Known(ds),
           NEW x \in Headers, NEW y \in Headers, y \in Known(ds), Height[x] <= Height[y]
    PROVE  /\ ResultsFit(Append(rs, [start |-> x, stop |-> y]), ds)
           /\ ResultsFit(rs, ds)
           /\ Len(Append(rs, [start |-> x, stop |-> y])) = Len(rs) + 1
           /\ Append(rs, [start |-> x, stop |-> y])[Len(rs) + 1] = [start |-> x, stop |-> y]
           /\ \A i \in 1..Len(rs) : Append(rs, [start |-> x, stop |-> y])[i] = rs[i]
           /\ \A i \in 1 .. Len(rs) + 1 : i \in 1..Len(rs) \/ i = Len(rs) + 1
<1> DEFINE r == [start |-> x, stop |-> y]
           qs == Append(rs, r)
<1>1. r \in NewTipResults /\ r.start = x /\ r.stop = y
  BY DEF NewTipResults
<1>2. rs \in Seq(NewTipResults) /\ Len(rs) \in Nat
  BY DEF ResultsFit
<1> HIDE DEF r
<1>3. /\ qs \in Seq(NewTipResults) /\ Len(qs) = Len(rs) + 1
      /\ \A i \in 1..Len(rs) : qs[i] = rs[i]
      /\ qs[Len(rs) + 1] = r
  BY <1>1, <1>2, AppendProperties
<1> HIDE DEF qs
<1>4. \A i \in 1 .. Len(rs) + 1 : i \in 1..Len(rs) \/ i = Len(rs) + 1
  BY <1>2
<1>5. \A i \in 1..Len(rs) : rs[i].stop \in Known(ds) /\ Height[rs[i].start] <= Height[rs[i].stop]
  BY DEF ResultsFit
<1>6. \A i \in 1..Len(qs) : qs[i].stop \in Known(ds) /\ Height[qs[i].start] <= Height[qs[i].stop]
  BY <1>1, <1>3, <1>4, <1>5
<1> QED BY <1>2, <1>3, <1>4, <1>5, <1>6 DEF ResultsFit, qs, r

(* A result is taken from the queue.                                       *)
LEMMA ResultsTail ==
    ASSUME NEW rs, NEW cs, ResultsFit(rs, cs), rs # <<>>
    PROVE  /\ ResultsFit(Tail(rs), cs) /\ Head(rs) \in NewTipResults /\ Head(rs) = rs[1]
           /\ Head(rs).stop \in Known(cs) /\ Height[Head(rs).start] <= Height[Head(rs).stop]
           /\ Len(rs) \in Nat \ {0} /\ Len(Tail(rs)) = Len(rs) - 1
           /\ \A i \in 1..Len(Tail(rs)) : i + 1 \in 1..Len(rs) /\ i + 1 # 1
                                             /\ Tail(rs)[i] = rs[i + 1]
<1>1. rs \in Seq(NewTipResults)
  BY DEF ResultsFit
<1>2. /\ Head(rs) \in NewTipResults /\ Head(rs) = rs[1] /\ Tail(rs) \in Seq(NewTipResults)
      /\ Len(rs) \in Nat \ {0} /\ Len(Tail(rs)) = Len(rs) - 1
      /\ \A i \in 1 .. Len(rs) - 1 : Tail(rs)[i] = rs[i + 1]
  BY <1>1, HeadTailElements
<1>3. 1 \in 1..Len(rs) /\ \A i \in 1 .. Len(rs) - 1 : i + 1 \in 1..Len(rs) /\ i + 1 # 1
  BY <1>2
<1> QED BY <1>2, <1>3 DEF ResultsFit

(* The first n headers of an answer are connected.                          *)
LEMMA PartConnects ==
    ASSUME best \in Headers, GoodChains(chains), NEW n \in 1..Len(Answer)
    PROVE  LET cs == FoldLeft(Connect, chains, SubSeq(Answer, 1, n))
               k  == Base(Tip(chains)) + n
           IN  /\ GoodChains(cs) /\ k \in 0..Height[best]
               /\ \A x : x \in Known(cs) <=>
                     \/ x \in Known(chains)
                     \/ x \in Branch[best] /\ Base(Tip(chains)) < Height[x] /\ Height[x] <= k
<1> DEFINE b == Base(Tip(chains))
           m == b + 1
           k == b + n
<1>1. Tip(chains) \in Headers /\ b \in 0..Height[best] /\ Height[best] \in Nat
  BY KnownClosed, TipsWhere, BaseIs DEF GoodChains
<1>2. b # Height[best]
  <2> SUFFICES ASSUME b = Height[best] PROVE FALSE
    OBVIOUS
  <2>1. Height[best] < m
    BY <1>1
  <2>2. Len(Answer) = 0
    <3>1. Answer = [i \in 1..0 |-> At(best, m + i - 1)]
      BY <2>1 DEF Answer, Path
    <3>2. Answer = <<>>
      BY <3>1
    <3> QED BY <3>2
  <2> QED BY <2>2
<1>3. /\ m \in Nat \ {0} /\ m <= Height[best] /\ Height[best] \in 0..Height[best]
      /\ Answer = Path(best, m, Height[best])
      /\ PathIs(Answer, best, m, Height[best])
      /\ Answer \in Seq(Blocks) /\ Answer # <<>>
      /\ Parent[Answer[1]] \in Known(chains)
  BY <1>2, AnswerIs
<1>4. (m + n) - 1 = k /\ n \in Nat
  BY <1>1
<1> DEFINE s == SubSeq(Answer, 1, n)
<1>5. s = Path(best, m, k) /\ k \in 0..Height[best] /\ m <= k
  BY <1>3, <1>4, PathPrefix
<1>6. PathIs(s, best, m, k)
  BY <1>3, <1>5, PathsAre
<1>7. k \in Nat /\ m > 0
  BY <1>1, <1>3, <1>4
<1>8. s \in Seq(Blocks) /\ s # <<>>
  BY <1>3, <1>6, <1>7, PathsAreDistinct
<1>9. /\ \A i \in 1..Len(s) : i > 1 => Parent[s[i]] = s[i - 1]
      /\ \A x : x \in ToSet(s) <=> x \in Branch[best] /\ m <= Height[x] /\ Height[x] <= k
  BY <1>6 DEF PathIs
<1>10. s[1] = Answer[1]
  <2>1. 1 \in 1..Len(s) /\ 1 \in 1..Len(Answer)
    BY <1>3, <1>6 DEF PathIs
  <2>2. s[1] \in Branch[best] /\ Height[s[1]] = (m + 1) - 1
        /\ Answer[1] \in Branch[best] /\ Height[Answer[1]] = (m + 1) - 1
    BY <1>3, <1>6, <2>1 DEF PathIs
  <2>3. (m + 1) - 1 \in 0..Height[best]
    BY <1>1, <1>3
  <2> QED BY <2>2, <2>3, AtIs
<1> HIDE DEF s
<1>11. /\ GoodChains(FoldLeft(Connect, chains, s))
       /\ \A x : x \in Known(FoldLeft(Connect, chains, s)) <=> x \in Known(chains) \/ x \in ToSet(s)
  BY <1>3, <1>8, <1>9, <1>10, LineConnects
<1>12. \A x \in Branch[best] : m <= Height[x] <=> b < Height[x]
  BY <1>1, BranchHolds, HeightIs
<1> QED BY <1>5, <1>9, <1>11, <1>12 DEF s

(* All of it is.                                                            *)
LEMMA AnswerConnects ==
    ASSUME best \in Headers, GoodChains(chains), best \notin Known(chains)
    PROVE  LET cs == FoldLeft(Connect, chains, Answer)
           IN  /\ GoodChains(cs) /\ best \in Known(cs)
               /\ \A x : x \in Known(cs) <=>
                     \/ x \in Known(chains)
                     \/ x \in Branch[best] /\ Base(Tip(chains)) < Height[x]
<1> DEFINE b == Base(Tip(chains))
           n == b + 1
<1>1. Tip(chains) \in Headers /\ b \in 0..Height[best] /\ Height[best] \in Nat
  BY KnownClosed, TipsWhere, BaseIs DEF GoodChains
<1>2. /\ n \in Nat \ {0} /\ n <= Height[best]
      /\ PathIs(Answer, best, n, Height[best])
      /\ Answer \in Seq(Blocks) /\ Answer # <<>>
      /\ Parent[Answer[1]] \in Known(chains)
  BY AnswerIs, AnswerToNewTip
<1>3. /\ \A i \in 1..Len(Answer) : i > 1 => Parent[Answer[i]] = Answer[i - 1]
      /\ \A x : x \in ToSet(Answer) <=> x \in Branch[best] /\ n <= Height[x] /\ Height[x] <= Height[best]
  BY <1>2 DEF PathIs
<1>4. /\ GoodChains(FoldLeft(Connect, chains, Answer))
      /\ \A x : x \in Known(FoldLeft(Connect, chains, Answer)) <=> x \in Known(chains) \/ x \in ToSet(Answer)
  BY <1>2, <1>3, LineConnects
<1>5. \A x \in Branch[best] : (n <= Height[x] <=> b < Height[x]) /\ Height[x] <= Height[best]
  BY <1>1, BranchHolds, HeightIs, BranchHeight
<1>6. best \in Branch[best] /\ b < Height[best]
  BY <1>1, <1>2, BranchHolds
<1> QED BY <1>3, <1>4, <1>5, <1>6

(* The initial download connects headers that follow on what the store has.*)
LEMMA InitialHeadersKeeps ==
    ASSUME BlocksInv, InitialHeaders
    PROVE  BlocksInv'
<1>0. NetInv /\ HeadInv /\ RoundInv /\ WireInv
  BY DEF BlocksInv
<1>1. PICK n \in 1..Len(Answer) : chains' = FoldLeft(Connect, chains, SubSeq(Answer, 1, n))
  BY DEF InitialHeaders
<1>2. GoodChains(chains') /\ Known(chains) \subseteq Known(chains')
  <2>1. best \in Headers /\ GoodChains(chains)
    BY <1>0 DEF NetInv, HeadInv
  <2> DEFINE cs == FoldLeft(Connect, chains, SubSeq(Answer, 1, n))
  <2>2. GoodChains(cs) /\ \A x \in Known(chains) : x \in Known(cs)
    BY <2>1, PartConnects
  <2> HIDE DEF cs
  <2>3. chains' = cs
    BY <1>1 DEF cs
  <2> QED BY <2>2, <2>3
<1>3. results' = results /\ htask' = htask /\ target' = target
  BY DEF InitialHeaders
<1>4. HeadInv'
  BY <1>0, <1>2, <1>3 DEF HeadInv, ResultsFit
<1>5. NetInv' /\ RoundInv' /\ WireInv'
  <2>1. wire' = wire
    BY DEF InitialHeaders
  <2> QED BY <1>0, <2>1, NetSame, RoundSame, WireSame DEF InitialHeaders, NetInv, dataVars, syncVars
<1> QED BY <1>4, <1>5 DEF BlocksInv

(* Its result is of headers of the longest chain.                          *)
LEMMA InitialDoneKeeps ==
    ASSUME BlocksInv, InitialDone
    PROVE  BlocksInv'
<1>0. NetInv /\ HeadInv /\ RoundInv /\ WireInv
  BY DEF BlocksInv
<1>1. /\ chains' = chains /\ htask' = "follow" /\ target' = target
      /\ results' = Append(results, [start |-> Genesis, stop |-> Tip(chains)])
  BY DEF InitialDone
<1>2. /\ Tip(chains) \in Headers /\ Tip(chains) \in Known(chains)
      /\ Genesis \in Headers /\ Height[Genesis] <= Height[Tip(chains)]
  BY <1>0, KnownClosed, TipsWhere, HeightIs, TreeAssumption DEF HeadInv, GoodChains
<1>3. ResultsFit(results', chains)
  BY <1>0, <1>1, <1>2, ResultsAppend DEF HeadInv
<1>4. HeadInv'
  BY <1>0, <1>1, <1>3 DEF HeadInv
<1>5. NetInv' /\ RoundInv' /\ WireInv'
  <2>1. wire' = wire
    BY DEF InitialDone
  <2> QED BY <1>0, <2>1, NetSame, RoundSame, WireSame DEF InitialDone, NetInv, dataVars, syncVars
<1> QED BY <1>4, <1>5 DEF BlocksInv

(* A new tip connects, and its result is of headers that the store then    *)
(* holds.                                                                  *)
LEMMA NewTipKeeps ==
    ASSUME BlocksInv, NewTip
    PROVE  BlocksInv'
<1>0. NetInv /\ HeadInv /\ RoundInv /\ WireInv
  BY DEF BlocksInv
<1> DEFINE old == Tip(chains)
           cs == FoldLeft(Connect, chains, Answer)
           forked == Len(cs) > Len(chains)
           start == IF forked THEN At(best, CommonHeight(best, old) + 1) ELSE Answer[1]
<1>1. best \in Headers /\ GoodChains(chains) /\ best \notin Known(chains)
  BY <1>0 DEF NetInv, HeadInv, NewTip
<1>2. old \in Headers /\ Branch[old] \subseteq Known(chains)
  BY <1>1, KnownClosed, TipsWhere DEF GoodChains
<1>3. GoodChains(cs) /\ best \in Known(cs) /\ Known(chains) \subseteq Known(cs)
  BY <1>1, AnswerConnects
<1>4. start \in Branch[best]
  <2>1. CASE forked
    <3> DEFINE n == CommonHeight(best, old)
    <3>1. n \in 0..Height[best] /\ Height[best] \in Nat
      BY <1>1, <1>2, CommonIs, HeightIs
    <3>2. n # Height[best]
      <4>1. best \in Branch[best] /\ best \notin Branch[old]
        BY <1>1, <1>2, BranchHolds
      <4>2. ~(Height[best] <= n)
        BY <1>1, <1>2, <4>1, CommonIs
      <4> QED BY <3>1, <4>2
    <3>3. n + 1 \in 0..Height[best]
      BY <3>1, <3>2
    <3> HIDE DEF n
    <3>4. At(best, n + 1) \in Branch[best]
      BY <1>1, <3>3, AtIs
    <3> QED BY <2>1, <3>4 DEF n
  <2>2. CASE ~forked
    <3>1. Answer[1] \in Branch[best]
      <4>1. PathIs(Answer, best, Base(old) + 1, Height[best])
        BY <1>1, AnswerIs, AnswerToNewTip
      <4>2. 1 \in 1..Len(Answer)
        BY <4>1 DEF PathIs
      <4> QED BY <4>1, <4>2 DEF PathIs
    <3> QED BY <2>2, <3>1
  <2> QED BY <2>1, <2>2
<1>5. start \in Headers /\ Height[start] <= Height[best]
  BY <1>1, <1>4, BranchHolds, BranchHeight
<1>6. /\ chains' = cs /\ target' = target
      /\ \/ htask' = "dead" /\ results' = results
         \/ htask' = htask /\ results' = Append(results, [start |-> start, stop |-> best])
  BY DEF NewTip
<1> HIDE DEF cs, start
<1>7. ResultsFit(results', chains')
  <2>1. ResultsFit(results, chains)
    BY <1>0 DEF HeadInv
  <2>2. ResultsFit(Append(results, [start |-> start, stop |-> best]), cs) /\ ResultsFit(results, cs)
    BY <1>1, <1>3, <1>5, <2>1, ResultsAppend
  <2> QED BY <1>6, <2>2
<1>8. HeadInv'
  BY <1>0, <1>3, <1>6, <1>7 DEF HeadInv
<1>9. NetInv' /\ RoundInv' /\ WireInv'
  <2>1. wire' = wire
    BY DEF NewTip
  <2> QED BY <1>0, <2>1, NetSame, RoundSame, WireSame DEF NewTip, NetInv, dataVars, syncVars
<1> QED BY <1>8, <1>9 DEF BlocksInv

-----------------------------------------------------------------------------
(* blocks_sync_task().                                                      *)

(* A round begins when none of its predecessor's blocks is missing, hence  *)
(* on no wire.                                                             *)
LEMMA RoundStarts ==
    ASSUME BlocksInv, missing = {}, NEW h \in Headers, NEW n \in Nat, NEW k \in 0..Height[h],
           n > 0, n <= k, NEW from \in Headers, NEW to \in Headers,
           Round(Path(h, n, k), from, to), UNCHANGED <<done, delivered>>
    PROVE  /\ RoundInv' /\ WireInv' /\ wire' \in [Clients -> Seq(Traffic)]
           /\ queued' \in [Clients -> Nat]
           /\ InRound' /\ wanted' = Path(h, n, k) /\ PathIs(wanted', h, n, k)
           /\ missing' = ToSet(wanted')
<1>0. NetInv /\ RoundInv /\ WireInv
  BY DEF BlocksInv
<1> DEFINE s == Path(h, n, k)
<1>1. PathIs(s, h, n, k) /\ k \in Nat
  BY PathsAre, HeightIs
<1>2. /\ btask' = "ask" /\ wanted' = s /\ todo' = s /\ missing' = ToSet(s)
      /\ queued' = [c \in Clients |-> IF c \in pool THEN 1 ELSE queued[c]]
      /\ wire' = Send(Up, ListMsg(from, to))
  BY DEF Round
<1>3. s \in Seq(Blocks) /\ s # <<>> /\ IsInjective(s)
  BY <1>1, PathsAreDistinct
<1>4. \A i \in 1..Len(s) : i > 1 => Parent[s[i]] = s[i - 1]
  BY <1>1 DEF PathIs
<1> HIDE DEF s
<1>5. ToSet(s) \subseteq Blocks
  BY <1>3, ToSetIn
<1>6. RoundInv'
  BY <1>0, <1>2, <1>3, <1>4, <1>5 DEF RoundInv, InRound
<1>7. queued' \in [Clients -> Nat]
  BY <1>0, <1>2 DEF NetInv
<1>8. wire \in [Clients -> Seq(Traffic)] /\ ListMsg(from, to) \in Traffic
      /\ ListMsg(from, to).kind # "block"
  BY <1>0, TrafficIs DEF NetInv
<1>9. wire' \in [Clients -> Seq(Traffic)]
  BY <1>2, <1>8, SendIs
<1>10. ASSUME NEW c \in Clients, NEW i \in 1..Len(wire'[c]), NEW x \in Blocks PROVE ~Asked(c, i, x)'
  <2> SUFFICES ASSUME Asked(c, i, x)' PROVE FALSE
    OBVIOUS
  <2>1. wire'[c][i] = BlockMsg(x)
    BY DEF Asked
  <2>2. ListMsg(from, to) # BlockMsg(x)
    BY <1>8, TrafficIs
  <2>3. i \in 1..Len(wire[c]) /\ wire[c][i] = BlockMsg(x)
    BY <1>2, <1>8, <2>1, <2>2, SendIs
  <2> QED BY <1>0, <2>3 DEF WireInv, Asked
<1>11. WireInv'
  BY <1>10 DEF WireInv
<1> QED BY <1>1, <1>2, <1>6, <1>7, <1>9, <1>11 DEF InRound, s

(* The round of a result is a path of the longest chain that is not empty. *)
LEMMA TipRoundKeeps ==
    ASSUME BlocksInv, TipRound
    PROVE  LET r == Head(results)
               n == Max({Height[r.start], 1})
           IN  /\ BlocksInv'
               /\ r = results[1] /\ Tip(chains) \in Headers /\ r.stop \in Headers
               /\ n \in Nat /\ n > 0 /\ n <= Height[r.stop]
               /\ n = IF Height[r.start] = 0 THEN 1 ELSE Height[r.start]
               /\ Height[r.stop] \in 0..Height[Tip(chains)]
               /\ InRound' /\ PathIs(wanted', Tip(chains), n, Height[r.stop])
               /\ missing' = ToSet(wanted')
<1>0. NetInv /\ HeadInv /\ RoundInv /\ WireInv
  BY DEF BlocksInv
<1> DEFINE r == Head(results)
           t == Tip(chains)
           n == Max({Height[r.start], 1})
<1>1. results # <<>> /\ ResultsFit(results, chains) /\ GoodChains(chains) /\ GoodChains(done)
  BY <1>0 DEF TipRound, HeadInv, RoundInv
<1>2. /\ r \in NewTipResults /\ r = results[1] /\ ResultsFit(Tail(results), chains)
      /\ Height[r.start] <= Height[r.stop]
  BY <1>1, ResultsTail
<1>3. r.start \in Headers /\ r.stop \in Headers /\ t \in Headers
  BY <1>1, <1>2, KnownClosed, TipsWhere DEF NewTipResults, GoodChains
<1>4. r.stop # Genesis
  BY <1>1, KnownClosed DEF TipRound
<1>5. /\ Height[r.start] \in Nat /\ Height[r.stop] \in Nat /\ Height[t] \in Nat
      /\ Height[r.stop] # 0 /\ Height[r.stop] <= Height[t]
  <2>1. Height[r.start] \in Nat /\ Height[r.stop] \in Nat /\ Height[t] \in Nat
    BY <1>3, HeightIs
  <2>2. Height[r.stop] = Height[Parent[r.stop]] + 1 /\ Height[Parent[r.stop]] \in Nat
    BY <1>3, <1>4, HeightIs, TreeAssumption
  <2>3. Height[r.stop] <= Height[t]
    BY DEF TipRound, HasHeight
  <2> QED BY <2>1, <2>2, <2>3
<1>6. n = IF Height[r.start] = 0 THEN 1 ELSE Height[r.start]
  <2>1. {Height[r.start], 1} \in SUBSET (0 .. Height[r.start] + 1) /\ {Height[r.start], 1} # {}
        /\ Height[r.start] + 1 \in Nat
    BY <1>5
  <2>2. n \in {Height[r.start], 1} /\ \A y \in {Height[r.start], 1} : y <= n
    BY <2>1, MaxBounded
  <2>3. \A a \in Nat : \A b : b \in {a, 1} /\ a <= b /\ 1 <= b => b = IF a = 0 THEN 1 ELSE a
    OBVIOUS
  <2> HIDE DEF n
  <2>4. n \in {Height[r.start], 1} /\ Height[r.start] <= n /\ 1 <= n
    BY <2>2
  <2> QED BY <1>5, <2>3, <2>4
<1> HIDE DEF n
<1>7. n \in Nat /\ n > 0 /\ n <= Height[r.stop] /\ Height[r.stop] \in 0..Height[t]
  BY <1>2, <1>5, <1>6
<1>8. /\ Round(Path(t, n, Height[r.stop]), r.start, r.stop) /\ results' = Tail(results)
      /\ UNCHANGED <<netVars, have, moving, chains, htask, target, done, delivered>>
  BY DEF TipRound, n
<1> HIDE DEF r, t
<1>9. missing = {}
  BY <1>0 DEF RoundInv, InRound, TipRound
<1>10. /\ RoundInv' /\ WireInv' /\ wire' \in [Clients -> Seq(Traffic)]
       /\ queued' \in [Clients -> Nat]
       /\ InRound' /\ PathIs(wanted', t, n, Height[r.stop]) /\ missing' = ToSet(wanted')
  BY <1>3, <1>7, <1>8, <1>9, RoundStarts
<1>11. NetInv'
  BY <1>0, <1>8, <1>10 DEF NetInv, netVars
<1>12. HeadInv'
  BY <1>0, <1>2, <1>8 DEF HeadInv, r
<1> QED BY <1>2, <1>3, <1>6, <1>7, <1>10, <1>11, <1>12 DEF BlocksInv, r, t, n

(* The same for a round that catches up.                                   *)
LEMMA CatchUpRoundKeeps ==
    ASSUME BlocksInv, CatchUpRound
    PROVE  LET low  == Height[Tip(done)]
               high == low + Min({MaxRound, Height[Tip(chains)] - low})
           IN  /\ BlocksInv'
               /\ Tip(chains) \in Headers /\ Tip(done) \in Headers
               /\ low \in Nat /\ low < high /\ high \in 0..Height[Tip(chains)]
               /\ InRound' /\ PathIs(wanted', Tip(chains), low + 1, high)
               /\ missing' = ToSet(wanted')
<1>0. NetInv /\ HeadInv /\ RoundInv /\ WireInv
  BY DEF BlocksInv
<1> DEFINE t == Tip(chains)
           low == Height[Tip(done)]
           high == low + Min({MaxRound, Height[t] - low})
           stop == IF high >= Height[t] THEN NoStop ELSE At(t, high + 1)
<1>1. t \in Headers /\ Tip(done) \in Headers
  BY <1>0, KnownClosed, TipsWhere DEF HeadInv, RoundInv, GoodChains
<1>2. /\ low \in Nat /\ Height[t] \in Nat /\ low <= Height[t] /\ low # Height[t]
      /\ MaxRound \in Nat \ {0}
  BY <1>1, HeightIs, DownloadAssumption DEF CatchUpRound, AtTip, HasHeight
<1>3. high = IF MaxRound <= Height[t] - low THEN low + MaxRound ELSE low + (Height[t] - low)
  <2>1. MaxRound \in Nat /\ Height[t] - low \in Nat
    BY <1>2
  <2> HIDE DEF low, t
  <2>2. Min({MaxRound, Height[t] - low})
            = IF MaxRound <= Height[t] - low THEN MaxRound ELSE Height[t] - low
    BY <2>1, MinPair
  <2> QED BY <2>2 DEF high
<1> HIDE DEF high
<1>4. low < high /\ high \in 0..Height[t] /\ high <= Height[t]
  BY <1>2, <1>3
<1>5. low + 1 \in Nat /\ low + 1 > 0 /\ low + 1 <= high
  BY <1>2, <1>4
<1>6. At(t, low) \in Headers /\ stop \in Headers
  <2>1. low \in 0..Height[t]
    BY <1>2
  <2>2. At(t, low) \in Headers
    BY <1>1, <2>1, AtIs, BranchHolds
  <2>3. stop = IF high >= Height[t] THEN NoStop ELSE At(t, high + 1)
    OBVIOUS
  <2> HIDE DEF stop
  <2>4. CASE high >= Height[t]
    BY <2>2, <2>3, <2>4, TreeAssumption DEF NoStop
  <2>5. CASE ~(high >= Height[t])
    <3>1. high + 1 \in 0..Height[t]
      BY <1>2, <1>4, <2>5
    <3>2. At(t, high + 1) \in Headers
      BY <1>1, <3>1, AtIs, BranchHolds
    <3> QED BY <2>2, <2>3, <2>5, <3>2
  <2> QED BY <2>4, <2>5
<1>7. /\ Round(Path(t, low + 1, high), At(t, low), stop)
      /\ UNCHANGED <<netVars, have, moving, headVars, done, delivered>>
  BY DEF CatchUpRound, high
<1>8. missing = {}
  BY <1>0 DEF RoundInv, InRound, CatchUpRound
<1> HIDE DEF t, low, stop
<1>9. /\ RoundInv' /\ WireInv' /\ wire' \in [Clients -> Seq(Traffic)]
      /\ queued' \in [Clients -> Nat]
      /\ InRound' /\ PathIs(wanted', t, low + 1, high) /\ missing' = ToSet(wanted')
  BY <1>1, <1>4, <1>5, <1>6, <1>7, <1>8, RoundStarts
<1>10. NetInv'
  BY <1>0, <1>7, <1>9 DEF NetInv, netVars
<1>11. HeadInv'
  BY <1>0, <1>7, HeadSame
<1> QED BY <1>1, <1>2, <1>4, <1>9, <1>10, <1>11 DEF BlocksInv, t, low, high

(* Waiting for a result, skipping one and ending touch no block.           *)
LEMMA WaitingKeeps ==
    ASSUME BlocksInv, AwaitResult \/ SkipResult \/ HeightMissing
    PROVE  BlocksInv'
<1>0. NetInv /\ HeadInv /\ RoundInv /\ WireInv
  BY DEF BlocksInv
<1>1. /\ ~InRound /\ btask' \in {"idle", "get", "dead"}
      /\ wire' = wire /\ done' = done /\ wanted' = wanted /\ todo' = todo
      /\ missing' = missing /\ delivered' = delivered
  BY DEF InRound, AwaitResult, SkipResult, HeightMissing, dataVars
<1>2. RoundInv'
  BY <1>0, <1>1 DEF RoundInv, InRound
<1>3. /\ chains' = chains /\ htask' = htask /\ target' = target
      /\ \/ results' = results
         \/ results # <<>> /\ results' = Tail(results)
  BY DEF AwaitResult, SkipResult, HeightMissing, headVars
<1>4. HeadInv'
  <2>1. ResultsFit(results, chains)
    BY <1>0 DEF HeadInv
  <2>2. results # <<>> => ResultsFit(Tail(results), chains)
    BY <2>1, ResultsTail
  <2>3. ResultsFit(results', chains)
    BY <1>3, <2>1, <2>2
  <2> QED BY <1>0, <1>3, <2>3 DEF HeadInv
<1>5. NetInv'
  BY <1>0, <1>1, NetSame DEF NetInv, AwaitResult, SkipResult, HeightMissing
<1>6. WireInv'
  BY <1>0, <1>1, WireSame
<1> QED BY <1>2, <1>4, <1>5, <1>6 DEF BlocksInv

(* A list without repetitions, without its first element.                   *)
LEMMA TailOnce ==
    ASSUME NEW S, NEW s \in Seq(S), s # <<>>, IsInjective(s)
    PROVE  IsInjective(Tail(s)) /\ Head(s) \notin ToSet(Tail(s))
<1>1. /\ Head(s) = s[1] /\ Tail(s) \in Seq(S)
      /\ Len(s) \in Nat \ {0} /\ Len(Tail(s)) = Len(s) - 1
      /\ \A i \in 1 .. Len(s) - 1 : Tail(s)[i] = s[i + 1]
  BY HeadTailElements
<1> DEFINE t == Tail(s)
<1>2. \A i, j \in 1..Len(s) : s[i] = s[j] => i = j
  BY DEF IsInjective
<1>3. /\ 1 \in 1..Len(s)
      /\ \A i \in 1 .. Len(s) - 1 : i + 1 \in 1..Len(s) /\ i + 1 # 1
      /\ \A i, j \in 1 .. Len(s) - 1 : i + 1 = j + 1 => i = j
  BY <1>1
<1> HIDE DEF t
<1>4. t \in Seq(S) /\ Len(t) = Len(s) - 1 /\ \A i \in 1..Len(t) : t[i] = s[i + 1]
  BY <1>1 DEF t
<1>5. \A i, j \in 1..Len(t) : t[i] = t[j] => i = j
  BY <1>2, <1>3, <1>4
<1>6. IsInjective(t)
  BY <1>4, <1>5 DEF IsInjective
<1>7. \A x : x \in ToSet(t) <=> \E i \in 1..Len(t) : t[i] = x
  BY <1>4, ToSetIn
<1>8. s[1] \notin ToSet(t)
  BY <1>2, <1>3, <1>4, <1>7
<1> QED BY <1>1, <1>6, <1>8 DEF t

(* A block is asked for that is on no wire: from then on it is on one.     *)
LEMMA AskForKeeps ==
    ASSUME BlocksInv, NEW c \in Clients, AskFor(c)
    PROVE  BlocksInv' /\ InRound /\ InRound'
<1>0. NetInv /\ HeadInv /\ RoundInv /\ WireInv
  BY DEF BlocksInv
<1> DEFINE h == Head(todo)
<1>1. /\ btask = "ask" /\ h \in missing /\ todo' = Tail(todo)
      /\ btask' = IF Len(todo) = 1 THEN "wait" ELSE "ask"
      /\ \/ wire' = wire
         \/ wire' = Send({c}, BlockMsg(h))
      /\ done' = done /\ wanted' = wanted /\ missing' = missing /\ delivered' = delivered
  BY DEF AskFor, dataVars
<1>2. todo \in Seq(Blocks) /\ todo # <<>> /\ IsInjective(todo) /\ ToSet(todo) \subseteq missing
      /\ missing \subseteq Blocks
  BY <1>0, <1>1 DEF RoundInv
<1>3. /\ h \in Blocks /\ todo' \in Seq(Blocks) /\ ToSet(todo) = {h} \cup ToSet(todo')
      /\ Len(todo) \in Nat \ {0} /\ Len(todo') = Len(todo) - 1
      /\ IsInjective(todo') /\ h \notin ToSet(todo')
  BY <1>1, <1>2, HeadTailElements, TailOnce
<1> HIDE DEF h
<1>4. btask' = "ask" <=> todo' # <<>>
  <2>1. Len(todo') = 0 <=> todo' = <<>>
    BY <1>3, EmptySeq
  <2>2. Len(todo') = 0 <=> Len(todo) = 1
    BY <1>3
  <2> QED BY <1>1, <2>1, <2>2
<1>5. InRound /\ InRound'
  BY <1>1 DEF InRound
<1>6. RoundInv'
  <2>1. ToSet(todo') \subseteq missing'
    BY <1>1, <1>2, <1>3
  <2>2. btask' \in {"ask", "wait"}
    BY <1>1
  <2> QED BY <1>0, <1>1, <1>3, <1>4, <1>5, <2>1, <2>2 DEF RoundInv
<1>7. wire \in [Clients -> Seq(Traffic)] /\ BlockMsg(h) \in Traffic
  BY <1>0, <1>3, TrafficIs DEF NetInv
<1>8. wire' \in [Clients -> Seq(Traffic)]
  BY <1>1, <1>7, SendIs
<1>9. ASSUME NEW b \in Clients, NEW i \in 1..Len(wire'[b]), NEW x \in Blocks, Asked(b, i, x)'
      PROVE  \/ i \in 1..Len(wire[b]) /\ Asked(b, i, x) /\ x # h
             \/ b = c /\ i = Len(wire[c]) + 1 /\ x = h
  <2>1. wire'[b][i] = BlockMsg(x)
    BY <1>9 DEF Asked
  <2>2. \/ i \in 1..Len(wire[b]) /\ wire[b][i] = BlockMsg(x)
        \/ b = c /\ i = Len(wire[c]) + 1 /\ BlockMsg(h) = BlockMsg(x)
    <3>1. CASE wire' = wire
      BY <2>1, <3>1
    <3>2. CASE wire' = Send({c}, BlockMsg(h))
      BY <1>7, <2>1, <3>2, SendIs
    <3> QED BY <1>1, <3>1, <3>2
  <2>3. CASE i \in 1..Len(wire[b]) /\ wire[b][i] = BlockMsg(x)
    <3>1. Asked(b, i, x)
      BY <2>3 DEF Asked
    <3>2. x \notin ToSet(todo)
      BY <1>0, <2>3, <3>1 DEF WireInv
    <3> QED BY <1>3, <2>3, <3>1, <3>2
  <2>4. CASE b = c /\ i = Len(wire[c]) + 1 /\ BlockMsg(h) = BlockMsg(x)
    BY <2>4, TrafficIs
  <2> QED BY <2>2, <2>3, <2>4
<1>10. WireInv'
  <2>1. ASSUME NEW b \in Clients, NEW i \in 1..Len(wire'[b]), NEW x \in Blocks, Asked(b, i, x)'
        PROVE  x \in missing' /\ x \notin ToSet(todo')
    <3>1. CASE i \in 1..Len(wire[b]) /\ Asked(b, i, x)
      <4>1. x \in missing /\ x \notin ToSet(todo)
        BY <1>0, <3>1 DEF WireInv
      <4> QED BY <1>1, <1>3, <4>1
    <3>2. CASE x = h
      BY <1>1, <1>3, <3>2
    <3> QED BY <1>9, <2>1, <3>1, <3>2
  <2>2. ASSUME NEW a \in Clients, NEW b \in Clients, NEW i \in 1..Len(wire'[a]),
               NEW j \in 1..Len(wire'[b]), NEW x \in Blocks, Asked(a, i, x)', Asked(b, j, x)'
        PROVE  a = b /\ i = j
    <3>1. CASE x = h
      BY <1>9, <2>2, <3>1
    <3>2. CASE x # h
      <4>1. i \in 1..Len(wire[a]) /\ Asked(a, i, x) /\ j \in 1..Len(wire[b]) /\ Asked(b, j, x)
        BY <1>9, <2>2, <3>2
      <4> QED BY <1>0, <4>1 DEF WireInv
    <3> QED BY <3>1, <3>2
  <2> QED BY <2>1, <2>2 DEF WireInv
<1>11. NetInv' /\ HeadInv'
  BY <1>0, <1>8, NetSame, HeadSame DEF AskFor
<1> QED BY <1>5, <1>6, <1>10, <1>11 DEF BlocksInv

(* What becomes done has been delivered, since nothing of the round is     *)
(* missing.                                                                *)
LEMMA RoundDoneKeeps ==
    ASSUME BlocksInv, RoundDone
    PROVE  /\ BlocksInv'
           /\ \/ /\ Parent[wanted[1]] \in Known(done) /\ btask' = "idle"
                 /\ \A x : x \in Known(done') <=> x \in Known(done) \/ x \in ToSet(wanted)
              \/ Parent[wanted[1]] \notin Known(done) /\ btask' = "dead" /\ done' = done
<1>0. NetInv /\ HeadInv /\ RoundInv /\ WireInv
  BY DEF BlocksInv
<1>1. /\ btask = "wait" /\ missing = {} /\ InRound /\ ~InRound'
      /\ wire' = wire /\ wanted' = wanted /\ todo' = todo
      /\ missing' = missing /\ delivered' = delivered
  BY DEF RoundDone, InRound, dataVars
<1>2. /\ GoodChains(done) /\ wanted \in Seq(Blocks) /\ wanted # <<>>
      /\ \A i \in 1..Len(wanted) : i > 1 => Parent[wanted[i]] = wanted[i - 1]
      /\ ToSet(wanted) \subseteq delivered /\ todo = <<>> /\ Known(done) \subseteq delivered
  BY <1>0, <1>1 DEF RoundInv
<1>3. ASSUME Parent[wanted[1]] \in Known(done)
      PROVE  /\ RoundInv' /\ btask' = "idle"
             /\ \A x : x \in Known(done') <=> x \in Known(done) \/ x \in ToSet(wanted)
  <2> DEFINE ds == FoldLeft(Connect, done, wanted)
  <2>1. btask' = "idle" /\ done' = ds
    BY <1>3 DEF RoundDone
  <2>2. GoodChains(ds) /\ \A x : x \in Known(ds) <=> x \in Known(done) \/ x \in ToSet(wanted)
    BY <1>2, <1>3, LineConnects
  <2> HIDE DEF ds
  <2>3. RoundInv'
    BY <1>0, <1>1, <1>2, <2>1, <2>2 DEF RoundInv
  <2> QED BY <2>1, <2>2, <2>3
<1>4. ASSUME Parent[wanted[1]] \notin Known(done)
      PROVE  RoundInv' /\ btask' = "dead" /\ done' = done
  <2>1. btask' = "dead" /\ done' = done
    BY <1>4 DEF RoundDone
  <2>2. RoundInv'
    BY <1>0, <1>1, <1>2, <2>1 DEF RoundInv
  <2> QED BY <2>1, <2>2
<1>5. RoundInv'
  BY <1>3, <1>4
<1>6. NetInv' /\ HeadInv' /\ WireInv'
  BY <1>0, <1>1, NetSame, HeadSame, WireSame DEF RoundDone, NetInv
<1> QED BY <1>3, <1>4, <1>5, <1>6 DEF BlocksInv

-----------------------------------------------------------------------------
(* The invariant holds.                                                     *)

(* Nothing is wanted at the start.                                         *)
LEMMA BlocksInvStarts ==
    ASSUME Init PROVE BlocksInv
<1>1. PICK h \in Branch[best] : \E k \in Branch[h] :
           chains = ChainTo(h) /\ done = ChainTo(k) /\ delivered = Branch[k]
  BY DEF Init
<1>2. PICK k \in Branch[h] : chains = ChainTo(h) /\ done = ChainTo(k) /\ delivered = Branch[k]
  BY <1>1
<1>3. best \in Headers /\ h \in Headers /\ k \in Headers
  BY BranchHolds DEF Init
<1>4. GoodChains(chains) /\ GoodChains(done) /\ Known(done) = delivered /\ delivered \subseteq Headers
  BY <1>2, <1>3, ChainToIs, BranchHolds
<1>5. NetInv
  <2>1. wire \in [Clients -> Seq(Traffic)]
    <3>1. <<>> \in Seq(Traffic) /\ wire = [c \in Clients |-> <<>>]
      BY DEF Init
    <3> QED BY <3>1
  <2>2. have \in [Hosts -> SUBSET Blocks]
    BY DEF Init
  <2>3. queued \in [Clients -> Nat]
    BY DEF Init
  <2>4. moving \in Seq(Nat)
    BY DEF Init
  <2>5. events \in 0..MaxEvents
    BY DownloadAssumption DEF Init
  <2> QED BY <1>3, <2>1, <2>2, <2>3, <2>4, <2>5 DEF Init, NetInv
<1>6. HeadInv
  <2>1. results \in Seq(NewTipResults) /\ Len(results) = 0 /\ 1..0 = {}
    BY DEF Init
  <2>2. ResultsFit(results, chains)
    BY <2>1 DEF ResultsFit
  <2> QED BY <1>3, <1>4, <2>2, HeightIs DEF Init, HeadInv
<1>7. RoundInv
  <2>1. IsInjective(<<>>) /\ ToSet(<<>>) = {}
    BY DEF IsInjective, ToSet
  <2>2. /\ btask = "idle" /\ wanted = <<>> /\ todo = <<>> /\ missing = {}
    BY DEF Init
  <2> QED BY <1>4, <2>1, <2>2 DEF RoundInv, InRound
<1>8. WireInv
  <2>1. \A c \in Clients : Len(wire[c]) = 0
    BY DEF Init
  <2>2. 1..0 = {}
    OBVIOUS
  <2> QED BY <2>1, <2>2 DEF WireInv
<1> QED BY <1>5, <1>6, <1>7, <1>8 DEF BlocksInv

(* Every step keeps the invariant.                                         *)
LEMMA BlocksInvStep ==
    ASSUME BlocksInv, [Next]_vars PROVE BlocksInv'
<1>1. ASSUME NEW h \in Blocks, Advance(h) PROVE BlocksInv'
  BY <1>1, AdvanceKeeps
<1>2. ASSUME NEW c \in Clients, Close(c) PROVE BlocksInv'
  BY <1>2, CloseKeeps
<1>3. ASSUME NEW c \in Clients, Hear(c) \/ Deliver(c) \/ Leave(c) \/ Join(c) \/ AskFor(c)
      PROVE  BlocksInv'
  BY <1>3, HearKeeps, DeliverKeeps, LeaveKeeps, JoinKeeps, AskForKeeps
<1>4. CASE Reallocate
  BY <1>4, ReallocateKeeps
<1>5. CASE InitialHeaders \/ InitialDone \/ NewTip
  BY <1>5, InitialHeadersKeeps, InitialDoneKeeps, NewTipKeeps
<1>6. CASE AwaitResult \/ SkipResult \/ HeightMissing
  BY <1>6, WaitingKeeps
<1>7. CASE TipRound
  BY <1>7, TipRoundKeeps
<1>8. CASE CatchUpRound
  BY <1>8, CatchUpRoundKeeps
<1>9. CASE RoundDone
  BY <1>9, RoundDoneKeeps
<1>10. CASE UNCHANGED vars
  <2>1. UNCHANGED <<netVars, wire, have, workVars, headVars, syncVars, dataVars>>
    BY <1>10 DEF vars
  <2>2. wire' = wire /\ UNCHANGED <<missing, todo>> /\ UNCHANGED <<netVars, have, workVars>>
        /\ UNCHANGED headVars /\ UNCHANGED <<syncVars, dataVars>>
    BY <2>1 DEF dataVars, syncVars
  <2>3. NetInv /\ HeadInv /\ RoundInv /\ WireInv /\ wire \in [Clients -> Seq(Traffic)]
    BY DEF BlocksInv, NetInv
  <2>4. NetInv'
    BY <2>2, <2>3, NetSame
  <2> QED BY <2>2, <2>3, <2>4, HeadSame, RoundSame, WireSame DEF BlocksInv
<1> QED BY <1>1, <1>2, <1>3, <1>4, <1>5, <1>6, <1>7, <1>8, <1>9, <1>10 DEF Next, Progress

(* A block of the round is waiting to be asked for, on one wire, delivered *)
(* or lost.                                                                *)
THEOREM BlocksAreApart == Spec => []BlocksInv
<1>1. Init => BlocksInv
  BY BlocksInvStarts
<1>2. BlocksInv /\ [Next]_vars => BlocksInv'
  BY BlocksInvStep
<1> QED BY <1>1, <1>2, PTL DEF Spec

(* Every variable has its type, in every state of every instance.            *)
THEOREM TypeCorrect == Spec => []TypeOK
<1>1. BlocksInv => TypeOK
  <2> SUFFICES ASSUME BlocksInv PROVE TypeOK
    OBVIOUS
  <2>1. NetInv /\ HeadInv /\ RoundInv
    BY DEF BlocksInv
  <2>2. wire \in [Clients -> Seq(Messages)]
    <3>1. \A c \in Clients : wire[c] \in Seq(Messages)
      <4>1. \A s \in Seq(Traffic) : s \in Seq(Messages)
        BY TrafficIs
      <4> QED BY <2>1, <4>1 DEF NetInv
    <3> QED BY <2>1, <3>1 DEF NetInv
  <2>3. IsChains(chains) /\ IsChains(done)
    BY <2>1 DEF HeadInv, RoundInv, GoodChains
  <2>4. \A i \in DOMAIN results : {results[i].start, results[i].stop} \subseteq Headers
    <3>1. results \in Seq(NewTipResults)
      BY <2>1 DEF HeadInv, ResultsFit
    <3>2. \A i \in DOMAIN results : results[i] \in NewTipResults
      BY <3>1
    <3> QED BY <3>2 DEF NewTipResults
  <2> QED BY <2>1, <2>2, <2>3, <2>4 DEF TypeOK, NetInv, HeadInv, RoundInv
<1> QED BY <1>1, BlocksAreApart, PTL

(* Blocks are entered as done after on_block() has been called for them.    *)
THEOREM DoneDelivered == Spec => []DoneMeansDelivered
<1>1. BlocksInv => DoneMeansDelivered
  BY DEF BlocksInv, RoundInv, DoneMeansDelivered
<1> QED BY <1>1, BlocksAreApart, PTL

(* get_wanted_block_data() never looks for a block that has been delivered.  *)
THEOREM NeverStuck == Spec => []StillWanted
<1>1. BlocksInv => StillWanted
  BY DEF BlocksInv, RoundInv, StillWanted
<1> QED BY <1>1, BlocksAreApart, PTL

-----------------------------------------------------------------------------
(* Without a reorganisation.                                                *)

(* What LineInv and BlocksInv say about the headers in them.                *)
LEMMA LineIs ==
    ASSUME BlocksInv, LineInv
    PROVE  /\ best \in Headers /\ Tip(chains) \in Headers /\ Tip(done) \in Headers
           /\ Reach \in Headers /\ Height[Reach] <= Height[Tip(chains)]
           /\ Branch[Reach] \subseteq Branch[Tip(chains)]
           /\ Branch[Tip(chains)] \subseteq Branch[best]
           /\ Height[Tip(chains)] \in Nat /\ Height[Reach] \in Nat /\ Height[best] \in Nat
<1>1. best \in Headers /\ GoodChains(chains) /\ GoodChains(done)
  BY DEF BlocksInv, NetInv, HeadInv, RoundInv
<1>2. Tip(chains) \in Headers /\ Tip(done) \in Headers
  BY <1>1, KnownClosed, TipsWhere DEF GoodChains
<1>3. Reach \in Branch[Tip(chains)] /\ Tip(chains) \in Branch[best]
  BY DEF LineInv
<1>4. Reach \in Headers /\ Height[Reach] <= Height[Tip(chains)]
      /\ Branch[Reach] \subseteq Branch[Tip(chains)] /\ Branch[Tip(chains)] \subseteq Branch[best]
  BY <1>1, <1>2, <1>3, BranchHolds, BranchHeight
<1> QED BY <1>1, <1>2, <1>4, HeightIs

(* The chains follow the nodes' chain up.                                   *)
LEMMA LineGrows ==
    ASSUME best \in Headers, GoodChains(chains), Tip(chains) \in Branch[best],
           Known(chains) = Branch[Tip(chains)], NEW cs, GoodChains(cs),
           NEW k \in 0..Height[best], Height[Tip(chains)] <= k,
           \A x : x \in Known(cs) <=>
                     \/ x \in Known(chains)
                     \/ x \in Branch[best] /\ Base(Tip(chains)) < Height[x] /\ Height[x] <= k
    PROVE  /\ Len(cs) = 1 /\ Tip(cs) = At(best, k) /\ Known(cs) = Branch[Tip(cs)]
           /\ Tip(cs) \in Branch[best] /\ Tip(chains) \in Branch[Tip(cs)]
           /\ Branch[Tip(chains)] \subseteq Branch[Tip(cs)]
<1> DEFINE t == Tip(chains)
           y == At(best, k)
<1>1. t \in Headers /\ Base(t) = Height[t] /\ Height[t] \in Nat
  BY BranchHolds, BaseIs, HeightIs
<1>2. y \in Branch[best] /\ Height[y] = k /\ y \in Headers
  BY AtIs, BranchHolds
<1> HIDE DEF y, t
<1>3. t \in Branch[y] /\ Branch[t] \subseteq Branch[y]
  BY <1>1, <1>2, LowerIsBelow, BranchHolds DEF t
<1>4. ASSUME NEW x PROVE x \in Known(cs) <=> x \in Branch[y]
  <2>1. ASSUME x \in Branch[best], Height[x] <= k PROVE x \in Branch[y]
    BY <1>2, <2>1, LowerIsBelow
  <2>2. ASSUME x \in Branch[y] PROVE x \in Branch[best] /\ Height[x] <= k
    BY <1>2, <2>2, BranchHolds, BranchHeight
  <2>3. ASSUME x \in Branch[best], ~(Height[t] < Height[x]) PROVE x \in Branch[t]
    <3>1. Height[x] \in Nat
      BY <2>3, BranchHolds, HeightIs
    <3>2. Height[x] <= Height[t]
      BY <1>1, <2>3, <3>1
    <3> QED BY <2>3, <3>2, LowerIsBelow DEF t
  <2>4. x \in Known(cs) <=>
            \/ x \in Branch[t]
            \/ x \in Branch[best] /\ Height[t] < Height[x] /\ Height[x] <= k
    <3>1. x \in Known(cs) <=>
              \/ x \in Known(chains)
              \/ x \in Branch[best] /\ Base(Tip(chains)) < Height[x] /\ Height[x] <= k
      OBVIOUS
    <3>2. Base(Tip(chains)) = Height[t] /\ Known(chains) = Branch[t]
      BY <1>1 DEF t
    <3> QED BY <3>1, <3>2, Zenon
  <2>5. ASSUME x \in Known(cs) PROVE x \in Branch[y]
    BY <1>3, <2>1, <2>4, <2>5
  <2>6. ASSUME x \in Branch[y] PROVE x \in Known(cs)
    <3>1. x \in Branch[best] /\ Height[x] <= k
      BY <2>2, <2>6
    <3>2. CASE Height[t] < Height[x]
      BY <2>4, <3>1, <3>2
    <3>3. CASE ~(Height[t] < Height[x])
      BY <2>3, <2>4, <3>1, <3>3, Zenon
    <3> QED BY <3>2, <3>3
  <2> QED BY <2>5, <2>6
<1>5. Len(cs) = 1 /\ Tip(cs) = y
  BY <1>2, <1>4, LineIsOne
<1>6. Known(cs) = Branch[y]
  BY <1>4
<1> QED BY <1>2, <1>3, <1>5, <1>6 DEF t, y

(* A round that starts no higher than above what is done, and goes beyond it. *)
LEMMA RoundOnLine ==
    ASSUME NEW t \in Headers, NEW d \in Branch[t], NEW n \in Nat, n > 0,
           NEW k \in 0..Height[t], n <= k, n <= Height[d] + 1, Height[d] <= k,
           NEW w, PathIs(w, t, n, k)
    PROVE  /\ w[Len(w)] \in Branch[t] /\ Height[w[Len(w)]] = k
           /\ Branch[w[Len(w)]] = Branch[d] \cup ToSet(w)
           /\ Parent[w[1]] \in Branch[d]
           /\ n = 1 => Parent[w[1]] = Genesis
           /\ Height[d] < n => ToSet(w) \cap Branch[d] = {}
<1> DEFINE l == w[Len(w)]
           p == Parent[w[1]]
<1>1. d \in Headers /\ Height[d] \in Nat /\ k \in Nat /\ Height[t] \in Nat
  BY BranchHolds, HeightIs
<1>2. /\ Len(w) = (k - n) + 1 /\ Len(w) \in Nat \ {0}
      /\ \A i \in 1..Len(w) : w[i] \in Branch[t] /\ Height[w[i]] = (n + i) - 1
      /\ \A x : x \in ToSet(w) <=> x \in Branch[t] /\ n <= Height[x] /\ Height[x] <= k
  BY DEF PathIs
<1>3. 1 \in 1..Len(w) /\ Len(w) \in 1..Len(w) /\ (n + 1) - 1 = n /\ (n + Len(w)) - 1 = k
  <2>1. \A a \in Nat \ {0} : 1 \in 1..a /\ a \in 1..a
    OBVIOUS
  <2>2. \A a \in Nat : a = (k - n) + 1 => (n + a) - 1 = k
    BY <1>1
  <2> QED BY <1>2, <2>1, <2>2
<1>4. l \in Branch[t] /\ Height[l] = k /\ l \in Headers
  BY <1>2, <1>3, BranchHolds
<1>5. w[1] \in Branch[t] /\ Height[w[1]] = n
  BY <1>2, <1>3
<1>6. w[1] # Genesis
  BY <1>5, HeightIs
<1>7. p \in Branch[t] /\ Height[w[1]] = Height[p] + 1 /\ Height[p] \in Nat /\ p \in Headers
  BY <1>5, <1>6, AtParent
<1>8. Height[p] <= Height[d]
  BY <1>1, <1>5, <1>7
<1> HIDE DEF p, l
<1>9. p \in Branch[d]
  BY <1>7, <1>8, LowerIsBelow
<1>10. d \in Branch[l] /\ Branch[d] \subseteq Branch[l]
  BY <1>1, <1>4, LowerIsBelow, BranchHolds
<1>11. ASSUME NEW x PROVE x \in Branch[l] <=> x \in Branch[d] \/ x \in ToSet(w)
  <2>1. ASSUME x \in ToSet(w) PROVE x \in Branch[l]
    BY <1>2, <1>4, <2>1, LowerIsBelow
  <2>2. ASSUME x \in Branch[l] PROVE x \in Branch[d] \/ x \in ToSet(w)
    <3>1. x \in Branch[t] /\ Height[x] <= k /\ Height[x] \in Nat
      BY <1>4, <2>2, BranchHolds, BranchHeight, HeightIs
    <3>2. CASE n <= Height[x]
      BY <1>2, <3>1, <3>2
    <3>3. CASE ~(n <= Height[x])
      <4>1. Height[x] <= Height[p]
        BY <1>5, <1>7, <3>1, <3>3
      <4>2. x \in Branch[p]
        BY <1>7, <3>1, <4>1, LowerIsBelow
      <4> QED BY <1>1, <1>9, <4>2, BranchHolds
    <3> QED BY <3>2, <3>3
  <2> QED BY <1>10, <2>1, <2>2
<1>12. Branch[l] = Branch[d] \cup ToSet(w)
  BY <1>11
<1>13. ASSUME n = 1 PROVE p = Genesis
  <2>1. Height[p] = 0 /\ 0 \in 0..Height[t]
    <3>1. \A a \in Nat : 1 = a + 1 => a = 0
      OBVIOUS
    <3>2. 0 \in 0..Height[t]
      BY <1>1
    <3> QED BY <1>5, <1>7, <1>13, <3>1, <3>2
  <2>2. Height[Genesis] = 0 /\ Genesis \in Branch[t]
    BY HeightIs, BranchHolds
  <2> QED BY <1>7, <2>1, <2>2, AtIs
<1>14. ASSUME Height[d] < n PROVE ToSet(w) \cap Branch[d] = {}
  <2> SUFFICES ASSUME NEW x \in ToSet(w), x \in Branch[d] PROVE FALSE
    OBVIOUS
  <2>1. n <= Height[x] /\ Height[x] <= Height[d] /\ Height[x] \in Nat
    BY <1>1, <1>2, BranchHolds, BranchHeight, HeightIs
  <2> QED BY <1>1, <1>14, <2>1
<1> QED BY <1>4, <1>9, <1>12, <1>13, <1>14 DEF p, l

(* What does not touch the stores, the results or the place of the round.    *)
LEMMA OrderKept ==
    ASSUME LineInv, QueueInv, UNCHANGED <<chains, results, htask, done, wanted>>,
           InRound' = InRound, btask' # "dead", btask' = "get" => btask = "get",
           Tip(chains) \in Branch[best'],
           delivered' \subseteq Known(done) \cup (IF InRound THEN ToSet(wanted) \ missing' ELSE {})
    PROVE  LineInv' /\ QueueInv'
<1>1. chains' = chains /\ results' = results /\ htask' = htask /\ done' = done /\ wanted' = wanted
  OBVIOUS
<1>2. Reach' = Reach
  BY <1>1 DEF Reach
<1>3. LineInv'
  BY <1>1, <1>2 DEF LineInv
<1>4. QueueInv'
  BY <1>1, <1>2 DEF QueueInv
<1> QED BY <1>3, <1>4

(* The first result is used up.                                             *)
LEMMA QueueTail ==
    ASSUME QueueInv, ResultsFit(results, chains), results # <<>>, results' = Tail(results),
           htask' = htask, chains' = chains, btask' # "get", htask # "dead",
           results[1].stop \in Branch[Reach'], results[1].stop = Tip(chains) => Tip(chains) = Reach'
    PROVE  QueueInv'
<1> DEFINE rs == Tail(results)
<1>1. /\ Len(results) \in Nat \ {0} /\ Len(rs) = Len(results) - 1 /\ rs \in Seq(NewTipResults)
      /\ \A i \in 1..Len(rs) : i + 1 \in 1..Len(results) /\ i + 1 # 1 /\ rs[i] = results[i + 1]
  BY ResultsTail DEF ResultsFit
<1>2. results' = rs
  OBVIOUS
<1> HIDE DEF rs
<1>3. htask' = "initial" => results' = <<>>
  BY DEF QueueInv
<1>4. ASSUME NEW i \in 1..Len(rs)
      PROVE  /\ rs[i].start \in Branch[rs[i].stop]
             /\ rs[i].start # Genesis
             /\ Parent[rs[i].start] \in IF i = 1 THEN Branch[Reach'] ELSE {rs[i - 1].stop}
  <2>1. /\ i + 1 \in 1..Len(results) /\ i + 1 # 1 /\ rs[i] = results[i + 1] /\ (i + 1) - 1 = i
    BY <1>1
  <2>2. /\ rs[i].start \in Branch[rs[i].stop] /\ rs[i].start # Genesis
        /\ Parent[rs[i].start] = results[i].stop
    BY <2>1 DEF QueueInv
  <2>3. CASE i = 1
    BY <2>2, <2>3
  <2>4. CASE i # 1
    <3>1. i - 1 \in 1..Len(rs) /\ (i - 1) + 1 = i
      BY <1>1, <2>4
    <3>2. rs[i - 1] = results[i]
      BY <1>1, <3>1
    <3> QED BY <2>2, <2>4, <3>2
  <2> QED BY <2>3, <2>4
<1>5. htask = "follow" => Tip(chains) = results[Len(results)].stop
  BY DEF QueueInv
<1>6. htask = "follow" => Tip(chains) \in IF rs = <<>> THEN {Reach'} ELSE {rs[Len(rs)].stop}
  <2>1. CASE rs = <<>>
    <3>1. Len(results) = 1
      BY <1>1, <2>1
    <3> QED BY <1>5, <2>1, <3>1
  <2>2. CASE rs # <<>>
    <3>1. Len(rs) \in 1..Len(rs) /\ Len(rs) + 1 = Len(results)
      BY <1>1, <2>2, EmptySeq
    <3> QED BY <1>1, <1>5, <2>2, <3>1
  <2> QED BY <2>1, <2>2
<1> QED BY <1>2, <1>3, <1>4, <1>6 DEF QueueInv

(* The initial download follows the nodes' chain up; its result is the only*)
(* one.                                                                    *)
LEMMA OrderOfHeaders ==
    ASSUME BlocksInv, LineInv, QueueInv, InitialHeaders \/ InitialDone
    PROVE  LineInv' /\ QueueInv'
<1>1. /\ best \in Headers /\ Tip(chains) \in Headers /\ Height[Tip(chains)] \in Nat
      /\ Reach \in Branch[Tip(chains)] /\ Tip(chains) \in Branch[best]
      /\ Known(chains) = Branch[Tip(chains)]
  BY LineIs DEF LineInv
<1>2. /\ htask = "initial" /\ results = <<>> /\ GoodChains(chains)
      /\ best' = best /\ done' = done /\ btask' = btask /\ wanted' = wanted
      /\ missing' = missing /\ delivered' = delivered
  BY DEF QueueInv, InitialHeaders, InitialDone, netVars, syncVars, dataVars, BlocksInv, HeadInv
<1>3. Reach' = Reach /\ InRound' = InRound
  BY <1>2 DEF Reach, InRound
<1>4. CASE InitialHeaders
  <2>1. PICK n \in 1..Len(Answer) : chains' = FoldLeft(Connect, chains, SubSeq(Answer, 1, n))
    BY <1>4 DEF InitialHeaders
  <2> DEFINE cs == FoldLeft(Connect, chains, SubSeq(Answer, 1, n))
             k  == Base(Tip(chains)) + n
  <2>2. /\ GoodChains(cs) /\ k \in 0..Height[best]
        /\ \A x : x \in Known(cs) <=>
              \/ x \in Known(chains)
              \/ x \in Branch[best] /\ Base(Tip(chains)) < Height[x] /\ Height[x] <= k
    BY <1>1, <1>2, PartConnects
  <2>3. Height[Tip(chains)] <= k
    <3>1. Base(Tip(chains)) = Height[Tip(chains)]
      BY <1>1, BaseIs
    <3>2. \A a \in Nat : a <= a + n
      OBVIOUS
    <3> QED BY <1>1, <3>1, <3>2
  <2> HIDE DEF cs, k
  <2>4. /\ Known(cs) = Branch[Tip(cs)] /\ Tip(cs) \in Branch[best]
        /\ Branch[Tip(chains)] \subseteq Branch[Tip(cs)]
    BY <1>1, <1>2, <2>2, <2>3, LineGrows
  <2>5. chains' = cs /\ results' = results /\ htask' = htask
    BY <1>4, <2>1 DEF InitialHeaders, cs
  <2>6. LineInv'
    BY <1>1, <1>2, <1>3, <2>4, <2>5 DEF LineInv
  <2>7. QueueInv'
    <3>1. Len(results) = 0 /\ 1..0 = {} /\ results' = <<>> /\ htask' = "initial"
      BY <1>2, <2>5
    <3> QED BY <1>2, <2>5, <3>1 DEF QueueInv
  <2> QED BY <2>6, <2>7
<1>5. CASE InitialDone
  <2> DEFINE r == [start |-> Genesis, stop |-> Tip(chains)]
  <2>1. chains' = chains /\ htask' = "follow" /\ results' = Append(results, r)
    BY <1>5 DEF InitialDone
  <2>2. LineInv'
    BY <1>1, <1>2, <1>3, <2>1 DEF LineInv
  <2>3. results' = <<r>> /\ r.start = Genesis /\ r.stop = Tip(chains)
    BY <1>2, <2>1
  <2> HIDE DEF r
  <2>4. Len(results') = 1 /\ results'[1] = r /\ results' # <<>>
    BY <2>3
  <2>5. \A i : i \in 1..1 <=> i = 1
    OBVIOUS
  <2>6. Genesis \in Branch[Tip(chains)] /\ Height[Genesis] <= 1
    BY <1>1, BranchHolds, HeightIs
  <2>7. QueueInv'
    BY <2>1, <2>3, <2>4, <2>5, <2>6 DEF QueueInv
  <2> QED BY <2>2, <2>7
<1> QED BY <1>4, <1>5

(* The result of a new tip follows on the chain that the store had.        *)
LEMMA OrderOfNewTip ==
    ASSUME BlocksInv, LineInv, QueueInv, NewTip
    PROVE  LineInv' /\ QueueInv'
<1> DEFINE old == Tip(chains)
           cs == FoldLeft(Connect, chains, Answer)
           r  == [start |-> Answer[1], stop |-> best]
<1>1. /\ best \in Headers /\ old \in Headers /\ Height[old] \in Nat /\ Height[best] \in Nat
      /\ Reach \in Branch[old] /\ old \in Branch[best]
      /\ Known(chains) = Branch[old] /\ Height[old] <= Height[best]
      /\ Reach \in Headers
  BY LineIs, BranchHeight DEF LineInv
<1>2. /\ GoodChains(chains) /\ ResultsFit(results, chains)
      /\ htask = "follow" /\ best \notin Known(chains)
      /\ best' = best /\ done' = done /\ btask' = btask /\ wanted' = wanted
      /\ missing' = missing /\ delivered' = delivered
  BY DEF NewTip, BlocksInv, HeadInv, netVars, syncVars, dataVars
<1>3. Reach' = Reach /\ InRound' = InRound
  BY <1>2 DEF Reach, InRound
<1>4. /\ GoodChains(cs) /\ best \in Known(cs)
      /\ \A x : x \in Known(cs) <=>
            \/ x \in Known(chains)
            \/ x \in Branch[best] /\ Base(old) < Height[x]
  BY <1>1, <1>2, AnswerConnects
<1>5. \A x \in Branch[best] : Height[x] <= Height[best]
  BY <1>1, BranchHeight
<1>6. Height[best] \in 0..Height[best]
  BY <1>1
<1> HIDE DEF cs
<1>7. /\ Len(cs) = 1 /\ Tip(cs) = At(best, Height[best]) /\ Known(cs) = Branch[Tip(cs)]
      /\ Branch[old] \subseteq Branch[Tip(cs)]
  BY <1>1, <1>2, <1>4, <1>5, <1>6, LineGrows
<1>8. Tip(cs) = best
  BY <1>1, <1>6, <1>7, AtIs, BranchHolds
<1>9. Len(chains) = 1
  <2>1. \A x : x \in Known(chains) <=> x \in Branch[old]
    BY <1>1
  <2> QED BY <1>1, <1>2, <2>1, LineIsOne
<1>10. ~(Len(cs) > Len(chains))
  BY <1>7, <1>9
<1>11. chains' = cs /\ htask' = htask /\ results' = Append(results, r)
  BY <1>10 DEF NewTip, cs, r
<1>12. LineInv'
  <2>1. Reach \in Branch[best] /\ best \in Branch[best]
    BY <1>1, BranchHolds
  <2> QED BY <1>2, <1>3, <1>7, <1>8, <1>11, <2>1 DEF LineInv
<1>13. /\ r.start \in Branch[best] /\ r.start # Genesis /\ Parent[r.start] = old
       /\ Height[r.start] = Height[old] + 1 /\ r.stop = best
  <2> DEFINE a == Answer[1]
             n == Base(old) + 1
  <2>1. PathIs(Answer, best, n, Height[best]) /\ Answer \in Seq(Blocks) /\ n \in Nat
    BY <1>1, <1>2, AnswerIs, AnswerToNewTip
  <2>2. n = Height[old] + 1 /\ (n + 1) - 1 = Height[old] + 1
    BY <1>1, BaseIs
  <2> HIDE DEF n
  <2>3. 1 \in 1..Len(Answer)
    BY <2>1 DEF PathIs
  <2>4. a \in Branch[best] /\ Height[a] = Height[old] + 1 /\ a # Genesis
    BY <2>1, <2>2, <2>3 DEF PathIs, Blocks
  <2>5. Parent[a] \in Branch[best] /\ Height[a] = Height[Parent[a]] + 1 /\ Height[Parent[a]] \in Nat
    BY <1>1, <2>4, AtParent
  <2>6. Height[Parent[a]] = Height[old] /\ Height[old] \in 0..Height[best]
    BY <1>1, <2>4, <2>5
  <2>7. Parent[a] = old
    BY <1>1, <2>5, <2>6, AtIs
  <2>8. r.start = a /\ r.stop = best
    OBVIOUS
  <2> QED BY <2>4, <2>7, <2>8
<1> HIDE DEF r
<1>14. /\ Len(results) \in Nat /\ Len(results') = Len(results) + 1
       /\ results'[Len(results) + 1] = r /\ results' # <<>>
       /\ \A i \in 1..Len(results) : results'[i] = results[i]
       /\ \A i \in 1 .. Len(results) + 1 : i \in 1..Len(results) \/ i = Len(results) + 1
  <2>1. results \in Seq(NewTipResults)
    BY <1>2 DEF ResultsFit
  <2>2. r \in NewTipResults
    <3>1. Answer[1] \in Headers
      BY <1>1, <1>13, BranchHolds DEF r
    <3> QED BY <1>1, <3>1 DEF r, NewTipResults
  <2>3. Append(results, r) # <<>> /\ \A i \in 1 .. Len(results) + 1 : i \in 1..Len(results) \/ i = Len(results) + 1
    BY <2>1, <2>2, AppendElements
  <2> QED BY <1>11, <2>1, <2>2, <2>3, AppendProperties
<1>15. ASSUME btask = "get" PROVE r.start \notin Known(done)
  <2>1. Known(done) = Branch[Reach]
    BY <1>15 DEF LineInv, Reach, InRound
  <2>2. ASSUME r.start \in Branch[Reach] PROVE FALSE
    <3>1. r.start \in Branch[old]
      BY <1>1, <2>2, BranchHolds
    <3>2. Height[r.start] <= Height[old]
      BY <1>1, <3>1, BranchHeight
    <3> QED BY <1>1, <1>13, <3>2
  <2> QED BY <2>1, <2>2
<1>16. IF results = <<>> THEN old = Reach ELSE old = results[Len(results)].stop
  BY <1>2 DEF QueueInv
<1>17. QueueInv'
  <2>1. ASSUME NEW i \in 1..Len(results)
        PROVE  /\ results'[i].start \in Branch[results'[i].stop]
               /\ \/ results'[i].start = Genesis /\ i = 1
                  \/ /\ results'[i].start # Genesis
                     /\ Parent[results'[i].start] \in
                            IF i = 1 THEN Branch[Reach'] ELSE {results'[i - 1].stop}
               /\ btask' = "get" => \/ results'[i].stop \in Known(done')
                                    \/ Height[results'[i].start] <= 1
                                    \/ results'[i].start \notin Known(done')
    <3>1. results'[i] = results[i]
      BY <1>14
    <3>2. CASE i = 1
      BY <1>2, <1>3, <3>1, <3>2 DEF QueueInv
    <3>3. CASE i # 1
      <4>1. i - 1 \in 1..Len(results)
        BY <1>14, <3>3
      <4>2. results'[i - 1] = results[i - 1]
        BY <1>14, <4>1
      <4> QED BY <1>2, <1>3, <3>1, <3>3, <4>2 DEF QueueInv
    <3> QED BY <3>2, <3>3
  <2> DEFINE l == Len(results) + 1
  <2>2. Parent[r.start] \in IF l = 1 THEN Branch[Reach'] ELSE {results'[l - 1].stop}
    <3>1. CASE results = <<>>
      <4>1. old = Reach /\ l = 1
        BY <1>16, <3>1
      <4> QED BY <1>1, <1>3, <1>13, <4>1, BranchHolds
    <3>2. CASE results # <<>>
      <4>1. l - 1 = Len(results) /\ l # 1 /\ Len(results) \in 1..Len(results)
        <5>1. Len(results) # 0
          BY <1>2, <3>2, EmptySeq DEF ResultsFit
        <5> QED BY <1>14, <5>1
      <4>2. results'[l - 1].stop = old
        BY <1>14, <1>16, <3>2, <4>1
      <4> QED BY <1>13, <4>1, <4>2
    <3> QED BY <3>1, <3>2
  <2>3. l \in 1..l /\ results'[l] = r /\ Len(results') = l
    BY <1>14
  <2>4. \A i \in 1..l : i \in 1..Len(results) \/ i = l
    BY <1>14
  <2> HIDE DEF l
  <2>5. htask' = "follow" => Tip(chains') \in IF results' = <<>> THEN {Reach'}
                                              ELSE {results'[Len(results')].stop}
    BY <1>8, <1>11, <1>13, <1>14, <2>3
  <2>6. htask' # "initial"
    BY <1>2, <1>11
  <2> QED BY <1>2, <1>13, <1>15, <2>1, <2>2, <2>3, <2>4, <2>5, <2>6 DEF QueueInv
<1> QED BY <1>12, <1>17

(* A result that is skipped is of blocks that are done; no height is       *)
(* missing.                                                                *)
LEMMA OrderOfWaiting ==
    ASSUME BlocksInv, LineInv, QueueInv, AwaitResult \/ SkipResult \/ HeightMissing
    PROVE  LineInv' /\ QueueInv'
<1> DEFINE t == Tip(chains)
           d == Tip(done)
<1>1. /\ ~InRound /\ Reach = d
      /\ best' = best /\ chains' = chains /\ htask' = htask /\ done' = done /\ wanted' = wanted
      /\ missing' = missing /\ delivered' = delivered
  BY DEF Reach, InRound, AwaitResult, SkipResult, HeightMissing, netVars, headVars, dataVars
<1>2. /\ t \in Headers /\ d \in Headers /\ d \in Branch[t] /\ Height[d] <= Height[t]
      /\ Known(chains) = Branch[t] /\ Known(done) = Branch[d] /\ Branch[d] \subseteq Branch[t]
  BY <1>1, LineIs DEF LineInv
<1>3. ResultsFit(results, chains)
  BY DEF BlocksInv, HeadInv
<1> HIDE DEF t, d
<1>4. CASE AwaitResult
  <2>1. btask' = "get" /\ results' = results /\ Height[d] = Height[t]
    BY <1>4 DEF AwaitResult, headVars, AtTip, t, d
  <2>2. d = t
    BY <1>2, <2>1, BranchHeight
  <2>3. Reach' = Reach /\ InRound' = InRound
    BY <1>1, <2>1 DEF Reach, InRound
  <2>4. LineInv'
    BY <1>1, <2>1, <2>3 DEF LineInv
  <2>5. \A i \in 1..Len(results) : results[i].stop \in Known(done)
    BY <1>2, <1>3, <2>2 DEF ResultsFit
  <2>6. QueueInv'
    BY <1>1, <2>1, <2>3, <2>5 DEF QueueInv
  <2> QED BY <2>4, <2>6
<1>5. CASE SkipResult
  <2>1. /\ btask' = "idle" /\ results # <<>> /\ results' = Tail(results)
        /\ Head(results).stop \in Known(done)
    BY <1>5 DEF SkipResult
  <2>2. Reach' = d /\ InRound' = InRound
    BY <1>1, <2>1 DEF Reach, InRound, d
  <2>3. LineInv'
    BY <1>1, <2>1, <2>2 DEF LineInv
  <2>4. results[1].stop \in Branch[d]
    BY <1>2, <1>3, <2>1, ResultsTail
  <2>5. results[1].stop = t => t = d
    BY <1>2, <2>4, BranchOrder
  <2>6. QueueInv'
    <3>1. htask # "dead"
      BY DEF LineInv
    <3> QED BY <1>1, <1>3, <2>1, <2>2, <2>4, <2>5, <3>1, QueueTail DEF t
  <2> QED BY <2>3, <2>6
<1>6. CASE HeightMissing
  <2>1. CASE ~HasHeight(Height[d])
    BY <1>2, <2>1 DEF HasHeight, t
  <2>2. CASE results # <<>> /\ ~HasHeight(Height[Head(results).stop])
    <3>1. Head(results).stop \in Branch[t]
      BY <1>2, <1>3, <2>2, ResultsTail DEF t
    <3>2. Height[Head(results).stop] <= Height[t]
      BY <1>2, <3>1, BranchHeight
    <3> QED BY <2>2, <3>2 DEF HasHeight, t
  <2> QED BY <1>6, <2>1, <2>2 DEF HeightMissing, d
<1> QED BY <1>4, <1>5, <1>6

(* A round that follows on what is done leaves the stores a branch each.     *)
LEMMA LineOfRound ==
    ASSUME BlocksInv, LineInv, ~InRound, InRound', UNCHANGED <<best, chains, htask, done, delivered>>,
           NEW n \in Nat, n > 0, NEW k \in 0..Height[Tip(chains)], n <= k,
           n <= Height[Tip(done)] + 1, Height[Tip(done)] <= k,
           PathIs(wanted', Tip(chains), n, k), n = 1 \/ Height[Tip(done)] < n
    PROVE  LineInv' /\ Height[Reach'] = k /\ Reach' \in Headers /\ Branch[Tip(done)] \subseteq Branch[Reach']
<1> DEFINE t == Tip(chains)
           d == Tip(done)
           w == wanted'
<1>1. /\ t \in Headers /\ d \in Branch[t] /\ Known(done) = Branch[d]
      /\ t \in Branch[best] /\ Known(chains) = Branch[t] /\ htask # "dead"
      /\ delivered \subseteq Known(done)
  BY LineIs DEF LineInv, Reach
<1>2. /\ best' = best /\ Tip(chains)' = t /\ Known(chains)' = Known(chains) /\ htask' = htask
      /\ Tip(done)' = d /\ Known(done)' = Known(done) /\ delivered' = delivered /\ done' = done
      /\ chains' = chains
  OBVIOUS
<1>3. Reach' = w[Len(w)] /\ btask' # "dead"
  BY DEF Reach, InRound
<1> HIDE DEF t, d, w
<1>4. /\ w[Len(w)] \in Branch[t] /\ Height[w[Len(w)]] = k
      /\ Branch[w[Len(w)]] = Branch[d] \cup ToSet(w)
      /\ Parent[w[1]] \in Branch[d]
      /\ n = 1 => Parent[w[1]] = Genesis
      /\ Height[d] < n => ToSet(w) \cap Branch[d] = {}
  <2>1. PathIs(w, t, n, k) /\ n <= Height[d] + 1 /\ Height[d] <= k /\ k \in 0..Height[t]
    BY DEF w, t, d
  <2> QED BY <1>1, <2>1, RoundOnLine
<1>5. Parent[w[1]] = Genesis \/ ToSet(w) \cap Branch[d] = {}
  BY <1>4 DEF d
<1>6. delivered' \subseteq Known(done)'
  BY <1>1, <1>2
<1>7. LineInv'
  BY <1>1, <1>2, <1>3, <1>4, <1>5, <1>6 DEF LineInv, w
<1> QED BY <1>1, <1>3, <1>4, <1>7, BranchHolds DEF d

(* The round of a result: it follows on what is done, and what is queued     *)
(* after it follows on the round.                                            *)
LEMMA OrderOfTipRound ==
    ASSUME BlocksInv, LineInv, QueueInv, TipRound
    PROVE  LineInv' /\ QueueInv'
<1> DEFINE t == Tip(chains)
           d == Tip(done)
           r == Head(results)
           n == Max({Height[r.start], 1})
<1>1. /\ r = results[1] /\ t \in Headers /\ r.stop \in Headers
      /\ n \in Nat /\ n > 0 /\ n <= Height[r.stop]
      /\ n = IF Height[r.start] = 0 THEN 1 ELSE Height[r.start]
      /\ Height[r.stop] \in 0..Height[t]
      /\ InRound' /\ PathIs(wanted', t, n, Height[r.stop])
  BY TipRoundKeeps
<1>2. /\ btask = "get" /\ results # <<>> /\ r.stop \notin Known(done) /\ results' = Tail(results)
      /\ UNCHANGED <<best, chains, htask, done, delivered>> /\ ~InRound
      /\ btask' # "get" /\ Reach = d
  BY DEF TipRound, netVars, InRound, Reach, Round
<1>3. /\ d \in Headers /\ d \in Branch[t] /\ Known(chains) = Branch[t] /\ Known(done) = Branch[d]
      /\ htask # "dead"
  BY <1>2, LineIs DEF LineInv
<1>4. ResultsFit(results, chains) /\ Len(results) \in Nat \ {0} /\ 1 \in 1..Len(results)
  <2>1. ResultsFit(results, chains)
    BY DEF BlocksInv, HeadInv
  <2>2. Len(results) \in Nat \ {0}
    BY <1>2, <2>1, ResultsTail
  <2> QED BY <2>1, <2>2
<1>5. /\ r.stop \in Branch[t] /\ r.start \in Branch[r.stop]
      /\ \/ r.start = Genesis
         \/ r.start # Genesis /\ Parent[r.start] \in Branch[d]
      /\ Height[r.start] <= 1 \/ r.start \notin Branch[d]
  BY <1>1, <1>2, <1>3, <1>4 DEF QueueInv, ResultsFit
<1> HIDE DEF t, d, n, r
<1>6. r.start \in Headers /\ r.start \in Branch[t]
  BY <1>1, <1>3, <1>5, BranchHolds
<1>7. Height[r.start] \in Nat /\ Height[r.stop] \in Nat /\ Height[d] \in Nat
  BY <1>1, <1>3, <1>6, HeightIs
<1>8. Height[d] <= Height[r.stop]
  <2>1. ~(Height[r.stop] <= Height[d])
    BY <1>1, <1>2, <1>3, <1>5, LowerIsBelow
  <2> QED BY <1>7, <2>1
<1>9. n <= Height[d] + 1
  <2>1. CASE r.start = Genesis
    BY <1>1, <1>7, <2>1, HeightIs
  <2>2. CASE r.start # Genesis
    <3>1. Height[r.start] = Height[Parent[r.start]] + 1 /\ Height[Parent[r.start]] \in Nat
      BY <1>1, <1>6, <2>2, AtParent
    <3>2. Height[Parent[r.start]] <= Height[d]
      BY <1>3, <1>5, <2>2, BranchHeight, HeightIs
    <3> QED BY <1>1, <1>7, <3>1, <3>2
  <2> QED BY <2>1, <2>2
<1>10. n = 1 \/ Height[d] < n
  <2>1. CASE Height[r.start] <= 1
    BY <1>1, <1>7, <2>1
  <2>2. CASE ~(Height[r.start] <= 1)
    <3>1. ~(Height[r.start] <= Height[d])
      BY <1>1, <1>3, <1>5, <1>6, <2>2, LowerIsBelow
    <3> QED BY <1>1, <1>7, <2>2, <3>1
  <2> QED BY <2>1, <2>2
<1>11. LineInv' /\ Height[Reach'] = Height[r.stop] /\ Reach' \in Headers
  BY <1>1, <1>2, <1>8, <1>9, <1>10, LineOfRound DEF t, d
<1>12. Reach' = r.stop
  <2>1. Reach' \in Branch[t]
    BY <1>2, <1>11 DEF LineInv, t
  <2> QED BY <1>1, <1>5, <1>11, <2>1, AtIs
<1>13. r.stop \in Branch[Reach']
  BY <1>1, <1>12, BranchHolds
<1>14. QueueInv'
  BY <1>1, <1>2, <1>3, <1>4, <1>12, <1>13, QueueTail DEF t
<1> QED BY <1>11, <1>14

(* A round that catches up.                                                 *)
LEMMA OrderOfCatchUp ==
    ASSUME BlocksInv, LineInv, QueueInv, CatchUpRound
    PROVE  LineInv' /\ QueueInv'
<1> DEFINE t == Tip(chains)
           d == Tip(done)
           low  == Height[d]
           high == low + Min({MaxRound, Height[t] - low})
<1>1. /\ t \in Headers /\ d \in Headers
      /\ low \in Nat /\ low < high /\ high \in 0..Height[t]
      /\ InRound' /\ PathIs(wanted', t, low + 1, high)
  BY CatchUpRoundKeeps
<1>2. /\ btask = "idle" /\ ~AtTip
      /\ UNCHANGED <<best, chains, htask, done, delivered>> /\ ~InRound
      /\ btask' # "get" /\ Reach = d
      /\ results' = results
  BY DEF CatchUpRound, netVars, headVars, InRound, Reach, Round
<1> HIDE DEF high
<1>3. /\ low + 1 \in Nat /\ low + 1 > 0 /\ low + 1 <= high /\ low + 1 <= low + 1 /\ low <= high
      /\ low < low + 1
  BY <1>1
<1>4. LineInv' /\ Branch[d] \subseteq Branch[Reach']
  BY <1>1, <1>2, <1>3, LineOfRound
<1>5. t # d
  BY <1>2 DEF AtTip
<1> HIDE DEF t, d, low
<1>6. ASSUME NEW i \in 1..Len(results)
      PROVE  /\ results[i].start \in Branch[results[i].stop]
             /\ \/ results[i].start = Genesis /\ i = 1
                \/ /\ results[i].start # Genesis
                   /\ Parent[results[i].start] \in
                          IF i = 1 THEN Branch[Reach'] ELSE {results[i - 1].stop}
  <2>1. CASE i = 1
    BY <1>2, <1>4, <2>1 DEF QueueInv
  <2>2. CASE i # 1
    BY <2>2 DEF QueueInv
  <2> QED BY <2>1, <2>2
<1>7. htask = "follow" => results # <<>> /\ t = results[Len(results)].stop
  BY <1>2, <1>5 DEF QueueInv, t, d
<1>8. QueueInv'
  <2>1. chains' = chains /\ htask' = htask /\ results' = results /\ Tip(chains)' = t
    BY <1>2 DEF t
  <2> QED BY <1>2, <1>6, <1>7, <2>1 DEF QueueInv
<1> QED BY <1>4, <1>8

(* When a round is done, what it has reached is the tip of what is done.     *)
LEMMA OrderOfRoundDone ==
    ASSUME BlocksInv, LineInv, QueueInv, RoundDone
    PROVE  LineInv' /\ QueueInv'
<1>1. /\ InRound /\ ~InRound' /\ btask' # "get" /\ missing = {}
      /\ UNCHANGED <<best, chains, results, htask, delivered>>
  BY DEF RoundDone, InRound, netVars, headVars, dataVars
<1>2. Parent[wanted[1]] \in Known(done)
  BY <1>1 DEF LineInv
<1>3. /\ BlocksInv' /\ btask' = "idle"
      /\ \A x : x \in Known(done') <=> x \in Known(done) \/ x \in ToSet(wanted)
  BY <1>2, RoundDoneKeeps
<1>4. /\ Reach \in Headers /\ Branch[Reach] = Known(done) \cup ToSet(wanted)
      /\ Reach \in Branch[Tip(chains)]
  BY <1>1, LineIs DEF LineInv
<1> DEFINE e == Reach
           ds == done'
<1>5. GoodChains(ds)
  BY <1>3 DEF BlocksInv, RoundInv
<1>6. Reach' = Tip(ds)
  BY <1>1 DEF Reach
<1> HIDE DEF e, ds
<1>7. \A x : x \in Known(ds) <=> x \in Branch[e]
  BY <1>3, <1>4 DEF e, ds
<1>8. Tip(ds) = e /\ Known(ds) = Branch[e]
  BY <1>4, <1>5, <1>7, LineIsOne DEF e
<1>9. Reach' = Reach
  BY <1>6, <1>8 DEF e
<1>10. delivered \subseteq Branch[Reach]
  BY <1>1, <1>4 DEF LineInv
<1>11. LineInv'
  BY <1>1, <1>3, <1>8, <1>9, <1>10, <1>4 DEF LineInv, e, ds
<1>12. QueueInv'
  BY <1>1, <1>9 DEF QueueInv
<1> QED BY <1>11, <1>12

(* What the clients do leaves the order as it is.                           *)
LEMMA OrderOfClients ==
    ASSUME BlocksInv, BlocksInv', LineInv, QueueInv, NEW c \in Clients,
           \/ Hear(c) \/ Deliver(c) \/ Leave(c) \/ Join(c) \/ AskFor(c) \/ Close(c) \/ Reallocate
    PROVE  LineInv' /\ QueueInv'
<1>1. /\ UNCHANGED <<best, chains, results, htask, done, wanted>>
  BY DEF Hear, Deliver, Leave, Join, AskFor, Close, Reallocate, netVars, headVars, syncVars
<1>2. /\ Tip(chains) \in Branch[best] /\ btask # "dead"
      /\ delivered \subseteq Known(done) \cup (IF InRound THEN ToSet(wanted) \ missing ELSE {})
  BY DEF LineInv
<1>3. ASSUME btask' = btask, delivered' = delivered, missing' = missing
      PROVE  LineInv' /\ QueueInv'
  <2>1. InRound' = InRound
    BY <1>3 DEF InRound
  <2>2. delivered' \subseteq Known(done) \cup (IF InRound THEN ToSet(wanted) \ missing' ELSE {})
    BY <1>2, <1>3
  <2> QED BY <1>1, <1>2, <1>3, <2>1, <2>2, OrderKept
<1>4. CASE Hear(c) \/ Leave(c) \/ Join(c) \/ Close(c) \/ Reallocate
  <2>1. btask' = btask /\ delivered' = delivered /\ missing' = missing
    BY <1>4 DEF Hear, Leave, Join, Close, Reallocate, syncVars, dataVars
  <2> QED BY <1>3, <2>1
<1>5. CASE AskFor(c)
  <2>1. InRound /\ InRound'
    BY <1>5, AskForKeeps
  <2>2. delivered' = delivered /\ missing' = missing /\ btask' # "dead" /\ btask' # "get"
    BY <1>5 DEF AskFor, dataVars
  <2>3. delivered' \subseteq Known(done) \cup (IF InRound THEN ToSet(wanted) \ missing' ELSE {})
    BY <1>2, <2>2
  <2> QED BY <1>1, <1>2, <2>1, <2>2, <2>3, OrderKept
<1>6. CASE Deliver(c)
  <2> DEFINE h == Head(wire[c]).block
  <2>1. h \in missing /\ missing' = missing \ {h}
    BY <1>6, DeliverKeeps
  <2>2. delivered' = delivered \cup {h} /\ btask' = btask
    BY <1>6 DEF Deliver, syncVars
  <2> HIDE DEF h
  <2>3. InRound /\ missing \subseteq ToSet(wanted)
    BY <2>1 DEF BlocksInv, RoundInv
  <2>4. delivered' \subseteq Known(done) \cup (ToSet(wanted) \ missing')
    BY <1>2, <2>1, <2>2, <2>3
  <2>5. InRound' = InRound
    BY <2>2 DEF InRound
  <2> QED BY <1>1, <1>2, <2>2, <2>3, <2>4, <2>5, OrderKept
<1> QED BY <1>4, <1>5, <1>6

(* A new tip that the nodes' chain goes on to.                               *)
LEMMA OrderOfAdvance ==
    ASSUME BlocksInv, LineInv, QueueInv, NEW h \in Blocks, Advance(h), ~reorged'
    PROVE  LineInv' /\ QueueInv'
<1>1. /\ best \in Branch[h] /\ best' = h
      /\ UNCHANGED <<chains, results, htask, done, wanted, btask, delivered, missing>>
  BY DEF Advance, headVars, syncVars, dataVars
<1>2. Tip(chains) \in Branch[best'] /\ btask # "dead"
  <2>1. Tip(chains) \in Branch[best] /\ btask # "dead"
    BY DEF LineInv
  <2> QED BY <1>1, <2>1, BranchHolds DEF Blocks
<1>3. delivered' \subseteq Known(done) \cup (IF InRound THEN ToSet(wanted) \ missing' ELSE {})
  BY <1>1 DEF LineInv
<1>4. InRound' = InRound
  BY <1>1 DEF InRound
<1> QED BY <1>1, <1>2, <1>3, <1>4, OrderKept

(* Both stores have a branch each from the start, and nothing is queued.     *)
LEMMA OrderInvStarts ==
    ASSUME Init PROVE OrderInv
<1>1. PICK h \in Branch[best] : \E k \in Branch[h] :
           chains = ChainTo(h) /\ done = ChainTo(k) /\ delivered = Branch[k]
  BY DEF Init
<1>2. PICK k \in Branch[h] : chains = ChainTo(h) /\ done = ChainTo(k) /\ delivered = Branch[k]
  BY <1>1
<1>3. best \in Headers /\ h \in Headers /\ k \in Headers
  BY BranchHolds DEF Init
<1>4. Tip(chains) = h /\ Known(chains) = Branch[h] /\ Tip(done) = k /\ Known(done) = Branch[k]
  BY <1>2, <1>3, ChainToIs
<1>5. /\ btask = "idle" /\ htask = "initial" /\ results = <<>> /\ ~InRound
  BY DEF Init, InRound
<1>6. Reach = k
  BY <1>4, <1>5 DEF Reach
<1>7. LineInv
  BY <1>2, <1>4, <1>5, <1>6 DEF LineInv
<1>8. QueueInv
  <2>1. Len(results) = 0 /\ 1..0 = {}
    BY <1>5
  <2> QED BY <1>5, <2>1 DEF QueueInv
<1> QED BY <1>7, <1>8 DEF OrderInv

(* No step before a reorganisation takes the stores or the results apart.    *)
LEMMA OrderInvStep ==
    ASSUME BlocksInv, OrderInv, [Next]_vars PROVE OrderInv'
<1>0. BlocksInv'
  BY BlocksInvStep
<1>1. SUFFICES ASSUME ~reorged' PROVE LineInv' /\ QueueInv'
  BY DEF OrderInv
<1>2. ASSUME ~reorged PROVE LineInv /\ QueueInv
  BY <1>2 DEF OrderInv
<1>3. ASSUME NEW h \in Blocks, Advance(h) PROVE LineInv' /\ QueueInv'
  <2>1. ~reorged
    BY <1>1, <1>3 DEF Advance
  <2> QED BY <1>1, <1>2, <1>3, <2>1, OrderOfAdvance
<1>4. ASSUME NEW c \in Clients,
             Close(c) \/ Hear(c) \/ Deliver(c) \/ Leave(c) \/ Join(c) \/ AskFor(c)
      PROVE  LineInv' /\ QueueInv'
  <2>1. reorged' = reorged
    BY <1>4 DEF Close, Hear, Deliver, Leave, Join, AskFor, netVars
  <2> QED BY <1>0, <1>1, <1>2, <1>4, <2>1, OrderOfClients
<1>5. CASE Reallocate
  <2>1. reorged' = reorged
    BY <1>5 DEF Reallocate, netVars
  <2>2. HeadersClient \in Clients
    BY DownloadAssumption
  <2> QED BY <1>0, <1>1, <1>2, <1>5, <2>1, <2>2, OrderOfClients
<1>6. CASE InitialHeaders \/ InitialDone \/ NewTip
  <2>1. reorged' = reorged
    BY <1>6 DEF InitialHeaders, InitialDone, NewTip, netVars
  <2> QED BY <1>1, <1>2, <1>6, <2>1, OrderOfHeaders, OrderOfNewTip
<1>7. CASE AwaitResult \/ SkipResult \/ HeightMissing
  <2>1. reorged' = reorged
    BY <1>7 DEF AwaitResult, SkipResult, HeightMissing, netVars
  <2> QED BY <1>1, <1>2, <1>7, <2>1, OrderOfWaiting
<1>8. CASE TipRound \/ CatchUpRound \/ RoundDone
  <2>1. reorged' = reorged
    BY <1>8 DEF TipRound, CatchUpRound, RoundDone, netVars
  <2> QED BY <1>1, <1>2, <1>8, <2>1, OrderOfTipRound, OrderOfCatchUp, OrderOfRoundDone
<1>9. CASE UNCHANGED vars
  <2>1. UNCHANGED <<netVars, wire, have, workVars, headVars, syncVars, dataVars>>
    BY <1>9 DEF vars
  <2>2. UNCHANGED <<best, reorged, chains, results, htask, done, wanted, btask, delivered, missing>>
    BY <2>1 DEF netVars, headVars, syncVars, dataVars
  <2>3. LineInv /\ QueueInv
    BY <1>1, <1>2, <2>2
  <2>4. Reach' = Reach /\ InRound' = InRound
    BY <2>2 DEF Reach, InRound
  <2> QED BY <2>2, <2>3, <2>4 DEF LineInv, QueueInv
<1> QED BY <1>3, <1>4, <1>5, <1>6, <1>7, <1>8, <1>9 DEF Next, Progress

(* As long as the nodes' chain only grows, what is stored, what is done and  *)
(* what is queued are in one line.                                           *)
THEOREM StoresAreOneLine == Spec => []OrderInv
<1>1. Init => OrderInv
  BY OrderInvStarts
<1>2. BlocksInv /\ OrderInv /\ [Next]_vars => OrderInv'
  BY OrderInvStep
<1> QED BY <1>1, <1>2, BlocksAreApart, PTL DEF Spec

(* Without a reorganisation blocks_sync_task() does not end, and every round *)
(* connects to what is done, block after block.                             *)
THEOREM RoundsFollow == Spec => []RoundConnects
<1>1. BlocksInv /\ OrderInv => RoundConnects
  <2> SUFFICES ASSUME BlocksInv, OrderInv, ~reorged
               PROVE  /\ btask # "dead"
                      /\ btask \in {"ask", "wait"} =>
                             \A i \in DOMAIN wanted :
                                 Parent[wanted[i]] \in IF i = 1 THEN Known(done)
                                                       ELSE {wanted[i - 1]}
    BY DEF RoundConnects
  <2>1. LineInv
    BY DEF OrderInv
  <2>2. ASSUME InRound, NEW i \in DOMAIN wanted
        PROVE  Parent[wanted[i]] \in IF i = 1 THEN Known(done) ELSE {wanted[i - 1]}
    <3>1. wanted \in Seq(Blocks) /\ \A j \in 1..Len(wanted) : j > 1 => Parent[wanted[j]] = wanted[j - 1]
      BY <2>2 DEF BlocksInv, RoundInv
    <3>2. i \in 1..Len(wanted) /\ (i = 1 \/ i > 1)
      BY <3>1
    <3>3. Parent[wanted[1]] \in Known(done)
      BY <2>1, <2>2 DEF LineInv
    <3> QED BY <3>1, <3>2, <3>3
  <2> QED BY <2>1, <2>2 DEF LineInv, InRound
<1> QED BY <1>1, BlocksAreApart, StoresAreOneLine, PTL

(* Without a reorganisation no block is asked for that on_block() has been   *)
(* called for, but in a round that starts at the first block.                *)
THEOREM OnceOnly == Spec => []FetchedOnce
<1>1. BlocksInv /\ OrderInv => FetchedOnce
  <2> SUFFICES ASSUME BlocksInv, OrderInv, ~reorged, Parent[wanted[1]] # Genesis,
                      NEW x \in ToSet(todo), x \in delivered
               PROVE  FALSE
    BY DEF FetchedOnce
  <2>1. LineInv /\ RoundInv
    BY DEF OrderInv, BlocksInv
  <2>2. x \in missing
    BY <2>1 DEF RoundInv
  <2>3. InRound /\ x \in ToSet(wanted)
    BY <2>1, <2>2 DEF RoundInv
  <2>4. x \notin Known(done)
    BY <2>1, <2>3 DEF LineInv
  <2>5. x \in Known(done) \cup (ToSet(wanted) \ missing)
    BY <2>1, <2>3 DEF LineInv
  <2> QED BY <2>2, <2>4, <2>5
<1> QED BY <1>1, BlocksAreApart, StoresAreOneLine, PTL
=============================================================================
