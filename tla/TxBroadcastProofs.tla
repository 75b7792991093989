------------------------- MODULE TxBroadcastProofs -------------------------
(***************************************************************************)
(* Proofs about TxBroadcast, for every set of calls, transactions and peers, *)
(* any number of handlers, any size of the queue and any reuse of            *)
(* transactions.                                                            *)
(***************************************************************************)
EXTENDS TxBroadcast, FiniteSetTheorems, TLAPS

-----------------------------------------------------------------------------
(* The inductive invariants.                                                *)

(* One broadcast_transaction() of a client waits for one transaction.       *)
OnePoller ==
    \A c, d \in Calls, p \in Peers :
        part[c][p] = "poll" /\ part[d][p] = "poll" /\ tx[c] = tx[d] => c = d

PollInv == OnePoller /\ PolledEntry

(* A transaction that no call has begun to broadcast has left no trace.     *)
Untouched(t) == \A c \in Calls : tx[c] = t => pc[c] = "idle"
NoTrace ==
    \A t \in Txs : Untouched(t) =>
        \A p \in Peers : rejects[p][t] = "absent" /\ t \notin sent[p]

(* What is true of the only call for its transaction.                       *)
AloneInv ==
    \A c \in Calls : Alone(c) =>
        /\ pc[c] \notin {"duplicate", "failed", "keyerror"}
        /\ pc[c] = "gather" => tx[c] \in listening
        /\ pc[c] \in Ended => Parts(c, Running) = {}
        /\ \A p \in Peers :
              /\ part[c][p] # "error"
              /\ part[c][p] = "start" => rejects[p][tx[c]] = "absent" /\ tx[c] \notin sent[p]

IdleInv ==
    /\ \A c \in Calls : pc[c] = "idle" => heard[c] = {} /\ \A p \in Peers : part[c][p] = "none"
    /\ \A t \in listening : \E c \in Calls : tx[c] = t /\ pc[c] # "idle"

UsageInv == NoTrace /\ AloneInv /\ IdleInv

(* The entry of tx_inv_queue_map and what the calls in progress have heard. *)
EntryInv ==
    \A c \in Calls : pc[c] = "gather" =>
        /\ tx[c] \in listening => relayers[tx[c]] \subseteq heard[c]
        /\ (Reuse # "while" \/ OthersGoOn(c)) => tx[c] \in listening /\ heard[c] = relayers[tx[c]]

(* Where calls do not overlap.                                              *)
NoOverlap ==
    Reuse # "while" =>
        \A c, d \in Calls : pc[c] = "gather" /\ pc[d] = "gather" /\ tx[c] = tx[d] => c = d

RelayInv == EntryInv /\ NoOverlap /\ RelaysExact

QuietHandlers == \A p \in Peers : IsFiniteSet(putting[p])

TypeInv == TypeOK /\ QuietHandlers

-----------------------------------------------------------------------------
USE DEF calls, maps, feed, Ended, Running

(* The type holds at first,                                                 *)
LEMMA InitType == Init => TypeInv
<1> SUFFICES ASSUME Init PROVE TypeInv
  OBVIOUS
<1>1. \A p \in Peers : Cardinality(putting[p]) <= HandlerCount /\ IsFiniteSet(putting[p])
  BY FS_EmptySet, BoundAssumption DEF Init
<1>2. invs \in Seq(Txs \X Peers) /\ Len(invs) <= QueueMax
  BY BoundAssumption DEF Init
<1>3. putting \in [Peers -> SUBSET Txs]
  BY DEF Init
<1> QED BY <1>1, <1>2, <1>3 DEF Init, TypeInv, TypeOK, QuietHandlers

(* What begins a call or ends it, or is a step of a part of it.             *)
LEMMA PartType ==
    ASSUME TypeInv, NEW c \in Calls, NEW p \in Peers, NEW v, NEW w,
           part' = [part EXCEPT ![c][p] = v], v \in {"poll", "rejected", "quiet", "error"},
           \/ UNCHANGED rejects
           \/ rejects' = [rejects EXCEPT ![p][tx[c]] = w] /\ w \in {"absent", "waiting"},
           sent' = sent \/ sent' = [sent EXCEPT ![p] = @ \cup {tx[c]}],
           UNCHANGED <<pc, tx, relays, listening, relayers, feed, heard>>
    PROVE  TypeInv'
<1>1. tx[c] \in Txs
  BY DEF TypeInv, TypeOK
<1>2. part' \in [Calls -> [Peers -> Running \cup {"none", "rejected", "quiet", "error"}]]
  BY DEF TypeInv, TypeOK
<1>3. rejects' \in [Peers -> [Txs -> {"absent", "waiting", "rejected"}]]
  <2>1. rejects \in [Peers -> [Txs -> {"absent", "waiting", "rejected"}]]
    BY DEF TypeInv, TypeOK
  <2>2. ASSUME rejects' = [rejects EXCEPT ![p][tx[c]] = w], w \in {"absent", "waiting"}
        PROVE  rejects' \in [Peers -> [Txs -> {"absent", "waiting", "rejected"}]]
    BY <1>1, <2>1, <2>2
  <2> QED BY <2>1, <2>2
<1>4. sent' \in [Peers -> SUBSET Txs]
  <2>1. sent \in [Peers -> SUBSET Txs]
    BY DEF TypeInv, TypeOK
  <2>2. ASSUME sent' = [sent EXCEPT ![p] = @ \cup {tx[c]}]
        PROVE  sent' \in [Peers -> SUBSET Txs]
    BY <1>1, <2>1, <2>2
  <2> QED BY <2>1, <2>2
<1> QED BY <1>2, <1>3, <1>4 DEF TypeInv, TypeOK, QuietHandlers

(* a call that begins keeps it,                                             *)
LEMMA BeginType ==
    ASSUME TypeInv, NEW c \in Calls, NEW S \in SUBSET Peers, Begin(c, S)
    PROVE  TypeInv'
<1>1. tx[c] \in Txs
  BY DEF TypeInv, TypeOK
<1>2. pc' \in [Calls -> {"idle", "gather"} \cup Ended]
  BY DEF Begin, TypeInv, TypeOK
<1>3. part' \in [Calls -> [Peers -> Running \cup {"none", "rejected", "quiet", "error"}]]
  <2>1. part \in [Calls -> [Peers -> Running \cup {"none", "rejected", "quiet", "error"}]]
    BY DEF TypeInv, TypeOK
  <2>2. [p \in Peers |-> IF p \in S THEN "start" ELSE "none"]
            \in [Peers -> Running \cup {"none", "rejected", "quiet", "error"}]
    OBVIOUS
  <2>3. \/ part' = part
        \/ part' = [part EXCEPT ![c] = [p \in Peers |-> IF p \in S THEN "start" ELSE "none"]]
    BY DEF Begin
  <2> QED BY <2>1, <2>2, <2>3
<1>4. listening' \subseteq Txs /\ relayers' \in [Txs -> SUBSET Peers]
  <2>1. listening \subseteq Txs /\ relayers \in [Txs -> SUBSET Peers]
    BY DEF TypeInv, TypeOK
  <2>2. \/ listening' = listening \ {tx[c]} /\ relayers' = relayers
        \/ listening' = listening \cup {tx[c]} /\ relayers' = [relayers EXCEPT ![tx[c]] = {}]
    BY DEF Begin
  <2> QED BY <1>1, <2>1, <2>2
<1> QED BY <1>2, <1>3, <1>4 DEF Begin, TypeInv, TypeOK, QuietHandlers

(* as do the steps of calls in progress,                                    *)
LEMMA CallType ==
    ASSUME TypeInv, NEW c \in Calls, End(c) \/ \E p \in Peers : PartStep(c, p)
    PROVE  TypeInv'
<1>1. CASE End(c)
  <2>1. pc' \in [Calls -> {"idle", "gather"} \cup Ended]
    BY <1>1 DEF End, Result, TypeInv, TypeOK
  <2>2. relays' \in [Calls -> SUBSET Peers]
    BY <1>1 DEF End, TypeInv, TypeOK
  <2> QED BY <1>1, <2>1, <2>2 DEF End, TypeInv, TypeOK, QuietHandlers
<1>2. ASSUME NEW p \in Peers, PartStep(c, p) PROVE TypeInv'
  BY <1>2, PartType DEF PartStep, Start, Poll, TimeOut
<1> QED BY <1>1, <1>2

(* Handlers of a peer that put something into the queue, or wait to.        *)
LEMMA QueueType ==
    ASSUME TypeInv, NEW p \in Peers, NEW t \in Txs, on_inv(p, t) \/ PutInv(p, t)
    PROVE  TypeInv'
<1>1. IsFiniteSet(putting[p])
  BY DEF TypeInv, QuietHandlers
<1>2. Cardinality(putting[p]) \in Nat
  BY <1>1, FS_CardinalityType
<1>3. Cardinality(putting[p]) <= HandlerCount /\ HandlerCount \in Nat
  BY BoundAssumption DEF TypeInv, TypeOK
<1>4. CASE on_inv(p, t) /\ Len(invs) < QueueMax /\ invs' = Append(invs, <<t, p>>)
           /\ UNCHANGED putting
  <2>1. invs' \in Seq(Txs \X Peers) /\ Len(invs') <= QueueMax
    BY <1>4, BoundAssumption DEF TypeInv, TypeOK
  <2>2. told' \in [Peers -> SUBSET Txs]
    BY <1>4 DEF on_inv, TypeInv, TypeOK
  <2> QED BY <1>4, <2>1, <2>2 DEF on_inv, TypeInv, TypeOK, QuietHandlers
<1>5. CASE on_inv(p, t) /\ putting' = [putting EXCEPT ![p] = @ \cup {t}] /\ UNCHANGED invs
  <2>1. IsFiniteSet(putting[p] \cup {t})
    BY <1>1, FS_AddElement
  <2>2. Cardinality(putting[p] \cup {t}) =
            IF t \in putting[p] THEN Cardinality(putting[p]) ELSE Cardinality(putting[p]) + 1
    BY <1>1, FS_AddElement
  <2>3. Cardinality(putting[p] \cup {t}) <= HandlerCount
    BY <1>2, <1>3, <1>5, <2>2 DEF on_inv, HandlerFree
  <2>4. putting' \in [Peers -> SUBSET Txs] /\ told' \in [Peers -> SUBSET Txs]
    BY <1>5 DEF on_inv, TypeInv, TypeOK
  <2> QED BY <1>5, <2>1, <2>3, <2>4 DEF on_inv, TypeInv, TypeOK, QuietHandlers
<1>6. CASE PutInv(p, t)
  <2>1. IsFiniteSet(putting[p] \ {t})
    BY <1>1, FS_RemoveElement
  <2>2. Cardinality(putting[p] \ {t}) =
            IF t \in putting[p] THEN Cardinality(putting[p]) - 1 ELSE Cardinality(putting[p])
    BY <1>1, FS_RemoveElement
  <2>3. Cardinality(putting[p] \ {t}) <= HandlerCount
    BY <1>2, <1>3, <2>2
  <2>4. invs' \in Seq(Txs \X Peers) /\ Len(invs') <= QueueMax
    BY <1>6, BoundAssumption DEF PutInv, TypeInv, TypeOK
  <2>5. putting' \in [Peers -> SUBSET Txs]
    BY <1>6 DEF PutInv, TypeInv, TypeOK
  <2> QED BY <1>6, <2>1, <2>3, <2>4, <2>5 DEF PutInv, TypeInv, TypeOK, QuietHandlers
<1> QED BY <1>4, <1>5, <1>6 DEF on_inv

(* and the listener.                                                        *)
LEMMA ListenType == TypeInv /\ Listen => TypeInv'
<1> SUFFICES ASSUME TypeInv, Listen PROVE TypeInv'
  OBVIOUS
<1> USE DEF TypeInv, TypeOK, QuietHandlers
<1>1. Head(invs) \in Txs \X Peers /\ invs' \in Seq(Txs \X Peers) /\ Len(invs') <= QueueMax
  BY BoundAssumption DEF Listen
<1>2. PICK t \in Txs, p \in Peers : Head(invs) = <<t, p>>
  BY <1>1
<1>3. relayers' \in [Txs -> SUBSET Peers] /\ heard' \in [Calls -> SUBSET Peers]
  BY <1>2 DEF Listen
<1> QED BY <1>1, <1>3 DEF Listen

(* The type is inductive.                                                   *)
LEMMA TypeStep == TypeInv /\ [Next]_vars => TypeInv'
<1> SUFFICES ASSUME TypeInv, [Next]_vars PROVE TypeInv'
  OBVIOUS
<1>1. ASSUME NEW p \in Peers, NEW t \in Txs, on_reject(p, t) PROVE TypeInv'
  BY <1>1 DEF on_reject, TypeInv, TypeOK, QuietHandlers
<1>2. CASE UNCHANGED vars
  BY <1>2 DEF vars, TypeInv, TypeOK, QuietHandlers
<1> QED BY <1>1, <1>2, BeginType, CallType, QueueType, ListenType DEF Next

(* Every reachable state has the type of its variables; in particular no    *)
(* client ever has more blocked handlers than it has handlers, and the      *)
(* queue of announcements is never longer than its bound.                   *)
THEOREM TypeCorrect == Spec => []TypeOK
<1>1. TypeInv => TypeOK
  BY DEF TypeInv
<1> QED BY <1>1, InitType, TypeStep, PTL DEF Spec

-----------------------------------------------------------------------------
(* What a step of a part writes: the place of the part, and the entry of    *)
(* its transaction in tx_reject_queue_map of its client.                    *)
PartWrites(c, p, v, w) ==
    /\ \A d \in Calls, q \in Peers :
           part'[d][q] = IF d = c /\ q = p THEN v ELSE part[d][q]
    /\ \A t \in Txs, q \in Peers :
           rejects'[q][t] = IF t = tx[c] /\ q = p THEN w ELSE rejects[q][t]

(* The ways in which a broadcast to one peer goes on.                       *)
LEMMA PartStepWrites ==
    ASSUME TypeInv, NEW c \in Calls, NEW p \in Peers, PartStep(c, p)
    PROVE  /\ \/ /\ part[c][p] = "start" /\ rejects[p][tx[c]] # "absent"
                 /\ PartWrites(c, p, "error", rejects[p][tx[c]])
              \/ /\ part[c][p] = "start" /\ rejects[p][tx[c]] = "absent"
                 /\ PartWrites(c, p, "rejected", "absent")
              \/ /\ part[c][p] = "start" /\ rejects[p][tx[c]] = "absent"
                 /\ PartWrites(c, p, "poll", "waiting")
              \/ part[c][p] = "poll" /\ PartWrites(c, p, "rejected", "absent")
              \/ part[c][p] = "poll" /\ PartWrites(c, p, "quiet", "absent")
           /\ \A q \in Peers, t \in Txs :
                 t \in sent'[q] => t \in sent[q] \/ (t = tx[c] /\ q = p)
           /\ UNCHANGED <<pc, tx, relays, listening, relayers, feed, heard>>
<1>1. /\ tx[c] \in Txs /\ part \in [Calls -> [Peers -> Running \cup
                                      {"none", "rejected", "quiet", "error"}]]
      /\ rejects \in [Peers -> [Txs -> {"absent", "waiting", "rejected"}]]
      /\ sent \in [Peers -> SUBSET Txs]
  BY DEF TypeInv, TypeOK
<1>2. ASSUME NEW v, NEW w, part' = [part EXCEPT ![c][p] = v],
             rejects' = [rejects EXCEPT ![p][tx[c]] = w]
      PROVE  PartWrites(c, p, v, w)
  BY <1>1, <1>2 DEF PartWrites
<1>3. ASSUME NEW v, part' = [part EXCEPT ![c][p] = v], UNCHANGED rejects
      PROVE  PartWrites(c, p, v, rejects[p][tx[c]])
  BY <1>1, <1>3 DEF PartWrites
<1>4. CASE Start(c, p)
  <2>1. \A q \in Peers, t \in Txs :
            t \in sent'[q] => t \in sent[q] \/ (t = tx[c] /\ q = p)
    BY <1>1, <1>4 DEF Start
  <2> QED BY <1>2, <1>3, <1>4, <2>1 DEF Start
<1>5. CASE Poll(c, p) \/ TimeOut(c, p)
  BY <1>2, <1>5 DEF Poll, TimeOut
<1> QED BY <1>4, <1>5 DEF PartStep

(* Begin() sets up the parts of its call, and nothing of another one.       *)
LEMMA BeginWrites ==
    ASSUME TypeInv, NEW c \in Calls, NEW S \in SUBSET Peers, Begin(c, S)
    PROVE  /\ pc[c] = "idle"
           /\ \A d \in Calls \ {c} : pc'[d] = pc[d] /\ part'[d] = part[d]
           /\ \/ /\ tx[c] \in listening
                 /\ pc'[c] = "duplicate" /\ UNCHANGED <<part, relayers>>
                 /\ listening' = listening \ {tx[c]}
              \/ /\ tx[c] \notin listening \/ relayers[tx[c]] = {}
                 /\ pc'[c] = "gather"
                 /\ \A p \in Peers : part'[c][p] \in {"start", "none"}
                 /\ listening' = listening \cup {tx[c]}
                 /\ \A t \in Txs : relayers'[t] = IF t = tx[c] THEN {} ELSE relayers[t]
           /\ UNCHANGED <<tx, relays, rejects, feed, sent, heard>>
<1>1. /\ pc \in [Calls -> {"idle", "gather"} \cup Ended]
      /\ part \in [Calls -> [Peers -> Running \cup {"none", "rejected", "quiet", "error"}]]
      /\ relayers \in [Txs -> SUBSET Peers] /\ tx[c] \in Txs
  BY DEF TypeInv, TypeOK
<1>2. CASE pc' = [pc EXCEPT ![c] = "duplicate"]
  BY <1>1, <1>2 DEF Begin
<1>3. CASE pc' = [pc EXCEPT ![c] = "gather"]
  <2>1. part' = [part EXCEPT ![c] = [p \in Peers |-> IF p \in S THEN "start" ELSE "none"]]
    BY <1>1, <1>3 DEF Begin
  <2>2. \A p \in Peers : part'[c][p] \in {"start", "none"}
    BY <1>1, <2>1
  <2>3. \A d \in Calls \ {c} : part'[d] = part[d]
    BY <1>1, <2>1
  <2> QED BY <1>1, <1>3, <2>2, <2>3 DEF Begin
<1> QED BY <1>2, <1>3 DEF Begin

-----------------------------------------------------------------------------
(* PollInv is inductive: an entry is made by the one who polls it, and      *)
(* deleted by him.                                                          *)
LEMMA PollStep == TypeInv /\ PollInv /\ [Next]_vars => PollInv'
<1> SUFFICES ASSUME TypeInv, PollInv, [Next]_vars PROVE PollInv'
  OBVIOUS
<1> USE DEF PollInv, OnePoller, PolledEntry
<1>0. \A c \in Calls : tx[c] \in Txs
  BY DEF TypeInv, TypeOK
<1>1. ASSUME NEW c \in Calls, NEW S \in SUBSET Peers, Begin(c, S) PROVE PollInv'
  <2>1. \A d \in Calls, p \in Peers : part'[d][p] = "poll" => part[d][p] = "poll"
    BY <1>1, BeginWrites
  <2> QED BY <1>1, <2>1, BeginWrites
<1>2. ASSUME NEW c \in Calls, NEW p \in Peers, PartStep(c, p) PROVE PollInv'
  <2>1. UNCHANGED tx
    BY <1>2, PartStepWrites
  <2>2. CASE part[c][p] = "start" /\ \E v \in {"error", "rejected"} :
                 PartWrites(c, p, v, rejects[p][tx[c]])
    BY <1>0, <2>1, <2>2 DEF PartWrites
  <2>3. CASE /\ part[c][p] = "start" /\ rejects[p][tx[c]] = "absent"
             /\ PartWrites(c, p, "poll", "waiting")
    BY <1>0, <2>1, <2>3 DEF PartWrites
  <2>4. CASE /\ part[c][p] = "poll"
             /\ \E v \in {"rejected", "quiet"} : PartWrites(c, p, v, "absent")
    BY <1>0, <2>1, <2>4 DEF PartWrites
  <2> QED BY <1>2, <2>2, <2>3, <2>4, PartStepWrites
<1>3. ASSUME NEW p \in Peers, NEW t \in Txs, on_reject(p, t) PROVE PollInv'
  <2>1. \A q \in Peers, u \in Txs : rejects'[q][u] = "absent" => rejects[q][u] = "absent"
    BY <1>3 DEF on_reject, TypeInv, TypeOK
  <2> QED BY <1>0, <1>3, <2>1 DEF on_reject
<1>4. ASSUME UNCHANGED <<part, tx, rejects>> PROVE PollInv'
  BY <1>4
<1> QED BY <1>1, <1>2, <1>3, <1>4 DEF Next, End, on_inv, PutInv, Listen, vars

(* The entry a broadcast looks up is there: KeyError cannot come of it,     *)
(* whatever other broadcasts of the same transaction do and however late    *)
(* Rejects come.  It holds because no two of them wait for it, which the    *)
(* check at the beginning of broadcast_transaction() sees to.               *)
THEOREM EntryPolled == Spec => []PolledEntry
<1>1. Init => PollInv
  BY DEF Init, PollInv, OnePoller, PolledEntry
<1>2. PollInv => PolledEntry
  BY DEF PollInv
<1> QED BY <1>1, <1>2, InitType, TypeStep, PollStep, PTL DEF Spec

-----------------------------------------------------------------------------
(* End() of a call.                                                         *)
LEMMA EndWrites ==
    ASSUME TypeInv, NEW c \in Calls, End(c)
    PROVE  /\ pc[c] = "gather"
           /\ \A d \in Calls \ {c} : pc'[d] = pc[d] /\ relays'[d] = relays[d]
           /\ pc'[c] = Result(c) /\ Result(c) \in Ended
           /\ Result(c) = "relayed" => relays'[c] = relayers[tx[c]]
           /\ listening' = listening \ {tx[c]}
           /\ UNCHANGED <<tx, part, rejects, relayers, feed, sent, heard>>
<1>1. pc \in [Calls -> {"idle", "gather"} \cup Ended] /\ relays \in [Calls -> SUBSET Peers]
  BY DEF TypeInv, TypeOK
<1>2. Result(c) \in Ended
  BY DEF Result
<1>3. pc' = [pc EXCEPT ![c] = Result(c)]
  BY DEF End
<1>4. relays' = [relays EXCEPT ![c] = IF Result(c) = "relayed" THEN relayers[tx[c]] ELSE {}]
  BY DEF End
<1> QED BY <1>1, <1>2, <1>3, <1>4 DEF End

(* At first nothing has been broadcast.                                     *)
LEMMA UsageInit == Init => UsageInv
  BY DEF Init, UsageInv, NoTrace, AloneInv, IdleInv

(* A call begins: UsageInv,                                                 *)
LEMMA UsageBegin ==
    ASSUME TypeInv, UsageInv, NEW c \in Calls, NEW S \in SUBSET Peers, Begin(c, S)
    PROVE  UsageInv'
<1> USE DEF UsageInv
<1>0. \A d \in Calls : tx[d] \in Txs
  BY DEF TypeInv, TypeOK
<1>1. /\ pc[c] = "idle" /\ pc'[c] # "idle"
      /\ \A d \in Calls \ {c} : pc'[d] = pc[d] /\ part'[d] = part[d]
      /\ UNCHANGED <<tx, rejects, sent, heard>>
  BY BeginWrites
<1>2. NoTrace'
  <2>1. \A t \in Txs : Untouched(t)' => Untouched(t)
    BY <1>1 DEF Untouched
  <2> QED BY <1>1, <2>1 DEF NoTrace
<1>3. IdleInv'
  <2>1. \A t \in listening' : t \in listening \/ t = tx[c]
    BY BeginWrites
  <2> QED BY <1>1, <2>1 DEF IdleInv
<1>4. ASSUME NEW d \in Calls, Alone(d)', d # c PROVE tx[d] # tx[c] /\ Alone(d)
  BY <1>1, <1>4 DEF Alone
<1>5. ASSUME Alone(c)' PROVE Untouched(tx[c])
  BY <1>1, <1>5 DEF Alone, Untouched
<1>6. ASSUME NEW d \in Calls, Alone(d)', d # c
      PROVE  /\ pc'[d] \notin {"duplicate", "failed", "keyerror"}
             /\ pc'[d] = "gather" => tx[d] \in listening'
             /\ pc'[d] \in Ended => Parts(d, Running)' = {}
             /\ \A p \in Peers :
                   /\ part'[d][p] # "error"
                   /\ part'[d][p] = "start" => rejects'[p][tx[d]] = "absent" /\ tx[d] \notin sent'[p]
  <2>1. tx[d] \in listening => tx[d] \in listening'
    BY <1>4, <1>6, BeginWrites
  <2>2. pc'[d] = pc[d] /\ part'[d] = part[d]
    BY <1>1, <1>6
  <2> QED BY <1>1, <1>4, <1>6, <2>1, <2>2 DEF AloneInv, Parts
<1>7. ASSUME Alone(c)'
      PROVE  /\ pc'[c] = "gather" /\ tx[c] \in listening'
             /\ \A p \in Peers :
                   /\ part'[c][p] \in {"start", "none"}
                   /\ rejects'[p][tx[c]] = "absent" /\ tx[c] \notin sent'[p]
  <2>1. tx[c] \notin listening
    BY <1>5, <1>7 DEF IdleInv, Untouched
  <2>2. \A p \in Peers : rejects[p][tx[c]] = "absent" /\ tx[c] \notin sent[p]
    BY <1>0, <1>5, <1>7 DEF NoTrace
  <2> QED BY <1>1, <2>1, <2>2, BeginWrites
<1>8. AloneInv'
  <2> SUFFICES ASSUME NEW d \in Calls, Alone(d)'
               PROVE  /\ pc'[d] \notin {"duplicate", "failed", "keyerror"}
                      /\ pc'[d] = "gather" => tx[d] \in listening'
                      /\ pc'[d] \in Ended => Parts(d, Running)' = {}
                      /\ \A p \in Peers :
                            /\ part'[d][p] # "error"
                            /\ part'[d][p] = "start" => rejects'[p][tx[d]] = "absent" /\ tx[d] \notin sent'[p]
    BY <1>1 DEF AloneInv
  <2> QED BY <1>6, <1>7
<1> QED BY <1>2, <1>3, <1>8

(* a broadcast to one peer goes on,                                         *)
LEMMA UsagePart ==
    ASSUME TypeInv, UsageInv, NEW c \in Calls, NEW p \in Peers, PartStep(c, p)
    PROVE  UsageInv'
<1> USE DEF UsageInv
<1>0. \A d \in Calls : tx[d] \in Txs
  BY DEF TypeInv, TypeOK
<1>1. UNCHANGED <<pc, tx, relays, listening, relayers, feed, heard>>
  BY PartStepWrites
<1>2. PICK v \in {"error", "rejected", "poll", "quiet"},
           w \in {"absent", "waiting", "rejected"} : PartWrites(c, p, v, w)
  <2>1. rejects[p][tx[c]] \in {"absent", "waiting", "rejected"}
    BY <1>0 DEF TypeInv, TypeOK
  <2> QED BY <2>1, PartStepWrites
<1>3. part[c][p] \in Running
  BY PartStepWrites
<1>4. pc[c] # "idle"
  BY <1>3 DEF IdleInv
<1>5. \A q \in Peers, t \in Txs : t \in sent'[q] => t \in sent[q] \/ (t = tx[c] /\ q = p)
  BY PartStepWrites
<1>6. NoTrace'
  <2>1. \A t \in Txs : Untouched(t)' => Untouched(t) /\ t # tx[c]
    BY <1>1, <1>4 DEF Untouched
  <2> QED BY <1>0, <1>1, <1>2, <1>5, <2>1 DEF NoTrace, PartWrites
<1>7. IdleInv'
  BY <1>1, <1>2, <1>4 DEF IdleInv, PartWrites
<1>8. ASSUME NEW d \in Calls, Alone(d)', d # c PROVE tx[d] # tx[c]
  BY <1>1, <1>4, <1>8 DEF Alone
<1>9. \A d \in Calls : Alone(d)' => Alone(d)
  BY <1>1 DEF Alone
<1>10. ASSUME Alone(c) PROVE v # "error"
  <2>1. part[c][p] = "start" => rejects[p][tx[c]] = "absent"
    BY <1>10 DEF AloneInv
  <2>2. CASE /\ part[c][p] = "start" /\ rejects[p][tx[c]] # "absent"
             /\ PartWrites(c, p, "error", rejects[p][tx[c]])
    BY <2>1, <2>2
  <2>3. CASE \E u \in {"rejected", "poll", "quiet"}, x \in {"absent", "waiting"} :
                 PartWrites(c, p, u, x)
    BY <1>2, <2>3 DEF PartWrites
  <2> QED BY <2>2, <2>3, PartStepWrites
<1>11. AloneInv'
  <2> SUFFICES ASSUME NEW d \in Calls, Alone(d)'
               PROVE  /\ pc[d] \notin {"duplicate", "failed", "keyerror"}
                      /\ pc[d] = "gather" => tx[d] \in listening
                      /\ pc[d] \in Ended => Parts(d, Running)' = {}
                      /\ \A q \in Peers :
                            /\ part'[d][q] # "error"
                            /\ part'[d][q] = "start" => rejects'[q][tx[d]] = "absent" /\ tx[d] \notin sent'[q]
    BY <1>1 DEF AloneInv
  <2>1. Alone(d)
    BY <1>9
  <2>2. pc[d] \in Ended => Parts(d, Running)' = {}
    BY <1>2, <1>3, <2>1 DEF AloneInv, Parts, PartWrites
  <2>3. CASE d # c
    BY <1>0, <1>2, <1>5, <1>8, <2>1, <2>2, <2>3 DEF AloneInv, PartWrites
  <2>4. CASE d = c
    BY <1>0, <1>2, <1>5, <1>10, <2>1, <2>2, <2>4 DEF AloneInv, PartWrites
  <2> QED BY <2>3, <2>4
<1> QED BY <1>6, <1>7, <1>11

(* a call ends.                                                             *)
LEMMA UsageEnd ==
    ASSUME TypeInv, UsageInv, NEW c \in Calls, End(c)
    PROVE  UsageInv'
<1> USE DEF UsageInv
<1>1. /\ pc[c] = "gather" /\ pc'[c] = Result(c) /\ Result(c) \in Ended
      /\ \A d \in Calls \ {c} : pc'[d] = pc[d]
      /\ listening' = listening \ {tx[c]}
      /\ UNCHANGED <<tx, part, rejects, sent, heard>>
  BY EndWrites
<1>2. NoTrace'
  BY <1>1 DEF NoTrace, Untouched
<1>3. IdleInv'
  BY <1>1 DEF IdleInv
<1>4. \A d \in Calls : Alone(d)' => Alone(d)
  BY <1>1 DEF Alone
<1>5. \A d \in Calls \ {c} : Alone(d)' => tx[d] # tx[c]
  BY <1>1 DEF Alone
<1>6. Alone(c) => Result(c) \notin {"duplicate", "failed", "keyerror"} /\ Parts(c, Running) = {}
  <2> SUFFICES ASSUME Alone(c)
               PROVE  Result(c) \notin {"duplicate", "failed", "keyerror"} /\ Parts(c, Running) = {}
    OBVIOUS
  <2>1. tx[c] \in listening /\ Parts(c, {"error"}) = {}
    BY <1>1 DEF AloneInv, Parts
  <2> QED BY <2>1 DEF Result, End
<1>7. AloneInv'
  <2> SUFFICES ASSUME NEW d \in Calls, Alone(d)'
               PROVE  /\ pc'[d] \notin {"duplicate", "failed", "keyerror"}
                      /\ pc'[d] = "gather" => tx[d] \in listening'
                      /\ pc'[d] \in Ended => Parts(d, Running) = {}
                      /\ \A p \in Peers :
                            /\ part[d][p] # "error"
                            /\ part[d][p] = "start" => rejects[p][tx[d]] = "absent" /\ tx[d] \notin sent[p]
    BY <1>1 DEF AloneInv, Parts
  <2>1. CASE d # c
    BY <1>1, <1>4, <1>5, <2>1 DEF AloneInv
  <2>2. CASE d = c
    BY <1>1, <1>4, <1>6, <2>2 DEF AloneInv
  <2> QED BY <2>1, <2>2
<1> QED BY <1>2, <1>3, <1>7

(* UsageInv is inductive.                                                   *)
LEMMA UsageStep == TypeInv /\ UsageInv /\ [Next]_vars => UsageInv'
<1> SUFFICES ASSUME TypeInv, UsageInv, [Next]_vars PROVE UsageInv'
  OBVIOUS
<1> USE DEF UsageInv, NoTrace, AloneInv, IdleInv, Untouched, Alone, Parts
<1>1. ASSUME NEW p \in Peers, NEW t \in Txs, on_reject(p, t) PROVE UsageInv'
  <2>1. \A q \in Peers, u \in Txs : u \in sent'[q] => u \in sent[q]
    BY <1>1 DEF on_reject, TypeInv, TypeOK
  <2>2. \A q \in Peers, u \in Txs : rejects'[q][u] = rejects[q][u] \/ u \in sent[q]
    BY <1>1 DEF on_reject, TypeInv, TypeOK
  <2>3. \A d \in Calls : tx[d] \in Txs
    BY DEF TypeInv, TypeOK
  <2>4. UNCHANGED <<pc, tx, part, listening, heard>>
    BY <1>1 DEF on_reject
  <2> QED BY <2>1, <2>2, <2>3, <2>4
<1>2. CASE Listen
  <2>1. \A c \in Calls : heard'[c] = heard[c] \/ pc[c] = "gather"
    BY <1>2 DEF Listen
  <2>2. UNCHANGED <<pc, tx, part, listening, rejects, sent>>
    BY <1>2 DEF Listen
  <2> QED BY <2>1, <2>2
<1>3. ASSUME UNCHANGED <<pc, tx, part, listening, heard, rejects, sent>> PROVE UsageInv'
  BY <1>3
<1> QED BY <1>1, <1>2, <1>3, UsageBegin, UsagePart, UsageEnd DEF Next, on_inv, PutInv, vars

(* However broadcasts of other transactions run through the same clients,   *)
(* the only call for a transaction is not refused, does not fail, and has    *)
(* nothing running when it has ended.                                       *)
THEOREM UsageConcurrent == Spec => []ConcurrentUsage
<1>1. UsageInv => ConcurrentUsage
  BY DEF UsageInv, AloneInv, ConcurrentUsage
<1> QED BY <1>1, InitType, TypeStep, UsageInit, UsageStep, PTL DEF Spec

-----------------------------------------------------------------------------
(* At first nobody waits for announcements.                                 *)
LEMMA RelayInit == Init => RelayInv
  BY DEF Init, RelayInv, EntryInv, NoOverlap, RelaysExact

(* A call begins: RelayInv,                                                 *)
LEMMA RelayBegin ==
    ASSUME TypeInv, IdleInv, RelayInv, NEW c \in Calls, NEW S \in SUBSET Peers, Begin(c, S)
    PROVE  RelayInv'
<1> USE DEF RelayInv
<1>0. \A d \in Calls : tx[d] \in Txs
  BY DEF TypeInv, TypeOK
<1>1. /\ pc[c] = "idle" /\ pc'[c] \in {"gather", "duplicate"}
      /\ \A d \in Calls \ {c} : pc'[d] = pc[d]
      /\ UNCHANGED <<tx, relays, heard>>
  BY BeginWrites
<1>2. heard[c] = {}
  BY <1>1 DEF IdleInv
<1>3. \A d \in Calls : Reuse # "while" /\ tx[d] = tx[c] => pc[d] # "gather"
  BY <1>1, ReuseAssumption DEF Begin, MayCall
<1>4. NoOverlap'
  BY <1>1, <1>3 DEF NoOverlap
<1>5. RelaysExact'
  BY <1>1 DEF RelaysExact, OthersGoOn
<1>6. ASSUME NEW d \in Calls, pc'[d] = "gather"
      PROVE  /\ tx[d] \in listening' => relayers'[tx[d]] \subseteq heard[d]
             /\ (Reuse # "while" \/ OthersGoOn(d)') =>
                    tx[d] \in listening' /\ heard[d] = relayers'[tx[d]]
  <2>1. CASE pc'[c] = "duplicate"
    <3>1. d # c /\ pc[d] = "gather"
      BY <1>1, <1>6, <2>1
    <3>2. UNCHANGED relayers /\ listening' = listening \ {tx[c]}
      BY <2>1, BeginWrites
    <3>3. tx[d] = tx[c] => Reuse = "while" /\ ~OthersGoOn(d)'
      BY <1>1, <1>3, <2>1, <3>1 DEF OthersGoOn
    <3>4. OthersGoOn(d)' => OthersGoOn(d)
      BY <1>1 DEF OthersGoOn
    <3> QED BY <3>1, <3>2, <3>3, <3>4 DEF EntryInv
  <2>2. CASE pc'[c] = "gather"
    <3>1. /\ listening' = listening \cup {tx[c]}
          /\ \A t \in Txs : relayers'[t] = IF t = tx[c] THEN {} ELSE relayers[t]
          /\ tx[c] \notin listening \/ relayers[tx[c]] = {}
      BY <2>2, BeginWrites
    <3>2. CASE d = c
      BY <1>0, <1>2, <3>1, <3>2
    <3>3. CASE d # c
      <4>1. pc[d] = "gather" /\ (OthersGoOn(d)' => OthersGoOn(d))
        BY <1>1, <1>6, <3>3 DEF OthersGoOn
      <4> QED BY <1>0, <3>1, <4>1 DEF EntryInv
    <3> QED BY <3>2, <3>3
  <2> QED BY <1>1, <2>1, <2>2
<1>7. EntryInv'
  BY <1>1, <1>6 DEF EntryInv
<1> QED BY <1>4, <1>5, <1>7

(* a call ends,                                                             *)
LEMMA RelayEnd ==
    ASSUME TypeInv, RelayInv, NEW c \in Calls, End(c)
    PROVE  RelayInv'
<1> USE DEF RelayInv
<1>1. /\ pc[c] = "gather" /\ pc'[c] = Result(c) /\ Result(c) \in Ended
      /\ \A d \in Calls \ {c} : pc'[d] = pc[d] /\ relays'[d] = relays[d]
      /\ Result(c) = "relayed" => relays'[c] = relayers[tx[c]]
      /\ listening' = listening \ {tx[c]}
      /\ UNCHANGED <<tx, relayers, heard>>
  BY EndWrites
<1>2. NoOverlap'
  BY <1>1 DEF NoOverlap
<1>3. \A d \in Calls : OthersGoOn(d)' => OthersGoOn(d)
  BY <1>1 DEF OthersGoOn
<1>4. Result(c) = "relayed" => tx[c] \in listening
  BY DEF Result
<1>5. RelaysExact'
  <2> SUFFICES ASSUME NEW d \in Calls, pc'[d] = "relayed"
               PROVE  /\ relays'[d] \subseteq heard[d]
                      /\ Reuse # "while" \/ OthersGoOn(d)' => heard[d] \subseteq relays'[d]
    BY <1>1 DEF RelaysExact
  <2>1. CASE d = c
    BY <1>1, <1>3, <1>4, <2>1 DEF EntryInv
  <2>2. CASE d # c
    BY <1>1, <1>3, <2>2 DEF RelaysExact
  <2> QED BY <2>1, <2>2
<1>6. ASSUME NEW d \in Calls, pc'[d] = "gather"
      PROVE  /\ pc[d] = "gather"
             /\ tx[d] = tx[c] => Reuse = "while" /\ ~OthersGoOn(d)'
  BY <1>1, <1>6 DEF NoOverlap, OthersGoOn
<1>7. EntryInv'
  BY <1>1, <1>3, <1>6 DEF EntryInv
<1> QED BY <1>2, <1>5, <1>7

(* an announcement is taken from the queue.                                 *)
LEMMA RelayListen ==
    ASSUME TypeInv, RelayInv, Listen
    PROVE  RelayInv'
<1> USE DEF RelayInv
<1>0. \A d \in Calls : tx[d] \in Txs
  BY DEF TypeInv, TypeOK
<1>1. Head(invs) \in Txs \X Peers
  BY DEF Listen, TypeInv, TypeOK
<1>2. PICK t \in Txs, p \in Peers : Head(invs) = <<t, p>>
  BY <1>1
<1>a. Head(invs)[1] = t /\ Head(invs)[2] = p
  BY <1>2
<1>b. relayers' = IF Head(invs)[1] \in listening
                  THEN [relayers EXCEPT ![Head(invs)[1]] = @ \cup {Head(invs)[2]}] ELSE relayers
  BY DEF Listen
<1>3. relayers' = IF t \in listening THEN [relayers EXCEPT ![t] = @ \cup {p}] ELSE relayers
  BY <1>a, <1>b, Zenon
<1>4. \A u \in Txs : relayers'[u] = IF u = t /\ t \in listening THEN relayers[u] \cup {p}
                                     ELSE relayers[u]
  BY <1>3 DEF TypeInv, TypeOK
<1>5. \A c \in Calls : heard'[c] = IF pc[c] = "gather" /\ tx[c] = t THEN heard[c] \cup {p}
                                    ELSE heard[c]
  <2>1. heard' = [c \in Calls |-> IF pc[c] = "gather" /\ tx[c] = Head(invs)[1]
                                   THEN heard[c] \cup {Head(invs)[2]} ELSE heard[c]]
    BY DEF Listen
  <2>2. heard' = [c \in Calls |-> IF pc[c] = "gather" /\ tx[c] = t
                                   THEN heard[c] \cup {p} ELSE heard[c]]
    BY <1>a, <2>1, Zenon
  <2> QED BY <2>2
<1>6. UNCHANGED <<pc, tx, relays, listening>>
  BY DEF Listen
<1>7. NoOverlap'
  BY <1>6 DEF NoOverlap
<1>8. RelaysExact'
  BY <1>5, <1>6 DEF RelaysExact, OthersGoOn
<1>9. EntryInv'
  <2> SUFFICES ASSUME NEW d \in Calls, pc[d] = "gather"
               PROVE  /\ tx[d] \in listening => relayers'[tx[d]] \subseteq heard'[d]
                      /\ (Reuse # "while" \/ OthersGoOn(d)) =>
                             tx[d] \in listening /\ heard'[d] = relayers'[tx[d]]
    BY <1>6 DEF EntryInv, OthersGoOn
  <2>1. heard'[d] = IF tx[d] = t THEN heard[d] \cup {p} ELSE heard[d]
    BY <1>5
  <2>2. tx[d] \in listening =>
            relayers'[tx[d]] = IF tx[d] = t THEN relayers[tx[d]] \cup {p} ELSE relayers[tx[d]]
    BY <1>0, <1>4
  <2> QED BY <2>1, <2>2 DEF EntryInv
<1> QED BY <1>7, <1>8, <1>9

(* RelayInv is inductive.                                                   *)
LEMMA RelayStep == TypeInv /\ IdleInv /\ RelayInv /\ [Next]_vars => RelayInv'
<1> SUFFICES ASSUME TypeInv, IdleInv, RelayInv, [Next]_vars PROVE RelayInv'
  OBVIOUS
<1>1. ASSUME UNCHANGED <<pc, tx, relays, listening, relayers, heard>> PROVE RelayInv'
  BY <1>1 DEF RelayInv, EntryInv, NoOverlap, RelaysExact, OthersGoOn
<1>2. ASSUME NEW c \in Calls, NEW p \in Peers, PartStep(c, p) PROVE RelayInv'
  BY <1>1, <1>2, PartStepWrites
<1> QED BY <1>1, <1>2, RelayBegin, RelayEnd, RelayListen
        DEF Next, on_reject, on_inv, PutInv, vars

(* A call that reports success names only peers that have announced its     *)
(* transaction while it waited, and all of these, unless another call for   *)
(* the same transaction has come to its end in between.                     *)
THEOREM RelayersExact == Spec => []RelaysExact
<1>1. RelayInv => RelaysExact
  BY DEF RelayInv
<1>2. UsageInv => IdleInv
  BY DEF UsageInv
<1> QED BY <1>1, <1>2, InitType, TypeStep, UsageInit, UsageStep, RelayInit, RelayStep, PTL
        DEF Spec
=============================================================================
