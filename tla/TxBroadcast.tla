---------------------------- MODULE TxBroadcast ----------------------------
(***************************************************************************)
(* Broadcasting a transaction in the high-level mode: the manager's         *)
(* broadcast_transaction_and_listen() runs broadcast_transaction() of some  *)
(* connected clients side by side and collects what they report, while      *)
(* on_reject() of each client fills its tx_reject_queue_map, and on_inv()   *)
(* passes on who announces the transaction, through tx_inv_queue and        *)
(* listen_for_tx_relay_task(), to tx_inv_queue_map.                         *)
(*                                                                         *)
(* An action is what a task does between two awaits.  The clients stay      *)
(* connected here: PeerConnection models that they do not.                  *)
(***************************************************************************)
EXTENDS Naturals, Sequences, FiniteSets

CONSTANTS
    Calls,          \* calls of broadcast_transaction_and_listen()
    Txs,            \* transactions
    Malformed,      \* those that do not parse
    Peers,          \* clients in the connection pool
    HandlerCount,   \* MESSAGE_HANDLER_TASK_COUNT
    QueueMax,       \* maxsize of tx_inv_queue
    Reuse           \* a transaction may be broadcast again: "never", "after"
                    \* the earlier call has ended, or "while" it goes on

ASSUME TxAssumption    == Malformed \subseteq Txs
ASSUME BoundAssumption == HandlerCount \in Nat \ {0} /\ QueueMax \in Nat \ {0}
ASSUME ReuseAssumption == Reuse \in {"never", "after", "while"}

VARIABLES
    pc,         \* pc[c]: where the call is, or how it has ended
    tx,         \* tx[c]: the transaction it broadcasts
    part,       \* part[c][p]: where its broadcast_transaction() of p is
    relays,     \* relays[c]: the relaying_peer_ids it has returned
    rejects,    \* rejects[p]: tx_reject_queue_map of p
    listening,  \* the keys of tx_inv_queue_map
    relayers,   \* relayers[t]: the peers in tx_inv_queue_map[t]
    invs,       \* tx_inv_queue
    putting,    \* putting[p]: what handlers of p are waiting to put there
    sent,       \* sent[p]: transactions p has received and not yet judged
    told,       \* told[p]: transactions p has announced; it does so once
    heard       \* history: the announcements the listener has seen during a call

calls  == <<pc, tx, part, relays>>
maps   == <<rejects, listening, relayers>>
feed   == <<invs, putting, told>>
vars   == <<calls, maps, feed, sent, heard>>

Ended   == {"rejected", "relayed", "duplicate", "failed", "keyerror"}
Running == {"start", "poll"}

TypeOK ==
    /\ pc \in [Calls -> {"idle", "gather"} \cup Ended]
    /\ tx \in [Calls -> Txs]
    /\ part \in [Calls -> [Peers -> Running \cup {"none", "rejected", "quiet", "error"}]]
    /\ relays \in [Calls -> SUBSET Peers] /\ heard \in [Calls -> SUBSET Peers]
    /\ rejects \in [Peers -> [Txs -> {"absent", "waiting", "rejected"}]]
    /\ listening \subseteq Txs /\ relayers \in [Txs -> SUBSET Peers]
    /\ invs \in Seq(Txs \X Peers) /\ Len(invs) <= QueueMax
    /\ putting \in [Peers -> SUBSET Txs]
    /\ \A p \in Peers : Cardinality(putting[p]) <= HandlerCount
    /\ sent \in [Peers -> SUBSET Txs] /\ told \in [Peers -> SUBSET Txs]

Init ==
    /\ pc = [c \in Calls |-> "idle"]
    /\ tx \in [Calls -> Txs]
    /\ part = [c \in Calls |-> [p \in Peers |-> "none"]]
    /\ relays = [c \in Calls |-> {}] /\ heard = [c \in Calls |-> {}]
    /\ rejects = [p \in Peers |-> [t \in Txs |-> "absent"]]
    /\ listening = {} /\ relayers = [t \in Txs |-> {}]
    /\ invs = <<>> /\ putting = [p \in Peers |-> {}]
    /\ sent = [p \in Peers |-> {}] /\ told = [p \in Peers |-> {}]

-----------------------------------------------------------------------------
(* Definitions named ...Mutant change the one after them as a slip in the   *)
(* code would: they serve to show that the properties can fail.             *)

(* When the program may make the call c.                                    *)
MayCall(c) ==
    \A d \in Calls : pc[d] # "idle" /\ tx[d] = tx[c] =>
        Reuse = "while" \/ (Reuse = "after" /\ pc[d] # "gather")

(* broadcast_transaction_and_listen() up to gather(), with the peers that   *)
(* get_next_available_peer() has selected.  An empty list counts as no      *)
(* entry; and the ValueError leaves through `finally', which deletes the    *)
(* entry of the call that is in progress.                                   *)
Begin(c, S) ==
    /\ pc[c] = "idle" /\ MayCall(c)
    /\ \/ /\ tx[c] \in listening /\ relayers[tx[c]] # {}
          /\ pc' = [pc EXCEPT ![c] = "duplicate"]
          /\ listening' = listening \ {tx[c]}
          /\ UNCHANGED <<part, relayers>>
       \/ /\ ~(tx[c] \in listening /\ relayers[tx[c]] # {})
          /\ pc' = [pc EXCEPT ![c] = "gather"]
          /\ listening' = listening \cup {tx[c]}
          /\ relayers' = [relayers EXCEPT ![tx[c]] = {}]
          /\ part' = [part EXCEPT ![c] = [p \in Peers |-> IF p \in S THEN "start"
                                                          ELSE "none"]]
    /\ UNCHANGED <<tx, relays, rejects, feed, sent, heard>>

(* broadcast_transaction() of client p up to its first sleep: it raises when *)
(* the transaction is in the map already.                                   *)
UncheckedStartMutant(c, p) ==
    /\ part[c][p] = "start"
    /\ part' = [part EXCEPT ![c][p] = "poll"]
    /\ rejects' = [rejects EXCEPT ![p][tx[c]] = "waiting"]
    /\ sent' = [sent EXCEPT ![p] = @ \cup {tx[c]}]
    /\ UNCHANGED <<pc, tx, relays, listening, relayers, feed, heard>>
OneAtATimeMutant(c, p) ==
    /\ part[c][p] = "start"
    /\ \/ /\ \E t \in Txs : rejects[p][t] # "absent"
          /\ part' = [part EXCEPT ![c][p] = "error"]
          /\ UNCHANGED <<rejects, sent>>
       \/ /\ \A t \in Txs : rejects[p][t] = "absent"
          /\ part' = [part EXCEPT ![c][p] = "poll"]
          /\ rejects' = [rejects EXCEPT ![p][tx[c]] = "waiting"]
          /\ sent' = [sent EXCEPT ![p] = @ \cup {tx[c]}]
    /\ UNCHANGED <<pc, tx, relays, listening, relayers, feed, heard>>
Start(c, p) ==
    /\ part[c][p] = "start"
    /\ \/ /\ rejects[p][tx[c]] # "absent"
          /\ part' = [part EXCEPT ![c][p] = "error"]
          /\ UNCHANGED <<rejects, sent>>
       \/ /\ rejects[p][tx[c]] = "absent" /\ tx[c] \in Malformed
          /\ part' = [part EXCEPT ![c][p] = "rejected"]
          /\ UNCHANGED <<rejects, sent>>
       \/ /\ rejects[p][tx[c]] = "absent" /\ tx[c] \notin Malformed
          /\ part' = [part EXCEPT ![c][p] = "poll"]
          /\ rejects' = [rejects EXCEPT ![p][tx[c]] = "waiting"]
          /\ sent' = [sent EXCEPT ![p] = @ \cup {tx[c]}]
    /\ UNCHANGED <<pc, tx, relays, listening, relayers, feed, heard>>

(* A turn of its loop: a Reject has come, and the entry is deleted.         *)
Poll(c, p) ==
    /\ part[c][p] = "poll" /\ rejects[p][tx[c]] = "rejected"
    /\ part' = [part EXCEPT ![c][p] = "rejected"]
    /\ rejects' = [rejects EXCEPT ![p][tx[c]] = "absent"]
    /\ UNCHANGED <<pc, tx, relays, listening, relayers, feed, sent, heard>>

(* wait_time is over when it wakes: it does not look at the entry again.    *)
WaitsForRejectMutant(c, p) ==
    /\ part[c][p] = "poll" /\ rejects[p][tx[c]] = "rejected"
    /\ part' = [part EXCEPT ![c][p] = "quiet"]
    /\ rejects' = [rejects EXCEPT ![p][tx[c]] = "absent"]
    /\ UNCHANGED <<pc, tx, relays, listening, relayers, feed, sent, heard>>
TimeOut(c, p) ==
    /\ part[c][p] = "poll"
    /\ part' = [part EXCEPT ![c][p] = "quiet"]
    /\ rejects' = [rejects EXCEPT ![p][tx[c]] = "absent"]
    /\ UNCHANGED <<pc, tx, relays, listening, relayers, feed, sent, heard>>

(* gather() returns when all parts have, or raises what the first one that  *)
(* fails has raised and lets the others run.  A Reject counts for more than *)
(* relays.  `finally' deletes the entry, and raises KeyError without one.   *)
Parts(c, at) == {p \in Peers : part[c][p] \in at}
Result(c) ==
    IF tx[c] \notin listening THEN "keyerror"
    ELSE IF Parts(c, {"error"}) # {} THEN "failed"
    ELSE IF Parts(c, {"rejected"}) # {} THEN "rejected" ELSE "relayed"
End(c) ==
    /\ pc[c] = "gather"
    /\ Parts(c, {"error"}) # {} \/ Parts(c, Running) = {}
    /\ pc' = [pc EXCEPT ![c] = Result(c)]
    /\ relays' = [relays EXCEPT ![c] = IF Result(c) = "relayed" THEN relayers[tx[c]]
                                       ELSE {}]
    /\ listening' = listening \ {tx[c]}
    /\ UNCHANGED <<tx, part, rejects, relayers, feed, sent, heard>>

-----------------------------------------------------------------------------
(* A handler of p is not waiting to put something into tx_inv_queue.        *)
AlwaysFreeMutant(p) == TRUE
HandlerFree(p) == Cardinality(putting[p]) < HandlerCount

(* on_reject(): the entry is made, whether there is one or not.             *)
on_reject(p, t) ==
    /\ t \in sent[p] /\ HandlerFree(p)
    /\ sent' = [sent EXCEPT ![p] = @ \ {t}]
    /\ rejects' = [rejects EXCEPT ![p][t] = "rejected"]
    /\ UNCHANGED <<calls, listening, relayers, feed, heard>>

(* on_inv(): the handler waits when the queue is full.  Once a peer has the *)
(* transaction every peer may announce it, the first one included.          *)
on_inv(p, t) ==
    /\ t \notin told[p] /\ HandlerFree(p)
    /\ \E c \in Calls : tx[c] = t /\ Parts(c, {"poll", "quiet"}) # {}
    /\ told' = [told EXCEPT ![p] = @ \cup {t}]
    /\ \/ /\ Len(invs) < QueueMax
          /\ invs' = Append(invs, <<t, p>>)
          /\ UNCHANGED putting
       \/ /\ Len(invs) = QueueMax
          /\ putting' = [putting EXCEPT ![p] = @ \cup {t}]
          /\ UNCHANGED invs
    /\ UNCHANGED <<calls, maps, sent, heard>>

PutInv(p, t) ==
    /\ t \in putting[p] /\ Len(invs) < QueueMax
    /\ invs' = Append(invs, <<t, p>>)
    /\ putting' = [putting EXCEPT ![p] = @ \ {t}]
    /\ UNCHANGED <<calls, maps, told, sent, heard>>

(* A turn of listen_for_tx_relay_task().                                    *)
StopsOnUnknownMutant ==
    /\ invs # <<>> /\ Head(invs)[1] \in listening
    /\ LET t == Head(invs)[1]  p == Head(invs)[2] IN
       /\ relayers' = [relayers EXCEPT ![t] = @ \cup {p}]
       /\ heard' = [c \in Calls |-> IF pc[c] = "gather" /\ tx[c] = t
                                    THEN heard[c] \cup {p} ELSE heard[c]]
    /\ invs' = Tail(invs)
    /\ UNCHANGED <<calls, rejects, listening, putting, told, sent>>
AnyEntryMutant ==
    /\ invs # <<>>
    /\ LET t == Head(invs)[1]  p == Head(invs)[2] IN
       /\ relayers' = [u \in Txs |-> IF u \in listening THEN relayers[u] \cup {p}
                                     ELSE relayers[u]]
       /\ heard' = [c \in Calls |-> IF pc[c] = "gather" /\ tx[c] = t
                                    THEN heard[c] \cup {p} ELSE heard[c]]
    /\ invs' = Tail(invs)
    /\ UNCHANGED <<calls, rejects, listening, putting, told, sent>>
Listen ==
    /\ invs # <<>>
    /\ LET t == Head(invs)[1]  p == Head(invs)[2] IN
       /\ relayers' = IF t \in listening
                      THEN [relayers EXCEPT ![t] = @ \cup {p}] ELSE relayers
       /\ heard' = [c \in Calls |-> IF pc[c] = "gather" /\ tx[c] = t
                                    THEN heard[c] \cup {p} ELSE heard[c]]
    /\ invs' = Tail(invs)
    /\ UNCHANGED <<calls, rejects, listening, putting, told, sent>>

-----------------------------------------------------------------------------
PartStep(c, p) == Start(c, p) \/ Poll(c, p) \/ TimeOut(c, p)

Next ==
    \/ \E c \in Calls :
          \/ \E S \in (SUBSET Peers) \ {{}} : Begin(c, S)
          \/ End(c)
          \/ \E p \in Peers : PartStep(c, p)
    \/ \E p \in Peers, t \in Txs : on_reject(p, t) \/ on_inv(p, t) \/ PutInv(p, t)
    \/ Listen

(* The event loop runs what is ready, and wait_time passes.  Neither the    *)
(* program nor the peers owe us anything.                                   *)
Fairness ==
    /\ \A c \in Calls : WF_vars(End(c)) /\ \A p \in Peers : WF_vars(PartStep(c, p))
    /\ \A p \in Peers, t \in Txs : WF_vars(PutInv(p, t))
    /\ WF_vars(Listen)

Spec     == Init /\ [][Next]_vars
FairSpec == Spec /\ Fairness

-----------------------------------------------------------------------------
(* The entry that a broadcast looks up every 0.2 s is there, whatever other *)
(* broadcasts of the same transaction and late Rejects do to the map:       *)
(* otherwise the lookup raises KeyError.                                    *)
PolledEntry ==
    \A c \in Calls, p \in Peers : part[c][p] = "poll" => rejects[p][tx[c]] # "absent"

(* Different transactions may be broadcast at the same time through the     *)
(* same clients (comment at tx_reject_queue_map in client.py): no call      *)
(* fails because of those for other transactions.  Nor does anything such a *)
(* call has started go on when it has ended, although gather() would let it. *)
Alone(c)        == \A d \in Calls \ {c} : tx[d] = tx[c] => pc[d] = "idle"
ConcurrentUsage ==
    \A c \in Calls : Alone(c) =>
        /\ pc[c] \notin {"duplicate", "failed", "keyerror"}
        /\ pc[c] \in Ended => Parts(c, Running) = {}

(* A call that reports success names peers whose announcement of that very  *)
(* transaction has come while it was waiting, and no other.  It names all   *)
(* of them, unless calls for one transaction may overlap and another one    *)
(* has ended or been refused: that deletes the entry, which a third may     *)
(* make again.                                                              *)
OthersGoOn(c) == \A d \in Calls \ {c} : tx[d] = tx[c] => pc[d] \in {"idle", "gather"}
RelaysExact ==
    \A c \in Calls : pc[c] = "relayed" =>
        /\ relays[c] \subseteq heard[c]
        /\ Reuse # "while" \/ OthersGoOn(c) => heard[c] \subseteq relays[c]

(* A call can be repeated when it has ended.                                *)
Repeatable == \A c \in Calls : pc[c] # "failed"

(* A call whose transaction is being broadcast already is refused, and the  *)
(* other one goes on.                                                       *)
DuplicateRefused == \A c \in Calls : pc[c] # "keyerror"

(* A Reject that has come while broadcast_transaction() is waiting is       *)
(* returned.                                                                *)
RejectReturned ==
    [][\A c \in Calls, p \in Peers :
          part[c][p] = "poll" /\ rejects[p][tx[c]] = "rejected"
              => part'[c][p] # "quiet"]_vars

(* Every call ends.                                                         *)
CallEnds == \A c \in Calls : (pc[c] = "gather") ~> (pc[c] \in Ended)

(* The warning of on_inv(), that a full queue blocks the handlers until it  *)
(* is cleared: it is cleared.                                               *)
HandlersFreed == \A p \in Peers : (putting[p] # {}) ~> (putting[p] = {})
=============================================================================
