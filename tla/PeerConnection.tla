--------------------------- MODULE PeerConnection ---------------------------
(***************************************************************************)
(* One BitcoinClient (client.py) under the connect_task that keeps it      *)
(* connected (client_manager.py).                                          *)
(*                                                                         *)
(* asyncio runs one task at a time, so an action is what a task does       *)
(* between two awaits.  connect_task dials, waits for the handshake, puts  *)
(* the client in the connection pool, waits for connection_lost_event,     *)
(* sleeps and starts again.  Every successful dial starts a session task   *)
(* (the reader), which starts HandlerCount handler tasks and a keepalive   *)
(* task.  All sessions of a client share its message queue, its two events *)
(* and its `closing' flag, and nothing ties a session to the connection it *)
(* was started on: read_header() looks up self.reader for every frame.     *)
(*                                                                         *)
(* A connection and the session started on it have the same name, reused   *)
(* only when nothing refers to it any more.                                *)
(***************************************************************************)
EXTENDS Naturals, Sequences

CONSTANTS
    Links,          \* names of TCP connections, and of the sessions on them
    NoLink,         \* self.reader and self.writer are None
    HandlerCount,   \* MESSAGE_HANDLER_TASK_COUNT
    QueueMax,       \* maxsize of message_queue
    DropCloses,     \* StreamWriter.__del__ closes the transport (Python >= 3.11.5)
    MayRaise,       \* the peer may send messages whose handler raises
    MayClose        \* the program may call BitcoinClientManager.close()

ASSUME LinksAssumption   == NoLink \notin Links
ASSUME HandlerAssumption == HandlerCount \in Nat \ {0}
ASSUME QueueAssumption   == QueueMax \in Nat \ {0}
ASSUME FlagAssumption    == DropCloses \in BOOLEAN /\ MayRaise \in BOOLEAN /\ MayClose \in BOOLEAN

(* What a frame does to the client.  "verack" and "note" (sendheaders) have *)
(* an empty payload.  "reply" stands for version, ping and sendcmpct, whose *)
(* handler sends an answer, "bad" for a message whose handler raises.       *)
Kinds     == {"verack", "note", "reply"} \cup (IF MayRaise THEN {"bad"} ELSE {})
NoPayload == {"verack", "note"}
Messages  == [kind : Kinds, from : Links]
NoMessage == [kind |-> "none", from |-> NoLink]

VARIABLES
    sock,       \* the connection of self.reader and self.writer, or NoLink
    closing,    \* self.closing
    shaken,     \* handshake_complete_event is set
    lost,       \* connection_lost_event is set
    queue,      \* message_queue
    main,       \* main[s]: where the task start_session() of session s is
    rd,         \* rd[s]: the connection whose reader session s is reading
    held,       \* held[s]: the message session s waits to put into the queue
    handlers,   \* handlers[s]: handler tasks of session s still running
    alive,      \* alive[s]: where the keepalive task of session s is
    older,      \* older[s]: the sessions before s in the list self.tasks
    net,        \* net[k]: state of the connection k
    ct,         \* where connect_task is
    pooled,     \* the client is in _connection_pool
    mgr,        \* where BitcoinClientManager.close() is
    said,       \* connections whose peer has sent its verack
    acked       \* history: connections whose verack has been handled

client  == <<sock, closing, shaken, lost, queue>>
session == <<main, rd, held, handlers, alive, older>>
manager == <<ct, pooled, mgr>>
remote  == <<net, said>>
vars    == <<client, session, manager, remote, acked>>

Reading == {"read", "put"}          \* in the loop of _session()
Closing == {"flush", "linger"}      \* in close()

TypeOK ==
    /\ sock \in Links \cup {NoLink}
    /\ closing \in BOOLEAN /\ shaken \in BOOLEAN /\ lost \in BOOLEAN
    /\ queue \in Seq(Messages) /\ Len(queue) <= QueueMax
    /\ main \in [Links -> {"start", "done"} \cup Reading \cup Closing]
    /\ rd \in [Links -> Links \cup {NoLink}]
    /\ held \in [Links -> Messages \cup {NoMessage}]
    /\ \A s \in Links : main[s] = "put" => held[s] \in Messages
    /\ handlers \in [Links -> 0..HandlerCount]
    /\ alive \in [Links -> {"off", "wait", "beat"}]
    /\ older \in [Links -> SUBSET Links]
    /\ net \in [Links -> {"closed", "open", "eof"}]
    /\ ct \in {"dial", "shaking", "up", "sleep"}
    /\ pooled \in BOOLEAN
    /\ mgr \in {"open", "flush", "linger", "closed"}
    /\ said \in SUBSET Links /\ acked \in SUBSET Links

-----------------------------------------------------------------------------
(* BitcoinClient.__init__, and connect_task about to call client.connect(). *)
Init ==
    /\ sock = NoLink /\ closing = FALSE /\ shaken = FALSE /\ lost = FALSE
    /\ queue = <<>>
    /\ main = [s \in Links |-> "done"]
    /\ rd = [s \in Links |-> NoLink]
    /\ held = [s \in Links |-> NoMessage]
    /\ handlers = [s \in Links |-> 0]
    /\ alive = [s \in Links |-> "off"]
    /\ older = [s \in Links |-> {}]
    /\ net = [k \in Links |-> "closed"]
    /\ ct = "dial" /\ pooled = FALSE /\ mgr = "open"
    /\ said = {} /\ acked = {}

(* Session s still has a task that is not done.                             *)
Live(s) == main[s] # "done" \/ handlers[s] > 0 \/ alive[s] # "off"

(* Something still names k, so that k cannot be the name of a new connection. *)
InUse(k) ==
    \/ sock = k \/ Live(k) \/ net[k] # "closed"
    \/ \E s \in Links : main[s] \in Reading /\ rd[s] = k
    \/ \E s \in Links : held[s].from = k
    \/ \E i \in 1..Len(queue) : queue[i].from = k

(* StreamReader.readexactly() raises RuntimeError when another coroutine is *)
(* already waiting on the same reader.                                      *)
Busy(s) == \E t \in Links \ {s} : main[t] = "read" /\ rd[t] = sock

-----------------------------------------------------------------------------
(* Definitions named ...Mutant change the one after them as a slip in the   *)
(* code would: they serve to show that the properties can fail.             *)

(* close() by a caller that finds `closing' false: it marks the client,     *)
(* unblocks connect(), and closes the transport unless that is closing      *)
(* already.  The lost event is set in the same step only in the latter case. *)
LinkUp == sock # NoLink /\ net[sock] # "closed"
AfterClose == IF LinkUp THEN "flush" ELSE "linger"
UnmarkedCloseMutant ==
    /\ shaken' = TRUE
    /\ lost' = (lost \/ ~LinkUp)
    /\ net' = [k \in Links |-> IF k = sock THEN "closed" ELSE net[k]]
    /\ UNCHANGED closing
SilentCloseMutant ==
    /\ closing' = TRUE
    /\ lost' = (lost \/ ~LinkUp)
    /\ net' = [k \in Links |-> IF k = sock THEN "closed" ELSE net[k]]
    /\ UNCHANGED shaken
CloseLink ==
    /\ closing' = TRUE
    /\ shaken' = TRUE
    /\ lost' = (lost \/ ~LinkUp)
    /\ net' = [k \in Links |-> IF k = sock THEN "closed" ELSE net[k]]

(* close(), as the last thing session s does; a second caller returns.      *)
BeginClose(s) ==
    /\ rd' = [rd EXCEPT ![s] = NoLink]
    /\ held' = [held EXCEPT ![s] = NoMessage]
    /\ \/ /\ closing
          /\ main' = [main EXCEPT ![s] = "done"]
          /\ UNCHANGED <<closing, shaken, lost, net>>
       \/ /\ ~closing
          /\ main' = [main EXCEPT ![s] = AfterClose]
          /\ CloseLink

(* read_header() of session s, when it is next called: on self.reader as it *)
(* is now.  It fails at once when there is none or another session reads it. *)
ReadHeader(s) ==
    IF sock = NoLink \/ Busy(s)
    THEN BeginClose(s)
    ELSE /\ main' = [main EXCEPT ![s] = "read"]
         /\ rd' = [rd EXCEPT ![s] = sock]
         /\ held' = [held EXCEPT ![s] = NoMessage]
         /\ UNCHANGED <<closing, shaken, lost, net>>

(* _session(): start the tasks of the session and read the first header.    *)
OneHandlerStartMutant(s) ==
    /\ main[s] = "start"
    /\ handlers' = [handlers EXCEPT ![s] = IF \A t \in Links : handlers[t] = 0
                                           THEN HandlerCount ELSE 0]
    /\ alive' = [alive EXCEPT ![s] = "wait"]
    /\ ReadHeader(s)
    /\ UNCHANGED <<sock, queue, older, manager, said, acked>>
StartSession(s) ==
    /\ main[s] = "start"
    /\ handlers' = [handlers EXCEPT ![s] = HandlerCount]
    /\ alive' = [alive EXCEPT ![s] = "wait"]
    /\ ReadHeader(s)
    /\ UNCHANGED <<sock, queue, older, manager, said, acked>>

(* A whole frame m has been read.  Its header came from rd[s], its payload  *)
(* is read from self.reader: no reader fails the assertion, and the bytes   *)
(* of another connection fail the checksum or meet another reader.          *)
(* A frame may come from the buffer of a connection that is already down,   *)
(* but not when reset_state() closed it while the session was waiting.      *)
PayloadRead(s, m) == sock # NoLink /\ (rd[s] = sock \/ m.kind \in NoPayload)
Frame(s, m) ==
    /\ main[s] = "read" /\ m.from = rd[s]
    /\ net[rd[s]] = "closed" => rd[s] = sock
    /\ m.kind = "verack" => m.from \notin said
    /\ said' = IF m.kind = "verack" THEN said \cup {m.from} ELSE said
    /\ \/ /\ ~PayloadRead(s, m)
          /\ BeginClose(s)
          /\ UNCHANGED queue
       \/ /\ PayloadRead(s, m) /\ Len(queue) < QueueMax
          /\ queue' = Append(queue, m)
          /\ ReadHeader(s)
       \/ /\ PayloadRead(s, m) /\ Len(queue) = QueueMax
          /\ main' = [main EXCEPT ![s] = "put"]
          /\ held' = [held EXCEPT ![s] = m]
          /\ UNCHANGED <<rd, closing, shaken, lost, net, queue>>
    /\ UNCHANGED <<sock, handlers, alive, older, manager, acked>>

(* `await self.message_queue.put(...)' gets the slot a handler has freed.   *)
PutNowMutant(s) ==
    /\ main[s] = "put"
    /\ queue' = Append(queue, held[s])
    /\ ReadHeader(s)
    /\ UNCHANGED <<sock, handlers, alive, older, manager, said, acked>>
PutHeld(s) ==
    /\ main[s] = "put" /\ Len(queue) < QueueMax
    /\ queue' = Append(queue, held[s])
    /\ ReadHeader(s)
    /\ UNCHANGED <<sock, handlers, alive, older, manager, said, acked>>

(* Bad magic or checksum: _session() raises ValueError.                     *)
Misbehaves(s) ==
    /\ main[s] = "read" /\ net[rd[s]] = "open"
    /\ BeginClose(s)
    /\ UNCHANGED <<sock, queue, handlers, alive, older, manager, said, acked>>

(* The stream has ended: _session() raises ConnectionResetError.            *)
NoCloseMutant(s) ==
    /\ main[s] = "read" /\ net[rd[s]] # "open"
    /\ main' = [main EXCEPT ![s] = "done"]
    /\ rd' = [rd EXCEPT ![s] = NoLink]
    /\ UNCHANGED <<client, held, handlers, alive, older, manager, remote, acked>>
EndOfStream(s) ==
    /\ main[s] = "read" /\ net[rd[s]] # "open"
    /\ BeginClose(s)
    /\ UNCHANGED <<sock, queue, handlers, alive, older, manager, said, acked>>

(* close() after `await asyncio.sleep(0)'.                                  *)
NoLostEventMutant(s) ==
    /\ main[s] = "flush"
    /\ main' = [main EXCEPT ![s] = "linger"]
    /\ UNCHANGED <<client, rd, held, handlers, alive, older, manager, remote, acked>>
SetLost(s) ==
    /\ main[s] = "flush"
    /\ main' = [main EXCEPT ![s] = "linger"]
    /\ lost' = TRUE
    /\ UNCHANGED <<sock, closing, shaken, queue, rd, held, handlers, alive, older,
                   manager, remote, acked>>

(* The tasks of the sessions in S are cancelled, and the reader tasks in M. *)
CancelTasks(S, M) ==
    /\ main' = [t \in Links |-> IF t \in S \cup M THEN "done" ELSE main[t]]
    /\ rd' = [t \in Links |-> IF t \in S \cup M THEN NoLink ELSE rd[t]]
    /\ held' = [t \in Links |-> IF t \in S \cup M THEN NoMessage ELSE held[t]]
    /\ handlers' = [t \in Links |-> IF t \in S THEN 0 ELSE handlers[t]]
    /\ alive' = [t \in Links |-> IF t \in S THEN "off" ELSE alive[t]]

(* The loop at the end of close(), 0.2 s later: it cancels self.tasks in    *)
(* the order in which they were started, and session s meets its own task   *)
(* before its handlers and its keepalive.  Cancelled by itself, it raises   *)
(* CancelledError at the next `await asyncio.sleep(0)' and stops there.     *)
CancelNoneMutant(s) ==
    /\ main[s] = "linger"
    /\ CancelTasks({}, {s})
    /\ older' = [older EXCEPT ![s] = {}]
    /\ UNCHANGED <<client, manager, remote, acked>>
CancelOlder(s) ==
    /\ main[s] = "linger"
    /\ CancelTasks(older[s], {s})
    /\ older' = [older EXCEPT ![s] = {}]     \* not looked at again
    /\ UNCHANGED <<client, manager, remote, acked>>

(* keepalive() returns if the handshake event was set by close().           *)
KeepaliveStarts(s) ==
    /\ alive[s] = "wait" /\ shaken
    /\ alive' = [alive EXCEPT ![s] = IF closing THEN "off" ELSE "beat"]
    /\ UNCHANGED <<client, main, rd, held, handlers, older, manager, remote, acked>>

(* A ping changes no state here, but send_message() without a writer fails  *)
(* its assertion and ends the task.                                         *)
KeepaliveFails(s) ==
    /\ alive[s] = "beat" /\ sock = NoLink
    /\ alive' = [alive EXCEPT ![s] = "off"]
    /\ UNCHANGED <<client, main, rd, held, handlers, older, manager, remote, acked>>

(* handle_message_task_async(): a handler task of session s takes the next  *)
(* message, whatever session has read it.  An exception of the handler ends *)
(* the task; so does the assertion of send_message() without a writer.      *)
Raises(m) == m.kind = "bad" \/ (m.kind = "reply" /\ sock = NoLink)
Handle(s) ==
    /\ handlers[s] > 0 /\ queue # <<>>
    /\ LET m == Head(queue) IN
       /\ handlers' = [handlers EXCEPT ![s] = IF Raises(m) THEN @ - 1 ELSE @]
       /\ shaken' = (shaken \/ m.kind = "verack")
       /\ acked' = IF m.kind = "verack" THEN acked \cup {m.from} ELSE acked
    /\ queue' = Tail(queue)
    /\ UNCHANGED <<sock, closing, lost, main, rd, held, alive, older, manager, remote>>

-----------------------------------------------------------------------------
(* connect(): open_connection() has returned, start_session() is scheduled. *)
Dial(k) ==
    /\ ct = "dial" /\ ~InUse(k)
    /\ ct' = "shaking"
    /\ sock' = k
    /\ net' = [net EXCEPT ![k] = "open"]
    /\ main' = [main EXCEPT ![k] = "start"]
    /\ older' = [s \in Links |-> IF s = k THEN {t \in Links : Live(t)}
                                 ELSE older[s] \ {k}]
    /\ said' = said \ {k} /\ acked' = acked \ {k}
    /\ UNCHANGED <<closing, shaken, lost, queue, rd, held, handlers, alive, pooled, mgr>>

(* open_connection() raises ConnectionRefusedError or another OSError.      *)
DialRefused ==
    /\ ct = "dial"
    /\ ct' = "sleep"
    /\ UNCHANGED <<client, session, pooled, mgr, remote, acked>>

(* connect() resumes after handshake_complete_event: it raises              *)
(* ConnectionResetError if the client is closing, and connect_task sleeps.  *)
HandshakeFailed ==
    /\ ct = "shaking" /\ shaken /\ closing
    /\ ct' = "sleep"
    /\ UNCHANGED <<client, session, pooled, mgr, remote, acked>>

(* It returns: the client enters the pool and connect_task waits for        *)
(* connection_lost_event.                                                   *)
HandshakeDone ==
    /\ ct = "shaking" /\ shaken /\ ~closing /\ ~lost
    /\ ct' = "up" /\ pooled' = TRUE
    /\ UNCHANGED <<client, session, mgr, remote, acked>>

(* The same, when the event is still set from an earlier connection: wait() *)
(* does not suspend, and the client is out of the pool in the same step.    *)
HandshakeDropped ==
    /\ ct = "shaking" /\ shaken /\ ~closing /\ lost
    /\ ct' = "sleep" /\ lost' = FALSE
    /\ UNCHANGED <<sock, closing, shaken, queue, session, pooled, mgr, remote, acked>>

(* connection_lost_event: leave the pool.                                   *)
StaysPooledMutant ==
    /\ ct = "up" /\ lost
    /\ ct' = "sleep" /\ lost' = FALSE
    /\ UNCHANGED <<sock, closing, shaken, queue, session, pooled, mgr, remote, acked>>
ConnectionLost ==
    /\ ct = "up" /\ lost
    /\ ct' = "sleep" /\ lost' = FALSE /\ pooled' = FALSE
    /\ UNCHANGED <<sock, closing, shaken, queue, session, mgr, remote, acked>>

(* Timing.  connect_task sleeps 5 s or more, close() lingers 0.2 s, and     *)
(* everything else a task does follows at once: when the long sleep ends,   *)
(* no task of the client has anything left to do but wait for the peer.     *)
Drained == queue = <<>> \/ \A s \in Links : handlers[s] = 0
Settled ==
    /\ Drained
    /\ mgr \notin Closing
    /\ \A s \in Links :
          /\ main[s] \notin {"start"} \cup Closing
          /\ main[s] = "read" => net[rd[s]] = "open"
          /\ main[s] = "put" => Len(queue) = QueueMax
          /\ ~(alive[s] = "wait" /\ shaken)

(* The sleep ends: reset_state(), and connect() again.  It drops the last   *)
(* reference to the writer: where that closes the transport, it happens now. *)
KeepsHandshakeMutant ==
    /\ ct = "sleep" /\ Settled
    /\ ct' = "dial"
    /\ sock' = NoLink /\ closing' = FALSE
    /\ net' = [k \in Links |-> IF DropCloses /\ k = sock THEN "closed" ELSE net[k]]
    /\ UNCHANGED <<shaken, lost, queue, session, pooled, mgr, said, acked>>
Wake ==
    /\ ct = "sleep" /\ Settled
    /\ ct' = "dial"
    /\ sock' = NoLink /\ closing' = FALSE /\ shaken' = FALSE
    /\ net' = [k \in Links |-> IF DropCloses /\ k = sock THEN "closed" ELSE net[k]]
    /\ UNCHANGED <<lost, queue, session, pooled, mgr, said, acked>>

-----------------------------------------------------------------------------
(* BitcoinClientManager.close() awaits close() of a client that is in the   *)
(* pool and not closing; that close() cancels every task of the client.     *)
ManagerCloses ==
    /\ MayClose /\ mgr = "open"
    /\ \/ /\ pooled /\ ~closing
          /\ CloseLink
          /\ mgr' = AfterClose
       \/ /\ ~pooled \/ closing
          /\ mgr' = "closed"
          /\ UNCHANGED <<closing, shaken, lost, net>>
    /\ UNCHANGED <<sock, queue, session, ct, pooled, said, acked>>

ManagerSetsLost ==
    /\ mgr = "flush"
    /\ mgr' = "linger" /\ lost' = TRUE
    /\ UNCHANGED <<sock, closing, shaken, queue, session, ct, pooled, remote, acked>>

(* Timing: the handlers have emptied the queue in the 0.2 s before.         *)
AwaitsEventMutant ==
    /\ mgr = "linger" /\ Drained /\ lost
    /\ mgr' = "closed"
    /\ CancelTasks(Links, {})
    /\ UNCHANGED <<client, older, ct, pooled, remote, acked>>
ManagerCancels ==
    /\ mgr = "linger" /\ Drained
    /\ mgr' = "closed"
    /\ CancelTasks(Links, {})
    /\ UNCHANGED <<client, older, ct, pooled, remote, acked>>

(* The peer closes or resets the connection k.                              *)
RemoteEnds(k) ==
    /\ net[k] = "open"
    /\ \E state \in {"eof", "closed"} : net' = [net EXCEPT ![k] = state]
    /\ UNCHANGED <<client, session, manager, said, acked>>

-----------------------------------------------------------------------------
SessionStep(s) ==
    \/ StartSession(s) \/ PutHeld(s) \/ SetLost(s) \/ CancelOlder(s)

ClientStep(s) ==
    SessionStep(s) \/ EndOfStream(s) \/ KeepaliveStarts(s) \/ Handle(s)

ConnectStep ==
    \/ HandshakeFailed \/ HandshakeDone \/ HandshakeDropped \/ ConnectionLost \/ Wake
    \/ DialRefused
    \/ \E k \in Links : Dial(k)

ManagerStep == ManagerSetsLost \/ ManagerCancels

PeerStep ==
    \/ \E s \in Links : (\E m \in Messages : Frame(s, m)) \/ Misbehaves(s)
    \/ \E k \in Links : RemoteEnds(k)

Next ==
    \/ \E s \in Links : ClientStep(s) \/ KeepaliveFails(s)
    \/ ConnectStep
    \/ ManagerCloses \/ ManagerStep
    \/ PeerStep

(* The event loop runs every task that is ready and every timer that is due. *)
(* Strong fairness of EndOfStream says that a buffer is finite: a session   *)
(* cannot read frames of a connection that has ended for ever.              *)
(* The peer owes us nothing, and nothing makes the program close.           *)
Fairness ==
    /\ \A s \in Links : /\ WF_vars(SessionStep(s)) /\ SF_vars(EndOfStream(s))
                        /\ WF_vars(KeepaliveStarts(s))
    /\ WF_vars(\E s \in Links : Handle(s))
    /\ WF_vars(ConnectStep) /\ WF_vars(ManagerStep)

Spec == Init /\ [][Next]_vars
FairSpec == Spec /\ Fairness

-----------------------------------------------------------------------------
(* A client in the pool has had a handshake on the connection it holds now, *)
(* never one that an earlier connection completed: connect_task relies on   *)
(* connect() raising otherwise, although events, queue and handlers are     *)
(* shared by all sessions of the client.                                    *)
PooledAfterHandshake == pooled => sock \in acked

(* A message read from one connection never waits in message_queue, or in a *)
(* blocked put(), when the client has moved on to the next: a handler would *)
(* take it for a message of the new connection.                             *)
NoStaleMessage ==
    /\ \A i \in 1..Len(queue) : queue[i].from = sock
    /\ \A s \in Links : main[s] = "put" => held[s].from = sock

(* The inductive invariant behind the two, where a dropped connection is    *)
(* closed at once and no handler raises: a session waits for the connection *)
(* of the client or for one that will bring nothing more; the handlers of a *)
(* session outlive its reader; the queue is never left without handlers;    *)
(* and the handshake event speaks of the present connection.                *)
ReadersCurrent ==
    \A s \in Links : main[s] = "read" =>
        rd[s] \in Links /\ (rd[s] = sock \/ net[rd[s]] = "closed")
ReadersServed ==
    \A s \in Links : /\ main[s] \in Reading \cup Closing => handlers[s] > 0
                     /\ s \notin older[s]
QueueServed == queue # <<>> => \E s \in Links : handlers[s] > 0
ShakenAcked == shaken /\ ~closing => sock \in acked
PhaseOK     == (pooled <=> ct = "up") /\ (ct = "dial" => sock = NoLink)
HandshakeInv ==
    /\ TypeOK /\ NoStaleMessage /\ PooledAfterHandshake
    /\ ReadersCurrent /\ ReadersServed /\ QueueServed /\ ShakenAcked /\ PhaseOK

(* A client in the pool that is not being closed is not deaf: some session  *)
(* is in its read loop on the connection the client sends on.               *)
PooledIsRead ==
    pooled /\ ~closing => \E s \in Links : main[s] \in Reading /\ rd[s] = sock

(* The tasks that close() leaves behind do not pile up: whatever the number *)
(* of reconnections, the name of one of the sessions is free to dial again, *)
(* so that fewer sessions than there are Links have a task left.            *)
SessionsBounded == ct = "dial" => \E k \in Links : ~InUse(k)

(* connect_task drops a client from the pool only because of a close() of   *)
(* the present connection.                                                  *)
LeavesWhenClosed == [][ct = "up" /\ ct' = "sleep" => closing]_vars

(* The same of a client whose handshake has just been done, which a lost    *)
(* event of an earlier connection could make it drop.                       *)
JoinsWhenShaken == [][ct = "shaking" /\ ct' = "sleep" => closing]_vars

(* One session's tasks at a time handle messages: MESSAGE_HANDLER_TASK_COUNT *)
(* tasks, not those of an earlier session too.                              *)
OneHandlerGroup ==
    \A s, t \in Links : handlers[s] > 0 /\ handlers[t] > 0 => s = t

(* After BitcoinClientManager.close() the client stays out of the pool.     *)
StaysClosed == mgr = "closed" => ~pooled

(* A connection that ends under a client in the pool takes it out of there. *)
LossNoticed == (pooled /\ net[sock] # "open") ~> ~pooled

(* When the peer has answered or the connection has ended, connect() comes  *)
(* to an end, with a handshake or without.                                  *)
Answered          == sock \in said \/ net[sock] # "open"
HandshakeResolves == (ct = "shaking" /\ Answered) ~> (ct # "shaking")

(* connect() comes to an end whatever the peer does.                        *)
ConnectEnds == (ct = "shaking") ~> (ct # "shaking")

(* close() of the manager comes to an end.                                  *)
ManagerCloseEnds == (mgr # "open") ~> (mgr = "closed")

(* The client implements the promise of PeerLink.                           *)
Link == INSTANCE PeerLink WITH link <- sock, member <- pooled, met <- acked
ImplementsPeerLink == Link!Spec
=============================================================================
