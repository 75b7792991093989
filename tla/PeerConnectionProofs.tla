----------------------- MODULE PeerConnectionProofs -----------------------
(* Proofs about PeerConnection, for every set of links, number of handlers  *)
(* and queue size.                                                          *)
EXTENDS PeerConnection, TLAPS

USE DEF NoPayload, Reading, Closing

(* Closing a connection keeps the types of what it changes.                 *)
LEMMA CloseLinkType ==
    ASSUME TypeOK, CloseLink
    PROVE  /\ closing' \in BOOLEAN /\ shaken' \in BOOLEAN /\ lost' \in BOOLEAN
           /\ net' \in [Links -> {"closed", "open", "eof"}]
  BY DEF TypeOK, CloseLink, LinkUp

(* What a session's close() writes has its type,                            *)
LEMMA BeginCloseType ==
    ASSUME TypeOK, NEW s \in Links, BeginClose(s)
    PROVE  /\ closing' \in BOOLEAN /\ shaken' \in BOOLEAN /\ lost' \in BOOLEAN
           /\ net' \in [Links -> {"closed", "open", "eof"}]
           /\ main' \in [Links -> {"start", "done"} \cup Reading \cup Closing]
           /\ rd' \in [Links -> Links \cup {NoLink}]
           /\ held' \in [Links -> Messages \cup {NoMessage}]
           /\ \A t \in Links : main'[t] = "put" => held'[t] \in Messages
  BY CloseLinkType DEF TypeOK, BeginClose, AfterClose

(* as has what a session writes that goes back to reading,                  *)
LEMMA ReadHeaderType ==
    ASSUME TypeOK, NEW s \in Links, ReadHeader(s)
    PROVE  /\ closing' \in BOOLEAN /\ shaken' \in BOOLEAN /\ lost' \in BOOLEAN
           /\ net' \in [Links -> {"closed", "open", "eof"}]
           /\ main' \in [Links -> {"start", "done"} \cup Reading \cup Closing]
           /\ rd' \in [Links -> Links \cup {NoLink}]
           /\ held' \in [Links -> Messages \cup {NoMessage}]
           /\ \A t \in Links : main'[t] = "put" => held'[t] \in Messages
<1>1. CASE sock = NoLink \/ Busy(s)
  BY <1>1, BeginCloseType DEF ReadHeader
<1>2. CASE ~(sock = NoLink \/ Busy(s))
  <2>1. /\ main' = [main EXCEPT ![s] = "read"] /\ rd' = [rd EXCEPT ![s] = sock]
        /\ held' = [held EXCEPT ![s] = NoMessage]
        /\ UNCHANGED <<closing, shaken, lost, net>>
    BY <1>2 DEF ReadHeader
  <2>2. sock \in Links \cup {NoLink}
    BY DEF TypeOK
  <2>3. \A t \in Links : main'[t] = "put" => held'[t] \in Messages
    BY <2>1 DEF TypeOK
  <2> QED BY <2>1, <2>2, <2>3 DEF TypeOK
<1> QED BY <1>1, <1>2

(* a queue with one more message,                                           *)
LEMMA AppendType ==
    ASSUME TypeOK, NEW m \in Messages, Len(queue) < QueueMax, queue' = Append(queue, m)
    PROVE  queue' \in Seq(Messages) /\ Len(queue') <= QueueMax
  BY QueueAssumption DEF TypeOK

(* what cancelled tasks leave,                                              *)
LEMMA CancelType ==
    ASSUME TypeOK, NEW S, NEW M, CancelTasks(S, M)
    PROVE  /\ main' \in [Links -> {"start", "done"} \cup Reading \cup Closing]
           /\ rd' \in [Links -> Links \cup {NoLink}]
           /\ held' \in [Links -> Messages \cup {NoMessage}]
           /\ \A t \in Links : main'[t] = "put" => held'[t] \in Messages
           /\ handlers' \in [Links -> 0..HandlerCount]
           /\ alive' \in [Links -> {"off", "wait", "beat"}]
  BY HandlerAssumption DEF TypeOK, CancelTasks

(* and what a frame brings.                                                 *)
LEMMA FrameType ==
    ASSUME TypeOK, NEW s \in Links, NEW m \in Messages, Frame(s, m)
    PROVE  TypeOK'
<1>1. CASE ~PayloadRead(s, m) /\ BeginClose(s) /\ UNCHANGED queue
  BY <1>1, BeginCloseType DEF TypeOK, Frame, manager, Messages
<1>2. CASE PayloadRead(s, m) /\ Len(queue) < QueueMax
           /\ queue' = Append(queue, m) /\ ReadHeader(s)
  BY <1>2, ReadHeaderType, AppendType DEF TypeOK, Frame, manager, Messages
<1>3. CASE PayloadRead(s, m) /\ main' = [main EXCEPT ![s] = "put"]
           /\ held' = [held EXCEPT ![s] = m]
           /\ UNCHANGED <<rd, closing, shaken, lost, net, queue>>
  BY <1>3 DEF TypeOK, Frame, manager, Messages
<1> QED BY <1>1, <1>2, <1>3 DEF Frame

(* The type is inductive,                                                   *)
LEMMA TypeStep == TypeOK /\ [Next]_vars => TypeOK'
<1> SUFFICES ASSUME TypeOK, [Next]_vars PROVE TypeOK'
  OBVIOUS
<1> USE DEF client, session, manager, remote
<1>1. ASSUME NEW s \in Links, StartSession(s) PROVE TypeOK'
  BY <1>1, ReadHeaderType, HandlerAssumption DEF StartSession, TypeOK
<1>2. ASSUME NEW s \in Links, PutHeld(s) PROVE TypeOK'
  <2>1. held[s] \in Messages
    BY <1>2 DEF TypeOK, PutHeld
  <2> QED BY <1>2, <2>1, ReadHeaderType, AppendType DEF PutHeld, TypeOK
<1>3. ASSUME NEW s \in Links, SetLost(s) PROVE TypeOK'
  BY <1>3 DEF SetLost, TypeOK
<1>4. ASSUME NEW s \in Links, CancelOlder(s) PROVE TypeOK'
  BY <1>4, CancelType DEF CancelOlder, TypeOK
<1>5. ASSUME NEW s \in Links, EndOfStream(s) PROVE TypeOK'
  BY <1>5, BeginCloseType DEF EndOfStream, TypeOK
<1>6. ASSUME NEW s \in Links, KeepaliveStarts(s) \/ KeepaliveFails(s) PROVE TypeOK'
  BY <1>6 DEF KeepaliveStarts, KeepaliveFails, TypeOK
<1>7. ASSUME NEW s \in Links, Handle(s) PROVE TypeOK'
  <2>1. queue' \in Seq(Messages) /\ Len(queue') <= QueueMax
    BY <1>7, QueueAssumption DEF Handle, TypeOK
  <2>2. Head(queue) \in Messages
    BY <1>7 DEF Handle, TypeOK
  <2>3. Head(queue).from \in Links
    BY <2>2 DEF Messages
  <2>4. handlers' \in [Links -> 0..HandlerCount]
    BY <1>7, HandlerAssumption DEF Handle, TypeOK
  <2>5. shaken' \in BOOLEAN /\ acked' \in SUBSET Links
    BY <1>7, <2>3 DEF Handle, TypeOK
  <2> QED BY <1>7, <2>1, <2>4, <2>5 DEF Handle, TypeOK
<1>8. CASE ConnectStep
  <2>1. ASSUME NEW k \in Links, Dial(k) PROVE TypeOK'
    BY <2>1 DEF Dial, TypeOK
  <2>2. CASE HandshakeFailed \/ HandshakeDone \/ HandshakeDropped
             \/ ConnectionLost \/ Wake \/ DialRefused
    BY <2>2 DEF HandshakeFailed, HandshakeDone, HandshakeDropped, ConnectionLost, Wake,
                DialRefused, TypeOK
  <2> QED BY <1>8, <2>1, <2>2 DEF ConnectStep
<1>9. CASE ManagerCloses
  BY <1>9, CloseLinkType DEF ManagerCloses, AfterClose, TypeOK
<1>10. CASE ManagerStep
  BY <1>10, CancelType DEF ManagerStep, ManagerSetsLost, ManagerCancels, TypeOK
<1>11. ASSUME NEW s \in Links, Misbehaves(s) PROVE TypeOK'
  BY <1>11, BeginCloseType DEF Misbehaves, TypeOK
<1>12. ASSUME NEW k \in Links, RemoteEnds(k) PROVE TypeOK'
  BY <1>12 DEF RemoteEnds, TypeOK
<1>13. CASE UNCHANGED vars
  BY <1>13 DEF vars, TypeOK
<1> QED BY <1>1, <1>2, <1>3, <1>4, <1>5, <1>6, <1>7, <1>8, <1>9, <1>10, <1>11, <1>12,
           <1>13, FrameType DEF Next, ClientStep, SessionStep, PeerStep

(* and holds at first.                                                      *)
LEMMA InitType == Init => TypeOK
<1> SUFFICES ASSUME Init PROVE TypeOK
  OBVIOUS
<1>1. queue \in Seq(Messages) /\ Len(queue) <= QueueMax
  BY QueueAssumption DEF Init
<1>2. handlers \in [Links -> 0..HandlerCount]
  BY HandlerAssumption DEF Init
<1>3. \A s \in Links : main[s] = "put" => held[s] \in Messages
  BY DEF Init
<1> QED BY <1>1, <1>2, <1>3 DEF Init, TypeOK

(* Every reachable state has the type of its variables.                     *)
THEOREM TypeCorrect == Spec => []TypeOK
  BY InitType, TypeStep, PTL DEF Spec

-----------------------------------------------------------------------------
(* The rest holds of a peer that makes no handler raise, where dropping a   *)
(* StreamWriter closes its connection.                                      *)
Benign == DropCloses /\ ~MayRaise

(* What close() leaves true of the parts of HandshakeInv it touches.        *)
LEMMA CloseLinkInv ==
    ASSUME TypeOK, ReadersCurrent, CloseLink, UNCHANGED <<sock, main, rd>>
    PROVE  closing' /\ ReadersCurrent'
  BY DEF TypeOK, ReadersCurrent, CloseLink, LinkUp

(* What a session that begins to close leaves true,                         *)
LEMMA BeginCloseInv ==
    ASSUME TypeOK, ReadersCurrent, ShakenAcked, NEW s \in Links, BeginClose(s),
           UNCHANGED <<sock, acked>>
    PROVE  /\ ReadersCurrent' /\ ShakenAcked'
           /\ \A t \in Links : main'[t] = "put" => main[t] = "put" /\ held'[t] = held[t]
           /\ \A t \in Links : main'[t] \in Reading \cup Closing
                              => t = s \/ main[t] \in Reading \cup Closing
<1>1. CASE closing
  BY <1>1 DEF TypeOK, ReadersCurrent, ShakenAcked, BeginClose
<1>2. CASE ~closing
  <2>1. ShakenAcked'
    BY <1>2 DEF BeginClose, CloseLink, ShakenAcked
  <2>2. \A t \in Links : net[t] = "closed" => net'[t] = "closed"
    BY <1>2 DEF BeginClose, CloseLink
  <2>3. \A t \in Links : main'[t] = "read" => main[t] = "read" /\ rd'[t] = rd[t]
    BY <1>2 DEF BeginClose, AfterClose, TypeOK
  <2>4. \A t \in Links : main'[t] = "put" => main[t] = "put" /\ held'[t] = held[t]
    BY <1>2 DEF BeginClose, AfterClose, TypeOK
  <2>5. \A t \in Links : t = s \/ main'[t] = main[t]
    BY <1>2 DEF BeginClose, AfterClose, TypeOK
  <2> QED BY <2>1, <2>2, <2>3, <2>4, <2>5 DEF ReadersCurrent
<1> QED BY <1>1, <1>2

(* and one that goes back to reading.                                       *)
LEMMA ReadHeaderInv ==
    ASSUME TypeOK, ReadersCurrent, ShakenAcked, NEW s \in Links, ReadHeader(s),
           UNCHANGED <<sock, acked>>
    PROVE  /\ ReadersCurrent' /\ ShakenAcked'
           /\ \A t \in Links : main'[t] = "put" => main[t] = "put" /\ held'[t] = held[t]
           /\ \A t \in Links : main'[t] \in Reading \cup Closing
                              => t = s \/ main[t] \in Reading \cup Closing
<1>1. CASE sock = NoLink \/ Busy(s)
  BY <1>1, BeginCloseInv DEF ReadHeader
<1>2. CASE ~(sock = NoLink \/ Busy(s))
  <2>1. /\ main' = [main EXCEPT ![s] = "read"] /\ rd' = [rd EXCEPT ![s] = sock]
        /\ held' = [held EXCEPT ![s] = NoMessage]
        /\ UNCHANGED <<closing, shaken, lost, net>>
    BY <1>2 DEF ReadHeader
  <2>2. sock \in Links
    BY <1>2 DEF TypeOK
  <2>3. ShakenAcked'
    BY <2>1 DEF ShakenAcked
  <2>4. ReadersCurrent'
    BY <2>1, <2>2 DEF TypeOK, ReadersCurrent
  <2> QED BY <2>1, <2>3, <2>4 DEF TypeOK
<1> QED BY <1>1, <1>2

(* A queue of messages from k stays one when a message of k is appended and *)
(* when its head is taken.                                                  *)
AllFrom(q, k) == \A i \in 1..Len(q) : q[i].from = k

(* A message of the same connection joins the queue.                        *)
LEMMA AppendFrom ==
    ASSUME NEW q \in Seq(Messages), NEW m \in Messages, NEW k, AllFrom(q, k), m.from = k
    PROVE  AllFrom(Append(q, m), k)
<1> SUFFICES ASSUME NEW i \in 1..Len(Append(q, m))
             PROVE  Append(q, m)[i].from = k
  BY DEF AllFrom
<1>1. CASE i \in 1..Len(q)
  BY <1>1 DEF AllFrom
<1>2. CASE i = Len(q) + 1
  BY <1>2
<1> QED BY <1>1, <1>2

(* A message is taken from it.                                              *)
LEMMA TailFrom ==
    ASSUME NEW q \in Seq(Messages), NEW k, AllFrom(q, k), q # <<>>
    PROVE  AllFrom(Tail(q), k) /\ Head(q).from = k
  BY DEF AllFrom

(* What a frame brings is of the connection it was read from, which is the  *)
(* present one.                                                             *)
LEMMA FrameInv ==
    ASSUME HandshakeInv, NEW s \in Links, NEW m \in Messages, Frame(s, m)
    PROVE  HandshakeInv'
<1> USE DEF manager
<1>1. TypeOK'
  BY FrameType DEF HandshakeInv
<1>2. m.from = sock /\ sock \in Links
  BY DEF HandshakeInv, ReadersCurrent, Frame, Messages
<1>3. handlers[s] > 0 /\ UNCHANGED <<handlers, older, ct, pooled, sock, acked>>
  BY DEF HandshakeInv, ReadersServed, Frame
<1>4. PooledAfterHandshake' /\ PhaseOK' /\ QueueServed'
  BY <1>3 DEF HandshakeInv, PooledAfterHandshake, PhaseOK, QueueServed
<1>5. CASE ~PayloadRead(s, m) /\ BeginClose(s) /\ UNCHANGED queue
  BY <1>1, <1>3, <1>4, <1>5, BeginCloseInv DEF HandshakeInv, NoStaleMessage, ReadersServed
<1>6. CASE queue' = Append(queue, m) /\ ReadHeader(s)
  <2>1. AllFrom(Append(queue, m), sock)
    BY <1>2, AppendFrom DEF HandshakeInv, NoStaleMessage, TypeOK, AllFrom
  <2> QED BY <1>1, <1>3, <1>4, <1>6, <2>1, ReadHeaderInv
          DEF HandshakeInv, NoStaleMessage, ReadersServed, AllFrom
<1>7. CASE main' = [main EXCEPT ![s] = "put"] /\ held' = [held EXCEPT ![s] = m]
           /\ UNCHANGED <<rd, closing, shaken, lost, net, queue>>
  <2>1. NoStaleMessage'
    BY <1>2, <1>3, <1>7 DEF HandshakeInv, NoStaleMessage, TypeOK
  <2>2. ReadersCurrent' /\ ReadersServed' /\ ShakenAcked'
    BY <1>2, <1>3, <1>7
    DEF HandshakeInv, ReadersCurrent, ReadersServed, ShakenAcked, TypeOK
  <2> QED BY <1>1, <1>4, <2>1, <2>2 DEF HandshakeInv
<1> QED BY <1>5, <1>6, <1>7 DEF Frame

(* The invariant is inductive where a dropped transport is closed and no    *)
(* handler raises,                                                          *)
LEMMA HandshakeStep == Benign /\ HandshakeInv /\ [Next]_vars => HandshakeInv'
<1> SUFFICES ASSUME Benign, HandshakeInv, [Next]_vars PROVE HandshakeInv'
  OBVIOUS
<1> USE DEF client, session, manager, remote
<1>0. TypeOK /\ TypeOK'
  BY TypeStep DEF HandshakeInv
<1>1. ASSUME NEW s \in Links, StartSession(s) PROVE HandshakeInv'
  <2>1. ReadersServed'
    BY <1>0, <1>1, ReadHeaderInv, HandlerAssumption
    DEF StartSession, HandshakeInv, ReadersServed, TypeOK
  <2>2. QueueServed'
    BY <1>0, <1>1, HandlerAssumption DEF StartSession, QueueServed, TypeOK
  <2>3. ReadersCurrent' /\ ShakenAcked'
    BY <1>0, <1>1, ReadHeaderInv DEF StartSession, HandshakeInv
  <2>4. NoStaleMessage'
    BY <1>0, <1>1, ReadHeaderInv DEF StartSession, HandshakeInv, NoStaleMessage
  <2>5. PooledAfterHandshake' /\ PhaseOK'
    BY <1>1 DEF StartSession, HandshakeInv, PooledAfterHandshake, PhaseOK
  <2> QED BY <1>0, <2>1, <2>2, <2>3, <2>4, <2>5 DEF HandshakeInv
<1>2. ASSUME NEW s \in Links, PutHeld(s) PROVE HandshakeInv'
  <2>1. held[s] \in Messages /\ held[s].from = sock /\ handlers[s] > 0
    BY <1>0, <1>2 DEF PutHeld, HandshakeInv, NoStaleMessage, ReadersServed, TypeOK
  <2>2. AllFrom(Append(queue, held[s]), sock)
    BY <2>1, AppendFrom DEF HandshakeInv, NoStaleMessage, TypeOK, AllFrom
  <2>3. ReadersCurrent' /\ ShakenAcked'
    BY <1>0, <1>2, ReadHeaderInv DEF PutHeld, HandshakeInv
  <2>4. NoStaleMessage'
    BY <1>0, <1>2, <2>2, ReadHeaderInv DEF PutHeld, HandshakeInv, NoStaleMessage, AllFrom
  <2>5. ReadersServed' /\ QueueServed'
    BY <1>0, <1>2, <2>1, ReadHeaderInv DEF PutHeld, HandshakeInv, ReadersServed, QueueServed
  <2>6. PooledAfterHandshake' /\ PhaseOK'
    BY <1>2 DEF PutHeld, HandshakeInv, PooledAfterHandshake, PhaseOK
  <2> QED BY <1>0, <2>3, <2>4, <2>5, <2>6 DEF HandshakeInv
<1>3. ASSUME NEW s \in Links, SetLost(s) PROVE HandshakeInv'
  <2>1. \A t \in Links : main'[t] = "read" \/ main'[t] = "put" => main[t] = main'[t]
    BY <1>0, <1>3 DEF SetLost, TypeOK
  <2>2. \A t \in Links : main'[t] \in Closing => main[t] \in Closing
    BY <1>0, <1>3 DEF SetLost, TypeOK
  <2>3. UNCHANGED <<sock, closing, shaken, queue, rd, held, handlers, older, ct, pooled,
                    net, acked>>
    BY <1>3 DEF SetLost
  <2>4. NoStaleMessage' /\ PooledAfterHandshake' /\ ShakenAcked' /\ PhaseOK' /\ QueueServed'
    BY <2>1, <2>3
    DEF HandshakeInv, NoStaleMessage, PooledAfterHandshake, ShakenAcked, PhaseOK, QueueServed
  <2>5. ReadersCurrent' /\ ReadersServed'
    BY <2>1, <2>2, <2>3 DEF HandshakeInv, ReadersCurrent, ReadersServed
  <2> QED BY <1>0, <2>4, <2>5 DEF HandshakeInv
<1>4. ASSUME NEW s \in Links, CancelOlder(s) PROVE HandshakeInv'
  <2>1. handlers'[s] > 0
    BY <1>0, <1>4 DEF CancelOlder, CancelTasks, HandshakeInv, ReadersServed, TypeOK
  <2>2. ReadersServed'
    BY <1>0, <1>4 DEF CancelOlder, CancelTasks, HandshakeInv, ReadersServed, TypeOK
  <2>3. NoStaleMessage' /\ ReadersCurrent'
    BY <1>4 DEF CancelOlder, CancelTasks, HandshakeInv, NoStaleMessage, ReadersCurrent
  <2>4. PooledAfterHandshake' /\ ShakenAcked' /\ PhaseOK'
    BY <1>4 DEF CancelOlder, HandshakeInv, PooledAfterHandshake, ShakenAcked, PhaseOK
  <2>5. QueueServed'
    BY <2>1 DEF QueueServed
  <2> QED BY <1>0, <2>2, <2>3, <2>4, <2>5 DEF HandshakeInv
<1>5. ASSUME NEW s \in Links, EndOfStream(s) \/ Misbehaves(s) PROVE HandshakeInv'
  <2>1. main[s] = "read" /\ BeginClose(s)
        /\ UNCHANGED <<sock, queue, handlers, older, ct, pooled, acked>>
    BY <1>5 DEF EndOfStream, Misbehaves
  <2>2. ReadersCurrent' /\ ShakenAcked'
    BY <1>0, <2>1, BeginCloseInv DEF HandshakeInv
  <2>3. NoStaleMessage' /\ ReadersServed'
    BY <1>0, <2>1, BeginCloseInv DEF HandshakeInv, NoStaleMessage, ReadersServed
  <2>4. PooledAfterHandshake' /\ PhaseOK' /\ QueueServed'
    BY <2>1 DEF HandshakeInv, PooledAfterHandshake, PhaseOK, QueueServed
  <2> QED BY <1>0, <2>2, <2>3, <2>4 DEF HandshakeInv
<1>6. ASSUME NEW s \in Links, KeepaliveStarts(s) \/ KeepaliveFails(s) PROVE HandshakeInv'
  BY <1>0, <1>6 DEF KeepaliveStarts, KeepaliveFails, HandshakeInv, NoStaleMessage,
     PooledAfterHandshake, ReadersCurrent, ReadersServed, QueueServed, ShakenAcked, PhaseOK
<1>7. ASSUME NEW s \in Links, Handle(s) PROVE HandshakeInv'
  <2> DEFINE m == Head(queue)
  <2>1. AllFrom(Tail(queue), sock) /\ m.from = sock
    BY <1>0, <1>7, TailFrom DEF Handle, HandshakeInv, NoStaleMessage, AllFrom, TypeOK
  <2>2. m \in Messages
    BY <1>0, <1>7 DEF Handle, TypeOK
  <2>3. sock # NoLink /\ m.kind # "bad"
    BY <2>1, <2>2, LinksAssumption DEF Messages, Kinds, Benign
  <2>4. handlers' = handlers
    BY <1>0, <1>7, <2>3 DEF Handle, Raises, TypeOK
  <2>5. QueueServed'
    BY <1>7, <2>4 DEF Handle, QueueServed
  <2>6. ShakenAcked' /\ PooledAfterHandshake'
    BY <1>7, <2>1 DEF Handle, HandshakeInv, ShakenAcked, PooledAfterHandshake
  <2> QED BY <1>0, <1>7, <2>1, <2>4, <2>5, <2>6
          DEF Handle, HandshakeInv, NoStaleMessage, AllFrom, ReadersCurrent, ReadersServed,
              PhaseOK
<1>8. ASSUME NEW k \in Links, Dial(k) PROVE HandshakeInv'
  <2>1. sock = NoLink /\ ~pooled /\ sock \notin acked
    BY <1>0, <1>8, LinksAssumption DEF Dial, HandshakeInv, PhaseOK, TypeOK
  <2>2. queue = <<>> /\ \A s \in Links : main[s] # "put"
    <3>1. Len(queue) = 0
      <4> SUFFICES ASSUME Len(queue) # 0 PROVE FALSE
        OBVIOUS
      <4>1. 1 \in 1..Len(queue) /\ queue[1] \in Messages
        BY <1>0 DEF TypeOK
      <4> QED BY <2>1, <4>1, LinksAssumption DEF HandshakeInv, NoStaleMessage, Messages
    <3>2. \A s \in Links : main[s] # "put"
      BY <1>0, <2>1, LinksAssumption DEF HandshakeInv, NoStaleMessage, Messages, TypeOK
    <3> QED BY <1>0, <3>1, <3>2 DEF TypeOK
  <2>3. main[k] = "done" /\ \A s \in Links : main[s] = "read" => rd[s] # k
    BY <1>8 DEF Dial, InUse, Live, Reading
  <2>4. ReadersCurrent'
    BY <1>0, <1>8, <2>1, <2>3, LinksAssumption DEF Dial, HandshakeInv, ReadersCurrent, TypeOK
  <2>5. ReadersServed'
    BY <1>0, <1>8, <2>3 DEF Dial, InUse, HandshakeInv, ReadersServed, TypeOK
  <2>6. ShakenAcked' /\ NoStaleMessage' /\ QueueServed'
    BY <1>0, <1>8, <2>1, <2>2
    DEF Dial, HandshakeInv, ShakenAcked, NoStaleMessage, QueueServed, TypeOK
  <2> QED BY <1>0, <1>8, <2>1, <2>4, <2>5, <2>6
          DEF Dial, HandshakeInv, PooledAfterHandshake, PhaseOK
<1>9. CASE HandshakeFailed \/ HandshakeDone \/ HandshakeDropped
           \/ ConnectionLost \/ DialRefused
  BY <1>0, <1>9
  DEF HandshakeFailed, HandshakeDone, HandshakeDropped, ConnectionLost, DialRefused,
      HandshakeInv, NoStaleMessage, PooledAfterHandshake, ReadersCurrent, ReadersServed,
      QueueServed, ShakenAcked, PhaseOK
<1>10. CASE Wake
  <2>1. queue = <<>>
    BY <1>10, <1>0 DEF Wake, Settled, Drained, HandshakeInv, QueueServed, TypeOK
  <2>2. \A s \in Links : main[s] # "put"
    BY <1>10, <2>1, QueueAssumption DEF Wake, Settled
  <2>3. ReadersCurrent'
    BY <1>0, <1>10 DEF Wake, Benign, HandshakeInv, ReadersCurrent, TypeOK
  <2>4. NoStaleMessage' /\ QueueServed'
    BY <1>10, <2>1, <2>2 DEF Wake, NoStaleMessage, QueueServed
  <2> QED BY <1>0, <1>10, <2>3, <2>4
          DEF Wake, HandshakeInv, PooledAfterHandshake, ReadersServed, ShakenAcked, PhaseOK
<1>11. CASE ManagerCloses
  BY <1>0, <1>11, CloseLinkInv
  DEF ManagerCloses, HandshakeInv, NoStaleMessage, PooledAfterHandshake, ReadersCurrent,
      ReadersServed, QueueServed, ShakenAcked, PhaseOK
<1>12. CASE ManagerSetsLost
  BY <1>0, <1>12 DEF ManagerSetsLost, HandshakeInv, NoStaleMessage, PooledAfterHandshake,
     ReadersCurrent, ReadersServed, QueueServed, ShakenAcked, PhaseOK
<1>13. CASE ManagerCancels
  <2>1. queue = <<>>
    BY <1>0, <1>13 DEF ManagerCancels, Drained, HandshakeInv, QueueServed, TypeOK
  <2>2. \A s \in Links : main'[s] = "done"
    BY <1>13 DEF ManagerCancels, CancelTasks
  <2>3. UNCHANGED <<sock, closing, shaken, queue, older, ct, pooled, net, acked>>
    BY <1>13 DEF ManagerCancels
  <2>4. NoStaleMessage' /\ ReadersCurrent' /\ ReadersServed' /\ QueueServed'
    BY <2>1, <2>2, <2>3
    DEF HandshakeInv, NoStaleMessage, ReadersCurrent, ReadersServed, QueueServed
  <2> QED BY <1>0, <2>3, <2>4
          DEF HandshakeInv, PooledAfterHandshake, ShakenAcked, PhaseOK
<1>14. ASSUME NEW k \in Links, RemoteEnds(k) PROVE HandshakeInv'
  <2>1. \A j \in Links : net[j] = "closed" => net'[j] = "closed"
    BY <1>0, <1>14 DEF RemoteEnds, TypeOK
  <2> QED BY <1>0, <1>14, <2>1
          DEF RemoteEnds, HandshakeInv, NoStaleMessage, PooledAfterHandshake,
              ReadersCurrent, ReadersServed, QueueServed, ShakenAcked, PhaseOK
<1>15. CASE UNCHANGED vars
  BY <1>0, <1>15 DEF vars, HandshakeInv, NoStaleMessage, PooledAfterHandshake,
     ReadersCurrent, ReadersServed, QueueServed, ShakenAcked, PhaseOK
<1> QED BY <1>1, <1>2, <1>3, <1>4, <1>5, <1>6, <1>7, <1>8, <1>9, <1>10, <1>11, <1>12,
           <1>13, <1>14, <1>15, FrameInv
        DEF Next, ClientStep, SessionStep, ConnectStep, ManagerStep, PeerStep

(* holds at first,                                                          *)
LEMMA HandshakeInit == Init => HandshakeInv
<1> SUFFICES ASSUME Init PROVE HandshakeInv
  OBVIOUS
<1>1. TypeOK
  BY InitType
<1>2. Len(queue) = 0
  BY DEF Init
<1> QED BY <1>1, <1>2 DEF Init, HandshakeInv, NoStaleMessage, PooledAfterHandshake,
        ReadersCurrent, ReadersServed, QueueServed, ShakenAcked, PhaseOK

(* and so for ever.                                                         *)
LEMMA HandshakeInvariant == ASSUME Benign PROVE Spec => []HandshakeInv
  BY HandshakeInit, HandshakeStep, PTL DEF Spec

(* A client is offered to callers only on a connection that has itself been *)
(* shaken hands on, in spite of the queue, the events and the handlers that *)
(* its sessions share.                                                      *)
THEOREM PooledHandshake == ASSUME Benign PROVE Spec => []PooledAfterHandshake
<1>1. HandshakeInv => PooledAfterHandshake
  BY DEF HandshakeInv
<1> QED BY <1>1, HandshakeInvariant, PTL

(* No handler ever takes a message of an earlier connection.                *)
THEOREM MessagesCurrent == ASSUME Benign PROVE Spec => []NoStaleMessage
<1>1. HandshakeInv => NoStaleMessage
  BY DEF HandshakeInv
<1> QED BY <1>1, HandshakeInvariant, PTL

-----------------------------------------------------------------------------
(* Every step of the client is one of PeerLink or leaves its state alone.   *)
LEMMA LinkStep == HandshakeInv /\ [Next]_vars => [Link!Next]_Link!vars
<1> SUFFICES ASSUME HandshakeInv, [Next]_vars, ~UNCHANGED <<sock, pooled, acked>>
             PROVE  Link!Next
  BY DEF Link!vars
<1> USE DEF client, session, manager, remote
<1>1. ASSUME NEW s \in Links, ClientStep(s) \/ KeepaliveFails(s) PROVE Link!Next
  <2>1. Handle(s) /\ acked' # acked
    BY <1>1 DEF ClientStep, SessionStep, StartSession, PutHeld, SetLost, CancelOlder,
       EndOfStream, KeepaliveStarts, KeepaliveFails, Handle
  <2>2. Head(queue).from = sock /\ sock # NoLink
    <3>1. queue # <<>> /\ queue \in Seq(Messages) /\ AllFrom(queue, sock)
      BY <2>1 DEF Handle, HandshakeInv, TypeOK, NoStaleMessage, AllFrom
    <3>2. Head(queue).from = sock
      BY <3>1, TailFrom
    <3>3. Head(queue).from \in Links
      <4>1. Head(queue) \in Messages
        BY <3>1
      <4> QED BY <4>1 DEF Messages
    <3> QED BY <3>2, <3>3, LinksAssumption
  <2>3. Link!Meet
    BY <2>1, <2>2 DEF Handle, Link!Meet
  <2> QED BY <2>3 DEF Link!Next
<1>2. CASE ConnectStep
  <2>1. ASSUME NEW k \in Links, Dial(k) PROVE Link!Next
    BY <2>1 DEF Dial, HandshakeInv, PhaseOK, Link!Next, Link!Open
  <2>2. CASE HandshakeDone
    BY <2>2 DEF HandshakeDone, HandshakeInv, ShakenAcked, PhaseOK, Link!Next, Link!Join
  <2>3. CASE ConnectionLost
    BY <2>3 DEF ConnectionLost, HandshakeInv, PhaseOK, Link!Next, Link!Leave
  <2>4. CASE Wake
    BY <2>4 DEF Wake, HandshakeInv, PhaseOK, Link!Next, Link!Reset
  <2>5. CASE HandshakeFailed \/ HandshakeDropped \/ DialRefused
    BY <2>5 DEF HandshakeFailed, HandshakeDropped, DialRefused
  <2> QED BY <1>2, <2>1, <2>2, <2>3, <2>4, <2>5 DEF ConnectStep
<1>3. CASE ManagerCloses \/ ManagerStep
  BY <1>3 DEF ManagerCloses, ManagerStep, ManagerSetsLost, ManagerCancels
<1>4. CASE PeerStep
  BY <1>4 DEF PeerStep, Frame, Misbehaves, RemoteEnds
<1> QED BY <1>1, <1>2, <1>3, <1>4 DEF Next, vars

(* The client implements PeerLink: it joins the pool on a connection that   *)
(* has met its peer, and the connection of a member is never replaced.      *)
THEOREM ClientImplementsPeerLink == ASSUME Benign PROVE Spec => ImplementsPeerLink
<1>1. Init => Link!Init
  BY DEF Init, Link!Init
<1> QED BY <1>1, LinkStep, HandshakeInvariant, PTL
        DEF Spec, ImplementsPeerLink, Link!Spec
-----------------------------------------------------------------------------
(* Which session reads what.  A session only ever reads the connection it   *)
(* was started on; the one of the present connection is reading it, or has  *)
(* still to start, as long as nobody closes the client; and nothing of that *)
(* connection has been handled before its session starts.                   *)
StartFresh ==
    \A s \in Links : main[s] = "start" =>
        /\ s = sock /\ s \notin acked /\ queue = <<>>
        /\ \A t \in Links : main[t] # "put"
OwnReader ==
    \A s \in Links : /\ main[s] \in Reading => rd[s] = s
                     /\ main[s] = "put" => s = sock
                     /\ main[s] # "put" => held[s] = NoMessage
Attended == ~closing /\ sock # NoLink => main[sock] \in {"start"} \cup Reading
OthersDown == \A k \in Links : k # sock => net[k] = "closed"

(* A close() that is not at an end keeps the client marked; and the lost    *)
(* event is not set of a client in the pool that nobody closes.             *)
Closer      == (\E s \in Links : main[s] \in Closing) \/ mgr \in Closing
CloseMarked == /\ Closer => closing
               /\ ct = "up" /\ lost => closing

ReaderInv == HandshakeInv /\ StartFresh /\ OwnReader /\ Attended /\ OthersDown /\ CloseMarked

(* What the two steps by which a reader goes on or ends write.              *)
LEMMA BeginCloseWrites ==
    ASSUME TypeOK, NEW s \in Links, BeginClose(s)
    PROVE  /\ \A t \in Links \ {s} : /\ main'[t] = main[t] /\ rd'[t] = rd[t]
                                     /\ held'[t] = held[t]
           /\ held'[s] = NoMessage
           /\ closing'
           /\ closing => main'[s] = "done" /\ UNCHANGED <<lost, net>>
           /\ ~closing => main'[s] \in Closing
           /\ \A k \in Links : net'[k] = net[k] \/ net'[k] = "closed"
  BY DEF TypeOK, BeginClose, CloseLink, AfterClose

(* What a session writes that goes on reading.                              *)
LEMMA ReadHeaderWrites ==
    ASSUME TypeOK, NEW s \in Links, ReadHeader(s), ~BeginClose(s)
    PROVE  /\ \A t \in Links \ {s} : /\ main'[t] = main[t] /\ rd'[t] = rd[t]
                                     /\ held'[t] = held[t]
           /\ sock \in Links
           /\ main'[s] = "read" /\ rd'[s] = sock /\ held'[s] = NoMessage
           /\ UNCHANGED <<closing, lost, net>>
  BY DEF TypeOK, ReadHeader

(* A session that reads the header of its own connection, or is closed      *)
(* instead, keeps the parts of ReaderInv about readers.                     *)
Parts == OwnReader /\ Attended /\ OthersDown /\ CloseMarked

(* A session that begins to close: the rest of ReaderInv,                   *)
LEMMA BeginCloseParts ==
    ASSUME ReaderInv, NEW s \in Links, BeginClose(s), UNCHANGED <<sock, ct, mgr>>
    PROVE  Parts'
<1>0. TypeOK
  BY DEF ReaderInv, HandshakeInv
<1>1. closing' /\ main'[s] \in {"done"} \cup Closing
  BY <1>0, BeginCloseWrites
<1>2. OwnReader'
  BY <1>0, <1>1, BeginCloseWrites DEF ReaderInv, OwnReader
<1>3. Attended' /\ CloseMarked'
  BY <1>1 DEF Attended, CloseMarked
<1>4. OthersDown'
  BY <1>0, BeginCloseWrites DEF ReaderInv, OthersDown
<1> QED BY <1>2, <1>3, <1>4 DEF Parts

(* and one that goes back to reading.                                       *)
LEMMA ReadHeaderParts ==
    ASSUME ReaderInv, NEW s \in Links, ReadHeader(s), s = sock, UNCHANGED <<sock, ct, mgr>>
    PROVE  Parts'
<1>1. CASE BeginClose(s)
  BY <1>1, BeginCloseParts
<1>2. CASE ~BeginClose(s)
  <2>0. TypeOK
    BY DEF ReaderInv, HandshakeInv
  <2>1. OwnReader'
    BY <1>2, <2>0, ReadHeaderWrites DEF ReaderInv, OwnReader
  <2>2. Attended' /\ OthersDown'
    BY <1>2, <2>0, ReadHeaderWrites DEF ReaderInv, Attended, OthersDown
  <2>3. Closer' => Closer
    BY <1>2, <2>0, ReadHeaderWrites DEF Closer
  <2>4. CloseMarked'
    BY <1>2, <2>0, <2>3, ReadHeaderWrites DEF ReaderInv, CloseMarked
  <2> QED BY <2>1, <2>2, <2>4 DEF Parts
<1> QED BY <1>1, <1>2

(* ReaderInv is inductive,                                                  *)
LEMMA ReaderStep == Benign /\ ReaderInv /\ [Next]_vars => ReaderInv'
<1> SUFFICES ASSUME Benign, ReaderInv, [Next]_vars PROVE ReaderInv'
  OBVIOUS
<1> USE DEF client, session, manager, remote
<1>0. TypeOK /\ HandshakeInv /\ HandshakeInv'
  BY HandshakeStep DEF ReaderInv, HandshakeInv
<1>s. SUFFICES StartFresh' /\ Parts'
  BY <1>0 DEF ReaderInv, Parts
<1>1. ASSUME NEW s \in Links, StartSession(s) PROVE StartFresh' /\ Parts'
  <2>1. s = sock /\ UNCHANGED <<sock, ct, mgr, acked, queue>>
    BY <1>1 DEF StartSession, ReaderInv, StartFresh
  <2>2. Parts'
    BY <1>1, <2>1, ReadHeaderParts DEF StartSession
  <2>3. main'[s] # "start" /\ \A t \in Links \ {s} : main'[t] = main[t]
    BY <1>0, <1>1, BeginCloseWrites, ReadHeaderWrites DEF StartSession
  <2>4. StartFresh'
    BY <2>1, <2>3 DEF ReaderInv, StartFresh
  <2> QED BY <2>2, <2>4
<1>2. ASSUME NEW s \in Links, PutHeld(s) PROVE StartFresh' /\ Parts'
  <2>1. s = sock /\ UNCHANGED <<sock, ct, mgr, acked>>
    BY <1>2 DEF PutHeld, ReaderInv, OwnReader
  <2>2. Parts'
    BY <1>2, <2>1, ReadHeaderParts DEF PutHeld
  <2>3. main'[s] # "start" /\ \A t \in Links \ {s} : main'[t] = main[t]
    BY <1>0, <1>2, BeginCloseWrites, ReadHeaderWrites DEF PutHeld
  <2>4. StartFresh'
    BY <1>2, <2>1, <2>3 DEF ReaderInv, StartFresh, PutHeld
  <2> QED BY <2>2, <2>4
<1>3. ASSUME NEW s \in Links, NEW m \in Messages, Frame(s, m) PROVE StartFresh' /\ Parts'
  <2>1. s = sock /\ main[s] = "read" /\ rd[s] = s /\ UNCHANGED <<sock, ct, mgr, acked>>
    BY <1>3 DEF Frame, ReaderInv, OwnReader, OthersDown
  <2>2. CASE BeginClose(s)
    <3>1. StartFresh'
      BY <1>0, <2>1, <2>2, BeginCloseWrites DEF ReaderInv, StartFresh
    <3> QED BY <2>1, <2>2, <3>1, BeginCloseParts
  <2>3. CASE ReadHeader(s)
    <3>1. main'[s] # "start" /\ \A t \in Links \ {s} : main'[t] = main[t]
      BY <1>0, <2>3, BeginCloseWrites, ReadHeaderWrites
    <3>2. StartFresh'
      BY <2>1, <3>1 DEF ReaderInv, StartFresh
    <3> QED BY <2>1, <2>3, <3>2, ReadHeaderParts
  <2>4. CASE main' = [main EXCEPT ![s] = "put"] /\ held' = [held EXCEPT ![s] = m]
             /\ UNCHANGED <<rd, closing, shaken, lost, net, queue>>
    <3>1. main'[s] = "put" /\ \A t \in Links \ {s} : main'[t] = main[t] /\ held'[t] = held[t]
      BY <1>0, <2>4 DEF TypeOK
    <3>2. StartFresh'
      BY <2>1, <3>1 DEF ReaderInv, StartFresh
    <3>3. OwnReader' /\ Attended' /\ OthersDown'
      BY <2>1, <2>4, <3>1 DEF ReaderInv, OwnReader, Attended, OthersDown
    <3>4. CloseMarked'
      BY <2>1, <2>4, <3>1 DEF ReaderInv, CloseMarked, Closer
    <3> QED BY <3>2, <3>3, <3>4 DEF Parts
  <2> QED BY <1>3, <2>2, <2>3, <2>4 DEF Frame
<1>4. ASSUME NEW s \in Links, EndOfStream(s) \/ Misbehaves(s) PROVE StartFresh' /\ Parts'
  <2>1. /\ main[s] = "read" /\ BeginClose(s)
        /\ UNCHANGED <<sock, queue, ct, mgr, acked>>
    BY <1>4 DEF EndOfStream, Misbehaves
  <2>2. StartFresh'
    BY <1>0, <2>1, BeginCloseWrites DEF ReaderInv, StartFresh
  <2> QED BY <2>1, <2>2, BeginCloseParts
<1>5. ASSUME NEW s \in Links, SetLost(s) PROVE StartFresh' /\ Parts'
  <2>1. /\ main[s] = "flush" /\ main'[s] = "linger" /\ closing
        /\ \A t \in Links \ {s} : main'[t] = main[t]
        /\ UNCHANGED <<sock, closing, queue, rd, held, ct, mgr, net, acked>>
    BY <1>0, <1>5 DEF SetLost, TypeOK, ReaderInv, CloseMarked, Closer
  <2>2. StartFresh' /\ OwnReader' /\ Attended' /\ OthersDown'
    BY <2>1 DEF ReaderInv, StartFresh, OwnReader, Attended, OthersDown
  <2>3. CloseMarked'
    BY <2>1 DEF CloseMarked
  <2> QED BY <2>2, <2>3 DEF Parts
<1>6. ASSUME NEW s \in Links, CancelOlder(s) PROVE StartFresh' /\ Parts'
  <2>1. /\ closing
        /\ \A t \in Links : \/ main'[t] = "done" /\ held'[t] = NoMessage
                            \/ main'[t] = main[t] /\ rd'[t] = rd[t] /\ held'[t] = held[t]
        /\ UNCHANGED <<sock, closing, lost, queue, ct, mgr, net, acked>>
    BY <1>6 DEF CancelOlder, CancelTasks, ReaderInv, CloseMarked, Closer
  <2>2. StartFresh' /\ OwnReader' /\ Attended' /\ OthersDown'
    BY <2>1 DEF ReaderInv, StartFresh, OwnReader, Attended, OthersDown
  <2>3. CloseMarked'
    BY <2>1 DEF CloseMarked
  <2> QED BY <2>2, <2>3 DEF Parts
<1>7. ASSUME NEW s \in Links, KeepaliveStarts(s) \/ KeepaliveFails(s)
      PROVE  StartFresh' /\ Parts'
  BY <1>7 DEF KeepaliveStarts, KeepaliveFails, ReaderInv, Parts, StartFresh, OwnReader,
     Attended, OthersDown, CloseMarked, Closer
<1>8. ASSUME NEW s \in Links, Handle(s) PROVE StartFresh' /\ Parts'
  <2>1. queue # <<>> /\ UNCHANGED <<sock, closing, lost, main, rd, held, ct, mgr, net>>
    BY <1>8 DEF Handle
  <2>2. StartFresh'
    BY <2>1 DEF ReaderInv, StartFresh
  <2> QED BY <2>1, <2>2 DEF ReaderInv, Parts, OwnReader, Attended, OthersDown, CloseMarked,
          Closer
<1>9. ASSUME NEW k \in Links, Dial(k) PROVE StartFresh' /\ Parts'
  <2>1. sock = NoLink /\ queue = <<>> /\ \A s \in Links : main[s] # "put"
    <3>1. sock = NoLink
      BY <1>9 DEF Dial, ReaderInv, HandshakeInv, PhaseOK
    <3>2. \A s \in Links : main[s] # "put"
      BY <3>1, LinksAssumption DEF ReaderInv, OwnReader
    <3>3. Len(queue) = 0
      <4> SUFFICES ASSUME Len(queue) # 0 PROVE FALSE
        OBVIOUS
      <4>1. 1 \in 1..Len(queue) /\ queue[1] \in Messages
        BY <1>0 DEF TypeOK
      <4> QED BY <1>0, <3>1, <4>1, LinksAssumption DEF HandshakeInv, NoStaleMessage, Messages
    <3> QED BY <1>0, <3>1, <3>2, <3>3 DEF TypeOK
  <2>2. /\ main[k] = "done" /\ main'[k] = "start" /\ sock' = k /\ ct' = "shaking"
        /\ \A t \in Links \ {k} : main'[t] = main[t] /\ net'[t] = net[t]
        /\ acked' = acked \ {k}
        /\ UNCHANGED <<closing, lost, queue, rd, held, mgr>>
    BY <1>0, <1>9 DEF Dial, InUse, Live, TypeOK
  <2>3. StartFresh'
    BY <2>1, <2>2, LinksAssumption DEF ReaderInv, StartFresh
  <2>4. OwnReader'
    BY <2>1, <2>2 DEF ReaderInv, OwnReader
  <2>5. Attended' /\ OthersDown'
    BY <2>1, <2>2, LinksAssumption DEF ReaderInv, Attended, OthersDown
  <2>6. CloseMarked'
    BY <2>2 DEF ReaderInv, CloseMarked, Closer
  <2> QED BY <2>3, <2>4, <2>5, <2>6 DEF Parts
<1>10. CASE HandshakeFailed \/ HandshakeDone \/ HandshakeDropped
            \/ ConnectionLost \/ DialRefused
  BY <1>10 DEF HandshakeFailed, HandshakeDone, HandshakeDropped, ConnectionLost, DialRefused,
     ReaderInv, Parts, StartFresh, OwnReader, Attended, OthersDown, CloseMarked, Closer
<1>11. CASE Wake
  <2>1. queue = <<>>
    BY <1>11, <1>0 DEF Wake, Settled, Drained, HandshakeInv, QueueServed, TypeOK
  <2>2. \A s \in Links : main[s] \notin {"start", "put"} \cup Closing
    BY <1>11, <2>1, QueueAssumption DEF Wake, Settled
  <2>3. /\ sock' = NoLink /\ ct' = "dial" /\ mgr \notin Closing
        /\ \A k \in Links : net'[k] = IF k = sock THEN "closed" ELSE net[k]
        /\ UNCHANGED <<main, rd, held, mgr>>
    BY <1>11 DEF Wake, Settled, Benign
  <2>4. OthersDown'
    BY <2>3 DEF ReaderInv, OthersDown
  <2> QED BY <2>2, <2>3, <2>4 DEF ReaderInv, Parts, StartFresh, OwnReader, Attended,
          CloseMarked, Closer
<1>12. CASE ManagerCloses
  <2>1. CASE CloseLink /\ UNCHANGED <<sock, queue, session, ct, acked>>
    <3>1. OthersDown' /\ closing'
      BY <2>1 DEF CloseLink, ReaderInv, OthersDown
    <3> QED BY <2>1, <3>1 DEF ReaderInv, Parts, StartFresh, OwnReader, Attended, CloseMarked
  <2>2. CASE /\ mgr' = "closed"
             /\ UNCHANGED <<closing, lost, net, sock, queue, session, ct, acked>>
    BY <2>2 DEF ReaderInv, Parts, StartFresh, OwnReader, Attended, OthersDown, CloseMarked,
       Closer
  <2> QED BY <1>12, <2>1, <2>2 DEF ManagerCloses
<1>13. CASE ManagerSetsLost
  <2>1. closing
    BY <1>13 DEF ManagerSetsLost, ReaderInv, CloseMarked, Closer
  <2> QED BY <1>13, <2>1 DEF ManagerSetsLost, ReaderInv, Parts, StartFresh, OwnReader,
          Attended, OthersDown, CloseMarked
<1>14. CASE ManagerCancels
  <2>1. closing
    BY <1>14 DEF ManagerCancels, ReaderInv, CloseMarked, Closer
  <2>2. /\ \A s \in Links : main'[s] = "done" /\ held'[s] = NoMessage
        /\ UNCHANGED <<sock, closing, lost, queue, ct, net, acked>>
    BY <1>14 DEF ManagerCancels, CancelTasks
  <2> QED BY <2>1, <2>2 DEF ReaderInv, Parts, StartFresh, OwnReader, Attended, OthersDown,
          CloseMarked
<1>15. ASSUME NEW k \in Links, RemoteEnds(k) PROVE StartFresh' /\ Parts'
  <2>1. OthersDown'
    BY <1>0, <1>15 DEF RemoteEnds, ReaderInv, OthersDown, TypeOK
  <2> QED BY <1>15, <2>1 DEF RemoteEnds, ReaderInv, Parts, StartFresh, OwnReader, Attended,
          CloseMarked, Closer
<1>16. CASE UNCHANGED vars
  BY <1>16 DEF vars, ReaderInv, Parts, StartFresh, OwnReader, Attended, OthersDown,
     CloseMarked, Closer
<1> QED BY <1>1, <1>2, <1>3, <1>4, <1>5, <1>6, <1>7, <1>8, <1>9, <1>10, <1>11, <1>12,
           <1>13, <1>14, <1>15, <1>16
        DEF Next, ClientStep, SessionStep, ConnectStep, ManagerStep, PeerStep

(* and holds for ever.                                                      *)
LEMMA ReaderInvariant == ASSUME Benign PROVE Spec => []ReaderInv
<1>1. Init => ReaderInv
  BY HandshakeInit DEF Init, ReaderInv, StartFresh, OwnReader, Attended, OthersDown,
     CloseMarked, Closer
<1> QED BY <1>1, ReaderStep, PTL DEF Spec

(* A client in the pool that nobody is closing is read from.                *)
THEOREM PooledRead == ASSUME Benign PROVE Spec => []PooledIsRead
<1>1. ReaderInv => PooledIsRead
  <2> SUFFICES ASSUME ReaderInv, pooled, ~closing
               PROVE  main[sock] \in Reading /\ rd[sock] = sock /\ sock \in Links
    BY DEF PooledIsRead
  <2>1. sock \in acked /\ sock \in Links
    BY LinksAssumption DEF ReaderInv, HandshakeInv, PooledAfterHandshake, TypeOK
  <2>2. main[sock] # "start"
    BY <2>1 DEF ReaderInv, StartFresh
  <2> QED BY <2>1, <2>2, LinksAssumption DEF ReaderInv, Attended, OwnReader
<1> QED BY <1>1, ReaderInvariant, PTL

(* connect_task drops a client from the pool only because of a close() of   *)
(* the present connection, never because of an event that was left over.    *)
THEOREM LeavesClosed == ASSUME Benign PROVE Spec => LeavesWhenClosed
<1>1. ReaderInv /\ [Next]_vars => [ct = "up" /\ ct' = "sleep" => closing]_vars
  <2> SUFFICES ASSUME ReaderInv, [Next]_vars, ct = "up", ct' = "sleep" PROVE closing
    OBVIOUS
  <2>1. ConnectionLost
    BY DEF Next, vars, client, session, manager, remote, ClientStep, SessionStep, StartSession,
       PutHeld, SetLost, CancelOlder, EndOfStream, KeepaliveStarts, Handle, KeepaliveFails,
       ConnectStep, HandshakeFailed, HandshakeDone, HandshakeDropped, Wake, DialRefused, Dial,
       ManagerCloses, ManagerStep, ManagerSetsLost, ManagerCancels, PeerStep, Frame,
       Misbehaves, RemoteEnds
  <2> QED BY <2>1 DEF ConnectionLost, ReaderInv, CloseMarked
<1> QED BY <1>1, ReaderInvariant, PTL DEF Spec, LeavesWhenClosed

-----------------------------------------------------------------------------
(* How many sessions before the present one have a task left: three at      *)
(* most; two if the last of them has ended its reader and nobody has closed *)
(* the client since; and one if somebody has, for close() cancels all that  *)
(* are older than the session that calls it.                                *)
Old(s) == Live(s) /\ s # sock
AtMostThree == \E a, b, c \in Links : \A s \in Links : Old(s) => s \in {a, b, c}
AtMostTwo   == \E a, b \in Links : \A s \in Links : Old(s) => s \in {a, b}
AtMostOne   == \E a \in Links : \A s \in Links : Old(s) => s = a
OldGoing    == \E s \in Links : main[s] # "done" /\ s # sock
OlderKnown  ==
    \A c, s \in Links : main[c] # "done" /\ Live(s) => s \in older[c] \cup {c, sock}
CountInv ==
    /\ OlderKnown /\ AtMostThree
    /\ ~closing /\ ~OldGoing => AtMostTwo
    /\ closing /\ ~Closer => AtMostOne

(* A step that starts no task, on the same connection.                      *)
Ends ==
    /\ sock' = sock
    /\ \A s \in Links : /\ Live(s)' => Live(s)
                        /\ main'[s] # "done" => main[s] # "done" /\ older'[s] = older[s]

(* Such a step can only lower the numbers of sessions that are left.        *)
LEMMA EndsCount ==
    ASSUME CountInv, Ends
    PROVE  /\ OlderKnown' /\ AtMostThree'
           /\ AtMostTwo => AtMostTwo'
           /\ AtMostOne => AtMostOne'
<1>1. \A s \in Links : Old(s)' => Old(s)
  BY DEF Ends, Old, Live
<1>2. OlderKnown'
  BY DEF CountInv, OlderKnown, Ends, Live
<1> QED BY <1>1, <1>2 DEF CountInv, AtMostThree, AtMostTwo, AtMostOne

(* The reader s goes on with the connection or is closed.                   *)
LEMMA ReaderCount ==
    ASSUME ReaderInv, CountInv, NEW s \in Links, BeginClose(s) \/ ReadHeader(s),
           main[s] \in {"start"} \cup Reading, Ends, UNCHANGED mgr
    PROVE  CountInv'
<1>0. TypeOK
  BY DEF ReaderInv, HandshakeInv
<1>1. OlderKnown' /\ AtMostThree' /\ (AtMostTwo => AtMostTwo') /\ (AtMostOne => AtMostOne')
  BY EndsCount
<1>2. CASE BeginClose(s)
  <2>1. closing'
    BY <1>0, <1>2, BeginCloseWrites
  <2>2. ASSUME ~Closer' PROVE AtMostOne
    <3>1. closing
      BY <1>0, <1>2, <2>2, BeginCloseWrites DEF Closer
    <3>2. \A t \in Links : main[t] \in Closing => main'[t] \in Closing
      BY <1>0, <1>2, BeginCloseWrites
    <3>3. ~Closer
      BY <2>2, <3>2 DEF Closer
    <3> QED BY <3>1, <3>3 DEF CountInv
  <2> QED BY <1>1, <2>1, <2>2 DEF CountInv
<1>3. CASE ~BeginClose(s)
  <2>1. /\ UNCHANGED closing /\ main'[s] = "read"
        /\ \A t \in Links \ {s} : main'[t] = main[t]
    BY <1>0, <1>3, ReadHeaderWrites
  <2>2. Closer => Closer'
    BY <2>1 DEF Closer
  <2>3. OldGoing => OldGoing'
    BY <2>1 DEF OldGoing, Ends
  <2> QED BY <1>1, <2>1, <2>2, <2>3 DEF CountInv
<1> QED BY <1>2, <1>3

(* Other steps change neither who is closing nor whose reader is running.   *)
LEMMA SameCount ==
    ASSUME CountInv, Ends, UNCHANGED closing, Closer => Closer', OldGoing => OldGoing'
    PROVE  CountInv'
  BY EndsCount DEF CountInv

(* CountInv is inductive: Wake, the one step that makes a session old,      *)
(* comes after the close() that has cancelled the older ones,               *)
LEMMA CountStep == Benign /\ ReaderInv /\ CountInv /\ [Next]_vars => CountInv'
<1> SUFFICES ASSUME Benign, ReaderInv, CountInv, [Next]_vars PROVE CountInv'
  OBVIOUS
<1> USE DEF client, session, manager, remote
<1>0. TypeOK /\ HandshakeInv /\ ReaderInv'
  BY ReaderStep DEF ReaderInv, HandshakeInv
<1>t. /\ \A s \in Links : handlers[s] \in Nat
      /\ main \in [Links -> {"start", "done"} \cup Reading \cup Closing]
      /\ alive \in [Links -> {"off", "wait", "beat"}] /\ handlers \in [Links -> Nat]
      /\ older \in [Links -> SUBSET Links]
  BY <1>0, HandlerAssumption DEF TypeOK
<1>1. ASSUME NEW s \in Links, StartSession(s) PROVE CountInv'
  <2>1. /\ main[s] = "start" /\ ReadHeader(s) /\ UNCHANGED <<sock, older, mgr>>
        /\ \A t \in Links \ {s} : handlers'[t] = handlers[t] /\ alive'[t] = alive[t]
    BY <1>t, <1>1 DEF StartSession
  <2>2. \A t \in Links \ {s} : main'[t] = main[t]
    BY <1>0, <2>1, BeginCloseWrites, ReadHeaderWrites
  <2>3. Ends
    BY <2>1, <2>2 DEF Ends, Live
  <2> QED BY <2>1, <2>3, ReaderCount
<1>2. ASSUME NEW s \in Links, PutHeld(s) PROVE CountInv'
  <2>1. main[s] = "put" /\ ReadHeader(s) /\ UNCHANGED <<sock, older, mgr, handlers, alive>>
    BY <1>2 DEF PutHeld
  <2>2. \A t \in Links \ {s} : main'[t] = main[t]
    BY <1>0, <2>1, BeginCloseWrites, ReadHeaderWrites
  <2>3. Ends
    BY <2>1, <2>2 DEF Ends, Live
  <2> QED BY <2>1, <2>3, ReaderCount
<1>3. ASSUME NEW s \in Links, NEW m \in Messages, Frame(s, m) PROVE CountInv'
  <2>1. main[s] = "read" /\ UNCHANGED <<sock, older, mgr, handlers, alive>>
    BY <1>3 DEF Frame
  <2>2. CASE BeginClose(s) \/ ReadHeader(s)
    <3>1. \A t \in Links \ {s} : main'[t] = main[t]
      BY <1>0, <2>2, BeginCloseWrites, ReadHeaderWrites
    <3>2. Ends
      BY <2>1, <3>1 DEF Ends, Live
    <3> QED BY <2>1, <2>2, <3>2, ReaderCount
  <2>3. CASE main' = [main EXCEPT ![s] = "put"] /\ UNCHANGED closing
    <3>1. main'[s] = "put" /\ \A t \in Links \ {s} : main'[t] = main[t]
      BY <1>t, <2>3
    <3>2. Ends
      BY <2>1, <3>1 DEF Ends, Live
    <3>3. (Closer => Closer') /\ (OldGoing => OldGoing')
      BY <2>1, <3>1 DEF Closer, OldGoing
    <3> QED BY <2>3, <3>2, <3>3, SameCount
  <2> QED BY <1>3, <2>2, <2>3 DEF Frame
<1>4. ASSUME NEW s \in Links, EndOfStream(s) \/ Misbehaves(s) PROVE CountInv'
  <2>1. /\ main[s] = "read" /\ BeginClose(s)
        /\ UNCHANGED <<sock, older, mgr, handlers, alive>>
    BY <1>4 DEF EndOfStream, Misbehaves
  <2>2. \A t \in Links \ {s} : main'[t] = main[t]
    BY <1>0, <2>1, BeginCloseWrites
  <2>3. Ends
    BY <2>1, <2>2 DEF Ends, Live
  <2> QED BY <2>1, <2>3, ReaderCount
<1>5. ASSUME NEW s \in Links, SetLost(s) PROVE CountInv'
  <2>1. /\ main[s] = "flush" /\ main'[s] = "linger"
        /\ \A t \in Links \ {s} : main'[t] = main[t]
        /\ UNCHANGED <<sock, closing, older, mgr, handlers, alive>>
    BY <1>t, <1>5 DEF SetLost
  <2>2. Ends
    BY <2>1 DEF Ends, Live
  <2>3. (Closer => Closer') /\ (OldGoing => OldGoing')
    BY <2>1 DEF Closer, OldGoing
  <2> QED BY <2>1, <2>2, <2>3, SameCount
<1>6. ASSUME NEW s \in Links, CancelOlder(s) PROVE CountInv'
  <2>1. /\ main[s] = "linger" /\ closing' /\ main'[s] = "done" /\ sock' = sock
        /\ \A t \in Links : \/ main'[t] = "done"
                            \/ main'[t] = main[t] /\ older'[t] = older[t]
        /\ \A t \in Links : Live(t)' => Live(t)
        /\ \A t \in older[s] : ~Live(t)'
    BY <1>t, <1>6 DEF CancelOlder, CancelTasks, Live, ReaderInv, CloseMarked, Closer
  <2>2. Ends
    BY <2>1 DEF Ends
  <2>3. AtMostOne'
    BY <2>1 DEF CountInv, OlderKnown, AtMostOne, Old
  <2> QED BY <2>1, <2>2, <2>3, EndsCount DEF CountInv
<1>7. ASSUME NEW s \in Links, KeepaliveStarts(s) \/ KeepaliveFails(s) PROVE CountInv'
  <2>1. Ends
    BY <1>t, <1>7 DEF KeepaliveStarts, KeepaliveFails, Ends, Live
  <2> QED BY <1>7, <2>1, SameCount DEF KeepaliveStarts, KeepaliveFails, Closer, OldGoing
<1>8. ASSUME NEW s \in Links, Handle(s) PROVE CountInv'
  <2>1. \A t \in Links : handlers'[t] > 0 => handlers[t] > 0
    BY <1>t, <1>8 DEF Handle
  <2>2. Ends
    BY <1>8, <2>1 DEF Handle, Ends, Live
  <2> QED BY <1>8, <2>2, SameCount DEF Handle, Closer, OldGoing
<1>9. ASSUME NEW k \in Links, Dial(k) PROVE CountInv'
  <2>1. /\ sock = NoLink /\ sock' = k /\ main[k] = "done" /\ main'[k] = "start"
        /\ \A t \in Links \ {k} : main'[t] = main[t] /\ older'[t] = older[t] \ {k}
        /\ older'[k] = {t \in Links : Live(t)}
        /\ UNCHANGED <<closing, mgr, handlers, alive>>
    BY <1>t, <1>9 DEF Dial, InUse, Live, ReaderInv, HandshakeInv, PhaseOK
  <2>2. \A t \in Links : t # k => (Live(t)' <=> Live(t))
    BY <2>1 DEF Live
  <2>3. \A t \in Links : Old(t)' => Old(t)
    BY <2>1, <2>2, LinksAssumption DEF Old
  <2>4. OlderKnown'
    BY <2>1, <2>2, LinksAssumption DEF CountInv, OlderKnown
  <2>5. AtMostThree' /\ (AtMostTwo => AtMostTwo') /\ (AtMostOne => AtMostOne')
    BY <2>3 DEF CountInv, AtMostThree, AtMostTwo, AtMostOne
  <2>6. (Closer => Closer') /\ (OldGoing => OldGoing')
    BY <2>1 DEF Closer, OldGoing
  <2> QED BY <2>1, <2>4, <2>5, <2>6 DEF CountInv
<1>10. CASE HandshakeFailed \/ HandshakeDone \/ HandshakeDropped
            \/ ConnectionLost \/ DialRefused
  <2>1. UNCHANGED <<sock, closing, mgr, main, handlers, alive, older>>
    BY <1>10 DEF HandshakeFailed, HandshakeDone, HandshakeDropped, ConnectionLost, DialRefused
  <2> QED BY <2>1, SameCount DEF Ends, Live, Closer, OldGoing
<1>11. CASE Wake
  <2>1. queue = <<>>
    BY <1>0, <1>11 DEF Wake, Settled, Drained, HandshakeInv, QueueServed, TypeOK
  <2>2. \A s \in Links : main[s] # "done" => main[s] = "read" /\ s = sock
    BY <1>t, <1>11, <2>1, QueueAssumption DEF Wake, Settled, ReaderInv, OwnReader, OthersDown
  <2>3. /\ sock' = NoLink /\ closing' = FALSE /\ ~Closer
        /\ UNCHANGED <<main, handlers, alive, older, mgr>>
    BY <1>11 DEF Wake, Settled, Closer
  <2>4. \A s \in Links : Live(s)' <=> Live(s)
    BY <2>3 DEF Live
  <2>5. \A s \in Links : Old(s)' => Old(s) \/ s = sock
    BY <2>4 DEF Old
  <2>6. OlderKnown'
    BY <2>2, <2>3, <2>4 DEF CountInv, OlderKnown
  <2>7. ~OldGoing
    BY <2>2 DEF OldGoing
  <2>8. CASE sock = NoLink
    <3>1. AtMostTwo
      BY <2>3, <2>7 DEF CountInv, AtMostOne, AtMostTwo
    <3>2. \A s \in Links : Old(s)' => Old(s)
      BY <2>5, <2>8, LinksAssumption
    <3>3. AtMostTwo' /\ AtMostThree'
      BY <3>1, <3>2 DEF AtMostTwo, AtMostThree
    <3> QED BY <2>3, <2>6, <3>3 DEF CountInv
  <2>9. CASE sock \in Links /\ closing
    <3>1. PICK a \in Links : \A s \in Links : Old(s) => s = a
      BY <2>3, <2>9 DEF CountInv, AtMostOne
    <3>2. \A s \in Links : Old(s)' => s \in {a, sock}
      BY <2>5, <3>1
    <3>3. AtMostTwo' /\ AtMostThree'
      BY <2>9, <3>2 DEF AtMostTwo, AtMostThree
    <3> QED BY <2>3, <2>6, <3>3 DEF CountInv
  <2>10. CASE sock \in Links /\ ~closing
    <3>1. main[sock] # "done"
      BY <2>10, LinksAssumption DEF ReaderInv, Attended
    <3>2. OldGoing'
      BY <2>3, <2>10, <3>1, LinksAssumption DEF OldGoing
    <3>3. PICK a \in Links, b \in Links : \A s \in Links : Old(s) => s \in {a, b}
      BY <2>7, <2>10 DEF CountInv, AtMostTwo
    <3>4. \A s \in Links : Old(s)' => s \in {a, b, sock}
      BY <2>5, <3>3
    <3>5. AtMostThree'
      BY <2>10, <3>4 DEF AtMostThree
    <3> QED BY <2>3, <2>6, <3>2, <3>5 DEF CountInv
  <2> QED BY <1>0, <2>8, <2>9, <2>10 DEF TypeOK
<1>12. CASE ManagerCloses
  <2>1. UNCHANGED <<sock, main, handlers, alive, older>>
    BY <1>12 DEF ManagerCloses
  <2>2. Ends
    BY <2>1 DEF Ends, Live
  <2>3. \/ closing' /\ Closer'
        \/ UNCHANGED closing /\ (Closer => Closer')
    BY <1>12 DEF ManagerCloses, CloseLink, AfterClose, Closer
  <2>4. OldGoing => OldGoing'
    BY <2>1 DEF OldGoing
  <2> QED BY <2>2, <2>3, <2>4, EndsCount DEF CountInv
<1>13. CASE ManagerSetsLost
  <2>1. UNCHANGED <<sock, closing, main, handlers, alive, older>> /\ mgr' = "linger"
    BY <1>13 DEF ManagerSetsLost
  <2> QED BY <2>1, SameCount DEF Ends, Live, Closer, OldGoing
<1>14. CASE ManagerCancels
  <2>1. \A s \in Links : main'[s] = "done" /\ handlers'[s] = 0 /\ alive'[s] = "off"
    BY <1>14 DEF ManagerCancels, CancelTasks
  <2>2. \A s \in Links : ~Live(s)'
    BY <2>1 DEF Live
  <2>3. PICK a \in Links : TRUE
    BY DEF CountInv, AtMostThree
  <2> QED BY <2>2, <2>3 DEF CountInv, OlderKnown, AtMostThree, AtMostTwo, AtMostOne, Old
<1>15. ASSUME NEW k \in Links, RemoteEnds(k) PROVE CountInv'
  BY <1>15, SameCount DEF RemoteEnds, Ends, Live, Closer, OldGoing
<1>16. CASE UNCHANGED vars
  BY <1>16, SameCount DEF vars, Ends, Live, Closer, OldGoing
<1> QED BY <1>1, <1>2, <1>3, <1>4, <1>5, <1>6, <1>7, <1>8, <1>9, <1>10, <1>11, <1>12,
           <1>13, <1>14, <1>15, <1>16
        DEF Next, ClientStep, SessionStep, ConnectStep, ManagerStep, PeerStep

(* and holds for ever.                                                      *)
LEMMA CountInvariant ==
    ASSUME Benign, Links # {} PROVE Spec => []CountInv
<1>1. Init => CountInv
  BY DEF Init, CountInv, OlderKnown, AtMostThree, AtMostTwo, AtMostOne, Old, Live, OldGoing,
     Closer
<1> QED BY <1>1, CountStep, ReaderInvariant, PTL DEF Spec

(* However often the client reconnects, no more than three of its sessions  *)
(* have a task left when it dials: with four names one is free.             *)
THEOREM FewSessions ==
    ASSUME Benign, Links # {},
           \A a, b, c \in Links : \E k \in Links : k \notin {a, b, c}
    PROVE  Spec => []SessionsBounded
<1>1. ReaderInv /\ CountInv => SessionsBounded
  <2> SUFFICES ASSUME ReaderInv, CountInv, ct = "dial" PROVE \E k \in Links : ~InUse(k)
    BY DEF SessionsBounded
  <2>1. PICK a \in Links, b \in Links, c \in Links : \A s \in Links : Old(s) => s \in {a, b, c}
    BY DEF CountInv, AtMostThree
  <2>2. PICK k \in Links : k \notin {a, b, c}
    OBVIOUS
  <2>3. sock = NoLink /\ k # NoLink
    BY LinksAssumption DEF ReaderInv, HandshakeInv, PhaseOK
  <2>4. ~Live(k)
    BY <2>1, <2>2, <2>3 DEF Old
  <2>5. net[k] = "closed"
    BY <2>3 DEF ReaderInv, OthersDown
  <2>6. \A s \in Links : main[s] \in Reading => rd[s] # k
    BY <2>4 DEF Live, ReaderInv, OwnReader
  <2>7. \A s \in Links : held[s].from # k
    <3>1. \A s \in Links : held[s] = NoMessage
      BY <2>3, LinksAssumption DEF ReaderInv, OwnReader
    <3>2. NoMessage.from = NoLink
      BY DEF NoMessage
    <3> QED BY <2>3, <3>1, <3>2
  <2>8. \A i \in 1..Len(queue) : queue[i].from # k
    BY <2>3 DEF ReaderInv, HandshakeInv, NoStaleMessage
  <2> QED BY <2>3, <2>4, <2>5, <2>6, <2>7, <2>8 DEF InUse
<1> QED BY <1>1, ReaderInvariant, CountInvariant, PTL
=============================================================================
