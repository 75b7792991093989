----------------------------- MODULE HeaderSync -----------------------------
(***************************************************************************)
(* How a program follows the chain of one remote node: headers_sync_task()  *)
(* of the examples with get_max_headers(), get_headers() and                *)
(* wait_for_new_tip_reorg_aware(), and the queues and handler tasks of the  *)
(* client that stand between them and the node.  The node's chain only      *)
(* grows, and a header is its height; HeadersStore has the rest.            *)
(***************************************************************************)
EXTENDS Naturals, SequencesExt

CONSTANTS
    HandlerCount,   \* handler tasks of a client (the code has 10)
    InvCap,         \* room in inv_queue_blocks (100)
    HeadersCap,     \* room in headers_queue (100)
    MaxHeaders,     \* headers in an answer of the node (2000)
    MaxRemote,      \* bound on the node's chain
    MaxListings,    \* bound on inv messages that answer a getblocks
    MaxLosses       \* bound on connections lost

ASSUME SyncAssumption ==
    /\ {HandlerCount, InvCap, HeadersCap, MaxHeaders} \subseteq Nat \ {0}
    /\ {MaxRemote, MaxListings, MaxLosses} \subseteq Nat

VARIABLES
    link,       \* "up"; "closed": the writer is; "none": there is no writer
    losses,     \* connections lost
    remote,     \* height of the node's chain
    listings,   \* inv messages that answered a getblocks
    start,      \* remote_start_height
    asked,      \* getheaders on their way: the height of the first locator
    wire,       \* messages on their way, and in message_queue
    handlers,   \* handler tasks there are
    blocked,    \* messages of the handlers that wait in put()
    invs,       \* inv_queue_blocks
    answers,    \* headers_queue
    tip,        \* height of the headers store
    task,       \* where headers_sync_task() is
    vect        \* what is left of the inv message it has taken

vars == <<link, losses, remote, listings, start, asked, wire, handlers,
          blocked, invs, answers, tip, task, vect>>
nodeVars  == <<remote, listings>>
linkVars  == <<link, losses, start, handlers>>
queueVars == <<blocked, invs, answers>>
taskVars  == <<tip, task, vect>>

Waits == {"initial_wait", "listen_wait"}
Heights == 0 .. MaxRemote

Inv(hs)       == [kind |-> "inv", heights |-> hs]
HeadersMsg(n) == [kind |-> "headers", upto |-> n]

IsMessage(m) ==
    \/ m.kind = "inv" /\ m.heights \subseteq Heights
    \/ m.kind = "headers" /\ m.upto \in Heights

TypeOK ==
    /\ link \in {"up", "closed", "none"} /\ losses \in 0 .. MaxLosses
    /\ remote \in Heights /\ start \in Heights /\ tip \in Heights
    /\ listings \in 0 .. MaxListings
    /\ asked \in Seq(Heights)
    /\ \A i \in DOMAIN wire : IsMessage(wire[i])
    /\ \A i \in DOMAIN blocked : IsMessage(blocked[i])
    /\ handlers \in 0 .. (MaxLosses + 1) * HandlerCount /\ Len(blocked) <= handlers
    /\ invs \in Seq(SUBSET Heights) /\ Len(invs) <= InvCap
    /\ answers \in Seq(Heights) /\ Len(answers) <= HeadersCap
    /\ task \in {"initial", "listen", "dead"} \cup Waits
    /\ vect \subseteq Heights

(* The client is one that get_next_available_peer() has given: it has       *)
(* completed its handshake.                                                 *)
Init ==
    /\ link = "up" /\ losses = 0 /\ listings = 0
    /\ remote \in Heights /\ start = remote
    /\ asked = <<>> /\ wire = <<>> /\ invs = <<>> /\ answers = <<>>
    /\ handlers = HandlerCount /\ blocked = <<>>
    /\ tip = 0 /\ task = "initial" /\ vect = {}

-----------------------------------------------------------------------------
(* The remote node: it announces the blocks it finds, one or more in a       *)
(* message, lowest first; lists blocks in answer to the getblocks of a block *)
(* download; and answers getheaders from the locator on.                     *)
Announce(n) ==
    /\ link = "up" /\ remote + n <= MaxRemote
    /\ remote' = remote + n
    /\ wire' = Append(wire, Inv(remote + 1 .. remote + n))
    /\ UNCHANGED <<listings, linkVars, asked, queueVars, taskVars>>

Listing ==
    /\ link = "up" /\ listings < MaxListings /\ remote > 0
    /\ listings' = listings + 1
    /\ wire' = Append(wire, Inv(1 .. remote))
    /\ UNCHANGED <<remote, linkVars, asked, queueVars, taskVars>>

FindUnseen ==
    /\ link # "up" /\ remote < MaxRemote
    /\ remote' = remote + 1
    /\ UNCHANGED <<listings, linkVars, asked, wire, queueVars, taskVars>>

AnswerHeaders ==
    /\ link = "up" /\ asked # <<>>
    /\ asked' = Tail(asked)
    /\ wire' = Append(wire, HeadersMsg(Min({remote, Head(asked) + MaxHeaders})))
    /\ UNCHANGED <<nodeVars, linkVars, queueVars, taskVars>>

-----------------------------------------------------------------------------
(* Handler tasks.  A message finds room in its queue or its handler waits.   *)
OneMoreMutant(m) ==
    IF m.kind = "inv" THEN Len(invs) <= InvCap ELSE Len(answers) < HeadersCap
HasRoom(m) ==
    IF m.kind = "inv" THEN Len(invs) < InvCap ELSE Len(answers) < HeadersCap

TwiceMutant(m) ==
    /\ invs'    = IF m.kind = "inv" THEN Append(invs, m.heights) ELSE invs
    /\ answers' = IF m.kind = "headers" THEN answers \o <<m.upto, m.upto>> ELSE answers
Put(m) ==
    /\ invs'    = IF m.kind = "inv" THEN Append(invs, m.heights) ELSE invs
    /\ answers' = IF m.kind = "headers" THEN Append(answers, m.upto) ELSE answers

(* on_inv() (its block part) and on_headers(): put_nowait(), or put().       *)
DropsWhenFullMutant ==
    /\ wire # <<>> /\ Len(blocked) < handlers
    /\ wire' = Tail(wire)
    /\ IF HasRoom(Head(wire)) THEN Put(Head(wire)) ELSE UNCHANGED <<invs, answers>>
    /\ UNCHANGED <<nodeVars, linkVars, asked, blocked, taskVars>>
Handle ==
    /\ wire # <<>> /\ Len(blocked) < handlers
    /\ wire' = Tail(wire)
    /\ IF HasRoom(Head(wire))
       THEN Put(Head(wire)) /\ UNCHANGED blocked
       ELSE blocked' = Append(blocked, Head(wire)) /\ UNCHANGED <<invs, answers>>
    /\ UNCHANGED <<nodeVars, linkVars, asked, taskVars>>

Unblock ==
    \E i \in DOMAIN blocked :
        /\ HasRoom(blocked[i]) /\ Put(blocked[i])
        /\ blocked' = RemoveAt(blocked, i)
        /\ UNCHANGED <<nodeVars, linkVars, asked, wire, taskVars>>

-----------------------------------------------------------------------------
(* The connection.  close() may or may not get to the handler tasks, and     *)
(* what message_queue holds is not lost with the connection.                 *)
Lose ==
    /\ link = "up" /\ losses < MaxLosses
    /\ link' = "closed" /\ losses' = losses + 1
    /\ asked' = <<>>
    /\ \E n \in 0 .. Len(wire) : wire' = SubSeq(wire, 1, n)
    /\ \/ UNCHANGED <<handlers, blocked>>
       \/ handlers' = 0 /\ blocked' = <<>>
    /\ UNCHANGED <<nodeVars, start, invs, answers, taskVars>>

Reset ==
    /\ link = "closed" /\ link' = "none"
    /\ UNCHANGED <<nodeVars, losses, start, handlers, asked, wire, queueVars, taskVars>>

Reconnect ==
    /\ link = "none" /\ link' = "up" /\ start' = remote
    /\ handlers' = handlers + HandlerCount
    /\ UNCHANGED <<nodeVars, losses, asked, wire, queueVars, taskVars>>

-----------------------------------------------------------------------------
(* get_max_headers() up to its await.  A closed transport drops what is      *)
(* written; without a writer send_message() fails and takes the task along.  *)
Request(wait) ==
    /\ asked' = IF link = "up" THEN Append(asked, tip) ELSE asked
    /\ task'  = IF link = "none" THEN "dead" ELSE wait

InitialRequest ==
    /\ task = "initial" /\ tip < start /\ Request("initial_wait")
    /\ UNCHANGED <<nodeVars, linkVars, wire, queueVars, tip, vect>>

(* An answer without headers (None) leaves the tip where it is.              *)
InitialAnswer ==
    /\ task = "initial_wait" /\ answers # <<>>
    /\ answers' = Tail(answers)
    /\ tip' = Max({tip, Head(answers)}) /\ task' = "initial"
    /\ UNCHANGED <<nodeVars, linkVars, asked, wire, blocked, invs, vect>>

InitialDone ==
    /\ task = "initial" /\ tip >= start
    /\ task' = "listen"
    /\ UNCHANGED <<nodeVars, linkVars, asked, wire, queueVars, tip, vect>>

AboveNextMutant(hs, known) == {h \in hs : h > known + 1}
Missing(hs, known) == {h \in hs : h > known}

(* wait_for_new_tip_reorg_aware(): headers the store has need no request.    *)
TakeInv ==
    /\ task = "listen" /\ vect = {} /\ invs # <<>>
    /\ invs' = Tail(invs) /\ vect' = Missing(Head(invs), tip)
    /\ UNCHANGED <<nodeVars, linkVars, asked, wire, blocked, answers, tip, task>>

ListenRequest ==
    /\ task = "listen" /\ vect # {} /\ Request("listen_wait")
    /\ UNCHANGED <<nodeVars, linkVars, wire, queueVars, tip, vect>>

ListenAnswer ==
    /\ task = "listen_wait" /\ answers # <<>>
    /\ answers' = Tail(answers)
    /\ tip' = Max({tip, Head(answers)}) /\ task' = "listen"
    /\ vect' = Missing(vect \ {Min(vect)}, tip')
    /\ UNCHANGED <<nodeVars, linkVars, asked, wire, blocked, invs>>

Task == InitialRequest \/ InitialAnswer \/ InitialDone
        \/ TakeInv \/ ListenRequest \/ ListenAnswer

Next ==
    \/ \E n \in 1 .. MaxRemote : Announce(n)
    \/ Listing \/ FindUnseen \/ AnswerHeaders
    \/ Handle \/ Unblock
    \/ Lose \/ Reset \/ Reconnect
    \/ InitialRequest \/ InitialAnswer \/ InitialDone
    \/ TakeInv \/ ListenRequest \/ ListenAnswer

Spec == Init /\ [][Next]_vars

(* The event loop runs every task that can run, and the node answers; the    *)
(* connection need not be lost or come back, nor blocks be found.            *)
FairSpec ==
    /\ Spec
    /\ WF_vars(Handle) /\ WF_vars(Unblock) /\ WF_vars(AnswerHeaders) /\ WF_vars(Task)
-----------------------------------------------------------------------------
(* Where a queue holds answers to getheaders, and how many there are at all. *)
AnswersIn(ms) == {i \in DOMAIN ms : ms[i].kind = "headers"}
InFlight ==
    Len(asked) + Cardinality(AnswersIn(wire)) + Cardinality(AnswersIn(blocked)) + Len(answers)

(* get_headers() takes whatever comes out of headers_queue.  With one caller *)
(* it is the answer to its own request: nothing else is ever on its way,     *)
(* also after lost connections, and nothing at all when no one waits.        *)
AnswerIsOwn ==
    /\ InFlight <= 1
    /\ task \notin Waits => InFlight = 0
    /\ task \in Waits /\ losses = 0 => InFlight = 1

(* No announcement falls through: once the messages and queues are empty     *)
(* the store is at the node's tip, if an answer has room for what the node   *)
(* has found since the connection began.                                     *)
Quiet ==
    losses = 0 /\ task = "listen" /\ vect = {} /\ wire = <<>> /\ blocked = <<>> /\ invs = <<>>
QuietMeansSynced == Quiet /\ remote <= start + MaxHeaders => tip = remote

(* Without that room it may fall through: inv messages that waited for room  *)
(* in inv_queue_blocks are not taken in the order in which they came, and    *)
(* one request is made for a header, also when the answer ends below it.     *)
QuietAlwaysSynced == Quiet => tip = remote

(* Stuck: get_headers() waits and nothing will answer it.                    *)
Stuck == task = "dead" \/ (task \in Waits /\ InFlight = 0)

Announced(h) ==
    \E i \in DOMAIN wire : wire[i].kind = "inv" /\ h \in wire[i].heights

(* Where inv_queue_blocks and the handler tasks have room for what is        *)
(* announced meanwhile, the store comes to know every block announced to it  *)
(* that is within an answer of what it has, or of what it will have once it  *)
(* listens on its first connection; unless the task is stuck already or the  *)
(* connection is lost.                                                       *)
TipFollowed ==
    \A h \in 1 .. MaxRemote :
        (Announced(h) /\ (h <= tip + MaxHeaders \/ (losses = 0 /\ h <= start + MaxHeaders)))
            ~> (tip >= h \/ link # "up" \/ Stuck)

(* README.md:77-78 says that the program will "stay synchronized with the    *)
(* chain tip by waiting for new `inv` messages".  A connection lost while    *)
(* get_headers() waits leaves it waiting on all later ones; one that is not  *)
(* back when a request is made ends the task (assert writer is not None).    *)
StaysSynchronized ==
    \A h \in 1 .. MaxRemote :
        (Announced(h) /\ link = "up" /\ losses = MaxLosses) ~> tip >= h
=============================================================================
