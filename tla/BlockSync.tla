------------------------------ MODULE BlockSync ------------------------------
(***************************************************************************)
(* The block download of high_level_api_block_download.py with the parts of  *)
(* the manager and the handlers that serve it: headers_sync_task() learns     *)
(* headers, blocks_sync_task() downloads the blocks of the longest chain in   *)
(* rounds, each client asks its node which blocks it has, and work is given   *)
(* on when a client is lost.                                                  *)
(*                                                                         *)
(* All nodes are on one chain.  How the headers client comes to ask for       *)
(* headers is in HeaderSync, what the stores do in HeadersStore.              *)
(***************************************************************************)
EXTENDS HeaderChains

CONSTANTS
    Clients,        \* the clients of the manager
    Hosts,          \* the hosts they connect to
    Host,           \* Host[c]: clients of one host share have_blocks
    HeadersClient,  \* the client that headers_sync_task() uses
    MaxRound,       \* blocks of a round that catches up (500)
    ListLimit,      \* blocks a node lists in answer to a getblocks (500)
    StopIncluded,   \* whether it lists the block that hash_stop names
    MaxEvents       \* bound on new tips and lost connections together

ASSUME DownloadAssumption ==
    /\ HeadersClient \in Clients /\ Host \in [Clients -> Hosts]
    /\ {MaxRound, ListLimit} \subseteq Nat \ {0}
    /\ StopIncluded \in BOOLEAN
    /\ MaxEvents \in Nat

VARIABLES
    best,       \* tip of the nodes' chain
    pool,       \* clients in the connection pool
    closed,     \* those of them whose connection is closed already
    events,     \* new tips and lost connections so far
    lost,       \* history: whether a connection has been lost
    wire,       \* what a client will hear from its node, in order: new tips,
                \* and the answers to its getblocks and getdata
    have,       \* have_blocks
    queued,     \* messages in queued_getdata_requests
    moving,     \* what the reallocate_work_tasks have left to give on
    chains,     \* headers_store
    results,    \* new_headers_queue
    htask,      \* where headers_sync_task() is
    target,     \* remote_start_height of its client
    done,       \* headers_store_done_blocks
    btask,      \* where blocks_sync_task() is
    wanted,     \* the blocks of the round
    todo,       \* those not asked for yet
    missing,    \* wanted_blocks: those not delivered yet
    delivered,  \* history: blocks that on_block() was called for
    reorged     \* history: the nodes have gone over to another branch

netVars  == <<best, pool, closed, events, lost, reorged>>
workVars == <<queued, moving>>
headVars == <<chains, results, htask, target>>
syncVars == <<done, btask, wanted, todo>>
dataVars == <<missing, delivered>>
vars == <<netVars, wire, have, workVars, headVars, syncVars, dataVars>>

TipMsg(h)         == [kind |-> "tip", block |-> h]
ListMsg(from, to) == [kind |-> "list", from |-> from, to |-> to]
BlockMsg(h)       == [kind |-> "block", block |-> h]
Messages == {TipMsg(h) : h \in Headers} \cup {BlockMsg(h) : h \in Headers}
            \cup {ListMsg(x, y) : x, y \in Headers}

Blocks == Headers \ {Genesis}

TypeOK ==
    /\ best \in Headers /\ closed \subseteq pool /\ pool \subseteq Clients
    /\ events \in 0 .. MaxEvents /\ lost \in BOOLEAN
    /\ wire \in [Clients -> Seq(Messages)]
    /\ have \in [Hosts -> SUBSET Blocks]
    /\ queued \in [Clients -> Nat] /\ moving \in Seq(Nat)
    /\ IsChains(chains) /\ IsChains(done)
    /\ \A i \in DOMAIN results : {results[i].start, results[i].stop} \subseteq Headers
    /\ htask \in {"initial", "follow", "dead"} /\ target \in Nat
    /\ btask \in {"idle", "get", "ask", "wait", "dead"}
    /\ wanted \in Seq(Blocks) /\ todo \in Seq(Blocks) /\ missing \subseteq Blocks
    /\ delivered \subseteq Headers /\ reorged \in BOOLEAN

(* The headers of the branch of tip from height n to height k.               *)
Path(tip, n, k) == [i \in 1 .. (IF k < n THEN 0 ELSE k - n + 1) |-> At(tip, n + i - 1)]
ChainTo(h) == <<Path(h, 0, Height[h])>>

(* The program has been run before: both stores hold what they had then.     *)
(* Entering the manager waits for a first connection.                        *)
Init ==
    /\ best \in Headers
    /\ \E h \in Branch[best] : \E k \in Branch[h] :
           chains = ChainTo(h) /\ done = ChainTo(k) /\ delivered = Branch[k]
    /\ pool \in SUBSET Clients /\ HeadersClient \in pool /\ closed = {} /\ events = 0 /\ lost = FALSE
    /\ wire = [c \in Clients |-> <<>>] /\ have = [t \in Hosts |-> {}]
    /\ queued = [c \in Clients |-> 0] /\ moving = <<>>
    /\ results = <<>> /\ htask = "initial" /\ target = Height[best] /\ reorged = FALSE
    /\ btask = "idle" /\ wanted = <<>> /\ todo = <<>> /\ missing = {}

-----------------------------------------------------------------------------
(* The nodes.  Each announces a new tip, and only that.                      *)
Up == pool \ closed
Send(cs, m) == [c \in Clients |-> IF c \in cs THEN Append(wire[c], m) ELSE wire[c]]

Advance(h) ==
    /\ ChainWork[h] > ChainWork[best] /\ (Parent[h] = best \/ best \notin Branch[h])
    /\ events < MaxEvents /\ events' = events + 1 /\ best' = h
    /\ reorged' = (reorged \/ best \notin Branch[h])
    /\ wire' = Send(Up, TipMsg(h))
    /\ UNCHANGED <<pool, closed, lost, have, workVars, headVars, syncVars, dataVars>>

(* The answer to a getblocks: what comes after the locator, or after the     *)
(* genesis block when the locator is not on the chain, up to the stop.       *)
Listed(from, stop) ==
    LET low  == IF from \in Branch[best] THEN Height[from] ELSE 0
        high == IF stop \in Branch[best] /\ Height[stop] > low
                THEN (IF StopIncluded THEN Height[stop] ELSE Height[stop] - 1)
                ELSE Height[best]
    IN  {x \in Branch[best] : Height[x] > low /\ Height[x] <= high
                                 /\ Height[x] <= low + ListLimit}

(* The genesis block stands for ZERO_HASH, at which no list stops.           *)
NoStop == Genesis

-----------------------------------------------------------------------------
(* on_inv() for blocks, when there is room in inv_queue_blocks (HeaderSync    *)
(* has what happens otherwise).                                              *)
Reads(c, kinds) ==
    /\ c \in Up /\ wire[c] # <<>> /\ Head(wire[c]).kind \in kinds
    /\ wire' = [wire EXCEPT ![c] = Tail(@)]

Hear(c) ==
    /\ Reads(c, {"tip", "list"})
    /\ LET m == Head(wire[c])
           S == IF m.kind = "tip" THEN {m.block} ELSE Listed(m.from, m.to)
       IN  have' = [have EXCEPT ![Host[c]] = @ \cup S]
    /\ UNCHANGED <<netVars, workVars, headVars, syncVars, dataVars>>

(* The block is read, and on_block() marks it done.                          *)
MarkAllMutant(c) ==
    /\ Reads(c, {"block"})
    /\ missing' = {} /\ delivered' = delivered \cup {Head(wire[c]).block}
    /\ UNCHANGED <<netVars, have, workVars, headVars, syncVars>>
Deliver(c) ==
    /\ Reads(c, {"block"})
    /\ missing' = missing \ {Head(wire[c]).block}
    /\ delivered' = delivered \cup {Head(wire[c]).block}
    /\ UNCHANGED <<netVars, have, workVars, headVars, syncVars>>

-----------------------------------------------------------------------------
(* A connection is lost.  The client is in the pool until its connect_task   *)
(* runs; what it has written and not been answered is lost.                  *)
Close(c) ==
    /\ c \in Up /\ events < MaxEvents
    /\ closed' = closed \cup {c} /\ events' = events + 1 /\ lost' = TRUE
    /\ wire' = [wire EXCEPT ![c] = <<>>]
    /\ UNCHANGED <<best, reorged, pool, have, workVars, headVars, syncVars, dataVars>>

(* connect_task(): what is in queued_getdata_requests goes to another task.  *)
StaysClosedMutant(c) ==
    /\ c \in closed
    /\ pool' = pool \ {c}
    /\ moving' = IF queued[c] > 0 THEN Append(moving, queued[c]) ELSE moving
    /\ queued' = [queued EXCEPT ![c] = 0]
    /\ UNCHANGED <<best, closed, events, lost, reorged, wire, have, headVars, syncVars, dataVars>>
Leave(c) ==
    /\ c \in closed
    /\ pool' = pool \ {c} /\ closed' = closed \ {c}
    /\ moving' = IF queued[c] > 0 THEN Append(moving, queued[c]) ELSE moving
    /\ queued' = [queued EXCEPT ![c] = 0]
    /\ UNCHANGED <<best, events, lost, reorged, wire, have, headVars, syncVars, dataVars>>

(* getblocks for the round, to a client that joins or is given work.         *)
AskAgain(c) ==
    wire' = IF missing = {} \/ c \in closed THEN wire
            ELSE Send({c}, ListMsg(wanted[1], Last(wanted)))

(* reallocate_work_task(): one client is given all of it.                    *)
Reallocate ==
    /\ moving # <<>>
    /\ \E c \in pool :
           /\ queued' = [queued EXCEPT ![c] = @ + Head(moving)]
           /\ AskAgain(c)
    /\ moving' = Tail(moving)
    /\ UNCHANGED <<netVars, have, headVars, syncVars, dataVars>>

Join(c) ==
    /\ c \notin pool
    /\ pool' = pool \cup {c}
    /\ AskAgain(c)
    /\ target' = IF c = HeadersClient THEN Height[best] ELSE target
    /\ UNCHANGED <<best, closed, events, lost, reorged, have, workVars, chains, results,
                   htask, syncVars, dataVars>>

-----------------------------------------------------------------------------
(* headers_sync_task().  The locators of get_max_headers(), and the headers  *)
(* that the node sends after the last of them that is on its chain.          *)
Locators(tip) ==
    {x \in Branch[tip] : x = tip \/ (x # Genesis /\
        \E i \in 1 .. 12 : Height[x] + (2 * i) * (2 * i) = Height[tip])}
Base(tip) == Max({0} \cup {Height[x] : x \in Locators(tip) \cap Branch[best]})
Answer == Path(best, Base(Tip(chains)) + 1, Height[best])

(* The initial download: connect_headers(), an answer at a time.             *)
InitialHeaders ==
    /\ htask = "initial" /\ HeadersClient \in Up /\ Height[Tip(chains)] < target
    /\ \E n \in 1 .. Len(Answer) :
           chains' = FoldLeft(Connect, chains, SubSeq(Answer, 1, n))
    /\ UNCHANGED <<netVars, wire, have, workVars, results, htask, target, syncVars, dataVars>>

InitialDone ==
    /\ htask = "initial" /\ Height[Tip(chains)] >= target
    /\ htask' = "follow"
    /\ results' = Append(results, [start |-> Genesis, stop |-> Tip(chains)])
    /\ UNCHANGED <<netVars, wire, have, workVars, chains, target, syncVars, dataVars>>

(* A new tip: connect_headers_reorg_safe() and what it answers (HeadersStore *)
(* has its NewTipResult), put into new_headers_queue.                        *)
NewestOnlyMutant ==
    /\ htask = "follow" /\ HeadersClient \in Up /\ best \notin Known(chains)
    /\ chains' = FoldLeft(Connect, chains, Answer)
    /\ results' = Append(results, [start |-> best, stop |-> best])
    /\ UNCHANGED <<netVars, wire, have, workVars, htask, target, syncVars, dataVars>>
NewTip ==
    /\ htask = "follow" /\ HeadersClient \in Up /\ best \notin Known(chains)
    /\ LET old == Tip(chains)  cs == FoldLeft(Connect, chains, Answer)
           forked == Len(cs) > Len(chains)
           start == IF forked THEN At(best, CommonHeight(best, old) + 1) ELSE Answer[1]
       IN  /\ chains' = cs
           /\ IF forked /\ Height[best] <= Height[old]
              THEN htask' = "dead" /\ UNCHANGED results
              ELSE results' = Append(results, [start |-> start, stop |-> best])
                   /\ UNCHANGED htask
    /\ UNCHANGED <<netVars, wire, have, workVars, target, syncVars, dataVars>>

-----------------------------------------------------------------------------
(* blocks_sync_task() and get_wanted_block_data().                           *)

(* A round begins: wanted_blocks is set, and every client asks its node.     *)
FirstLocatorMutant(blocks, from, stop) ==
    /\ btask' = "ask" /\ wanted' = blocks /\ todo' = blocks /\ missing' = ToSet(blocks)
    /\ queued' = [c \in Clients |-> IF c \in pool THEN 1 ELSE queued[c]]
    /\ wire' = Send(Up, ListMsg(blocks[1], stop))
Round(blocks, from, stop) ==
    /\ btask' = "ask" /\ wanted' = blocks /\ todo' = blocks /\ missing' = ToSet(blocks)
    /\ queued' = [c \in Clients |-> IF c \in pool THEN 1 ELSE queued[c]]
    /\ wire' = Send(Up, ListMsg(from, stop))

AtTip == Height[Tip(done)] = Height[Tip(chains)]

(* get_header_for_height() finds headers of the longest chain.              *)
HasHeight(n) == n <= Height[Tip(chains)]

(* At the same height it waits for a result, also when the heights differ    *)
(* again by the time there is one.                                           *)
AwaitResult ==
    /\ btask = "idle" /\ AtTip
    /\ btask' = "get"
    /\ UNCHANGED <<netVars, wire, have, workVars, headVars, done, wanted, todo, dataVars>>

SkipResult ==
    /\ btask = "get" /\ results # <<>> /\ Head(results).stop \in Known(done)
    /\ results' = Tail(results) /\ btask' = "idle"
    /\ UNCHANGED <<netVars, wire, have, workVars, chains, htask, target,
                   done, wanted, todo, dataVars>>

UncheckedResultMutant ==
    /\ btask = "get" /\ results # <<>> /\ Head(results).stop # Genesis
    /\ HasHeight(Height[Head(results).stop])
    /\ results' = Tail(results)
    /\ LET r == Head(results)
       IN  Round(Path(Tip(chains), Max({Height[r.start], 1}), Height[r.stop]), r.start, r.stop)
    /\ UNCHANGED <<netVars, have, moving, chains, htask, target, done, delivered>>
TipRound ==
    /\ btask = "get" /\ results # <<>> /\ Head(results).stop \notin Known(done)
    /\ HasHeight(Height[Head(results).stop])
    /\ results' = Tail(results)
    /\ LET r == Head(results)
       IN  Round(Path(Tip(chains), Max({Height[r.start], 1}), Height[r.stop]), r.start, r.stop)
    /\ UNCHANGED <<netVars, have, moving, chains, htask, target, done, delivered>>

CatchUpRound ==
    /\ btask = "idle" /\ ~AtTip /\ HasHeight(Height[Tip(done)])
    /\ LET tip  == Tip(chains)
           low  == Height[Tip(done)]
           high == low + Min({MaxRound, Height[tip] - low})
       IN  Round(Path(tip, low + 1, high), At(tip, low),
                 IF high >= Height[tip] THEN NoStop ELSE At(tip, high + 1))
    /\ UNCHANGED <<netVars, have, moving, headVars, done, delivered>>

(* The chain with most work may be lower than one that had been known: the   *)
(* block to start or to stop at has no height in it, and the task ends with  *)
(* MissingHeader.                                                           *)
StopAboveMutant ==
    /\ btask = "idle" /\ ~AtTip /\ ~HasHeight(Height[Tip(done)] + MaxRound + 1)
    /\ btask' = "dead"
    /\ UNCHANGED <<netVars, wire, have, workVars, headVars, done, wanted, todo, dataVars>>
HeightMissing ==
    /\ \/ btask = "idle" /\ ~AtTip /\ ~HasHeight(Height[Tip(done)]) /\ UNCHANGED results
       \/ /\ btask = "get" /\ results # <<>> /\ Head(results).stop \notin Known(done)
          /\ ~HasHeight(Height[Head(results).stop]) /\ results' = Tail(results)
    /\ btask' = "dead"
    /\ UNCHANGED <<netVars, wire, have, workVars, chains, htask, target,
                   done, wanted, todo, dataVars>>

(* The next block is asked for from the next client that has it; going round *)
(* the clients that do not changes nothing.                                  *)
AskFor(c) ==
    /\ btask = "ask" /\ c \in pool
    /\ LET h == Head(todo)
       IN  /\ h \in have[Host[c]] /\ h \in missing
           /\ wire' = IF c \in closed THEN wire ELSE Send({c}, BlockMsg(h))
    /\ todo' = Tail(todo) /\ btask' = IF Len(todo) = 1 THEN "wait" ELSE "ask"
    /\ UNCHANGED <<netVars, have, workVars, headVars, done, wanted, dataVars>>

(* All blocks are there: their headers are connected to the done store, or   *)
(* the first of them does not and MissingHeader ends the task.               *)
NoWaitMutant ==
    /\ btask = "wait"
    /\ IF Parent[wanted[1]] \in Known(done)
       THEN btask' = "idle" /\ done' = FoldLeft(Connect, done, wanted)
       ELSE btask' = "dead" /\ UNCHANGED done
    /\ UNCHANGED <<netVars, wire, have, workVars, headVars, wanted, todo, dataVars>>
RoundDone ==
    /\ btask = "wait" /\ missing = {}
    /\ IF Parent[wanted[1]] \in Known(done)
       THEN btask' = "idle" /\ done' = FoldLeft(Connect, done, wanted)
       ELSE btask' = "dead" /\ UNCHANGED done
    /\ UNCHANGED <<netVars, wire, have, workVars, headVars, wanted, todo, dataVars>>

(* What the nodes, the manager and the two tasks do by themselves.           *)
Progress ==
    \/ \E c \in Clients : Hear(c) \/ Deliver(c) \/ Leave(c) \/ Join(c) \/ AskFor(c)
    \/ Reallocate
    \/ InitialHeaders \/ InitialDone \/ NewTip
    \/ AwaitResult \/ SkipResult \/ TipRound \/ CatchUpRound \/ HeightMissing \/ RoundDone

Next ==
    \/ \E h \in Blocks : Advance(h)
    \/ \E c \in Clients : Close(c)
    \/ Progress

Spec == Init /\ [][Next]_vars

(* Nodes answer, tasks that can run do, the rotation over the pool comes to  *)
(* every client (PeerPool), and clients reconnect.  Each step uses up a      *)
(* message or completes a part of a round, so that fairness of them together *)
(* is enough.                                                                *)
FairSpec == Spec /\ WF_vars(Progress)
-----------------------------------------------------------------------------
(* What the done store holds has been handed to on_block(), whatever         *)
(* connections were lost and however the chain went.                         *)
DoneMeansDelivered == Known(done) \subseteq delivered

(* get_wanted_block_data() goes round for ever for a block that is no longer *)
(* in wanted_blocks (line 118): what it has still to ask for is always there.*)
StillWanted == ToSet(todo) \subseteq missing

(* Unless the chain has been reorganised, a round follows on what is done,   *)
(* block after block: connecting it will not end the task.                   *)
RoundConnects ==
    ~reorged =>
        /\ btask # "dead"
        /\ btask \in {"ask", "wait"} =>
               \A i \in DOMAIN wanted :
                   Parent[wanted[i]] \in IF i = 1 THEN Known(done) ELSE {wanted[i - 1]}

(* Rounds that catch up and rounds for queued results do not overlap: no     *)
(* block is downloaded twice, but by a round that starts at the first block, *)
(* as the one for the result of the initial download does.                   *)
FetchedOnce ==
    ~reorged /\ wanted # <<>> /\ Parent[wanted[1]] # Genesis =>
        ToSet(todo) \cap delivered = {}

(* The comment on high_level_api_block_download.py:150 has a round start     *)
(* below the local tip "for a reorg".  The result of the initial download    *)
(* starts at the genesis block.                                              *)
StartsAboveTip == ~reorged => ToSet(todo) \cap delivered = {}

(* Without a lost connection or a reorganisation the download catches up     *)
(* with the longest chain again and again, however the tips, the rounds and  *)
(* the queued results fall.                                                  *)
CaughtUp == Branch[Tip(chains)] \subseteq Known(done)

BlocksArrive == []<>(CaughtUp \/ lost \/ reorged)

(* high_level_api_block_download.py:94 promises that "If a BitcoinClient     *)
(* disconnects at any time, the queued work for that client will be          *)
(* re-allocated".  What is queued is a getblocks; it is given on as one that  *)
(* asks for the blocks after the first of the round, and a getdata without   *)
(* its block is not repeated.                                                *)
BlocksArriveAfterLoss == []<>(CaughtUp \/ reorged)
=============================================================================
