---------------------------- MODULE HeadersStore ----------------------------
(***************************************************************************)
(* HeadersStore (headers.py): the headers a program has learnt, the file    *)
(* they are kept in, and what the store tells the program when the chain    *)
(* tip changes.  The program may crash at any moment and is started again.  *)
(*                                                                         *)
(* The loops over a batch, over the headers to write and over the file are  *)
(* modelled a header at a time, so that a crash can come anywhere in them;  *)
(* nothing else can, since none of the methods awaits.                      *)
(***************************************************************************)
EXTENDS HeaderChains

CONSTANTS
    Invalid,        \* headers without the work they claim
    MaxBatch,       \* bound on the headers of a message
    Uses,           \* which calls the program makes: TRUE stands for
                    \* connect_headers_reorg_safe(), FALSE for connect_headers()
    TornWrites      \* a crash may leave part of a header in the file

ASSUME StoreAssumption ==
    /\ Invalid \subseteq Headers \ {Genesis}
    /\ MaxBatch \in Nat /\ Uses \subseteq BOOLEAN /\ TornWrites \in BOOLEAN

VARIABLES
    pc,         \* what the store is doing
    chains,     \* self.headers
    cursor,     \* self.cursor: how much of each chain is in the file
    written,    \* the same during a write, header by header
    file,       \* the headers in the file
    torn,       \* whether part of a header follows them
    todo,       \* what is left of the batch, or of the file, to connect
    call,       \* the call of connect_headers(), or of the reorg-safe one
    answer,     \* what the last call has returned
    promised    \* history: headers of the calls that have succeeded

vars == <<pc, chains, cursor, written, file, torn, todo, call, answer, promised>>

(* A message's headers, each a descendant of the one before it.             *)
Batches ==
    {b \in BoundedSeq(Headers \ {Genesis}, MaxBatch) :
        b # <<>> /\ \A i, j \in DOMAIN b : i < j => b[i] # b[j] /\ b[i] \in Branch[b[j]]}

NoAnswer == [kind |-> "none"]
Kinds    == {"none", "connected", "missing", "raised", "assertion", "tip", "reorg"}

TypeOK ==
    /\ pc \in {"down", "load", "broken", "ready", "connect", "write"}
    /\ IsChains(chains)
    /\ cursor \in Seq(Nat) /\ Len(cursor) <= Len(chains)
    /\ written \in Seq(Nat) /\ Len(written) <= Len(chains)
    /\ \A i \in DOMAIN written : written[i] <= Len(chains[i])
    /\ file \in Seq(Headers \ {Genesis}) /\ torn \in BOOLEAN
    /\ todo \in Seq(Headers \ {Genesis})
    /\ call.safe \in BOOLEAN /\ call.first \in Headers /\ call.before \in Headers
    /\ call.headers \subseteq Headers /\ call.count \in Nat
    /\ answer.kind \in Kinds /\ promised \subseteq Headers

NoCall == [safe |-> FALSE, first |-> Genesis, headers |-> {}, before |-> Genesis,
           count |-> 0]

Init ==
    /\ pc = "down" /\ chains = NoChains /\ cursor = <<>> /\ written = <<>>
    /\ file = <<>> /\ torn = FALSE /\ todo = <<>>
    /\ call = NoCall /\ answer = NoAnswer /\ promised = {}

-----------------------------------------------------------------------------
(* Definitions named ...Mutant change the one after them as a slip in the   *)
(* code would: they serve to show that the properties can fail.             *)

(* Headers.cursor(); how much of chain i a cursor covers.                   *)
CursorOf(cs)  == [i \in DOMAIN cs |-> Len(cs[i])]
CoversMutant(c, i) == IF i \in DOMAIN c THEN c[i] ELSE Len(chains[i])
Covers(c, i)  == IF i \in DOMAIN c THEN c[i] ELSE 0

(* The constructor: read_cached_headers().                                  *)
Open ==
    /\ pc = "down"
    /\ pc' = "load" /\ chains' = NoChains /\ todo' = file
    /\ UNCHANGED <<cursor, written, file, torn, call, answer, promised>>

(* connect_many() of what the file holds, which must connect.               *)
Load ==
    /\ pc = "load" /\ todo # <<>>
    /\ IF Parent[Head(todo)] \in Known(chains)
       THEN /\ chains' = Connect(chains, Head(todo)) /\ todo' = Tail(todo)
            /\ UNCHANGED pc
       ELSE pc' = "broken" /\ UNCHANGED <<chains, todo>>
    /\ UNCHANGED <<cursor, written, file, torn, call, answer, promised>>

(* Part of a header at the end does not parse.                              *)
Loaded ==
    /\ pc = "load" /\ todo = <<>>
    /\ pc' = IF torn THEN "broken" ELSE "ready"
    /\ cursor' = CursorOf(chains)
    /\ UNCHANGED <<chains, written, file, torn, todo, call, answer, promised>>

(* connect_headers(), or connect_headers_reorg_safe(), of a message.        *)
LastOfBatchMutant(b, safe) ==
    /\ pc = "ready"
    /\ pc' = "connect" /\ todo' = b
    /\ call' = [safe |-> safe, first |-> Last(b), headers |-> ToSet(b),
                before |-> Tip(chains), count |-> Len(chains)]
    /\ answer' = NoAnswer
    /\ UNCHANGED <<chains, cursor, written, file, torn, promised>>
Call(b, safe) ==
    /\ pc = "ready"
    /\ pc' = "connect" /\ todo' = b
    /\ call' = [safe |-> safe, first |-> b[1], headers |-> ToSet(b),
                before |-> Tip(chains), count |-> Len(chains)]
    /\ answer' = NoAnswer
    /\ UNCHANGED <<chains, cursor, written, file, torn, promised>>

(* One header of the loop in connect_headers().                             *)
ConnectHeader ==
    /\ pc = "connect" /\ todo # <<>>
    /\ Parent[Head(todo)] \in Known(chains) /\ Head(todo) \notin Invalid
    /\ chains' = Connect(chains, Head(todo)) /\ todo' = Tail(todo)
    /\ UNCHANGED <<pc, cursor, written, file, torn, call, answer, promised>>

(* It does not connect: the call fails (success is False, or ValueError)    *)
(* and what has been connected before it is not written.                    *)
CursorMovesMutant ==
    /\ pc = "connect" /\ todo # <<>> /\ Parent[Head(todo)] \notin Known(chains)
    /\ pc' = "ready" /\ todo' = <<>> /\ answer' = [kind |-> "missing"]
    /\ cursor' = CursorOf(chains)
    /\ UNCHANGED <<chains, written, file, torn, call, promised>>
HeaderMissing ==
    /\ pc = "connect" /\ todo # <<>> /\ Parent[Head(todo)] \notin Known(chains)
    /\ pc' = "ready" /\ todo' = <<>> /\ answer' = [kind |-> "missing"]
    /\ UNCHANGED <<chains, cursor, written, file, torn, call, promised>>

(* Any other exception of Headers.connect() is passed on.                   *)
HeaderInvalid ==
    /\ pc = "connect" /\ todo # <<>> /\ Parent[Head(todo)] \in Known(chains)
    /\ Head(todo) \in Invalid
    /\ pc' = "ready" /\ todo' = <<>> /\ answer' = [kind |-> "raised"]
    /\ UNCHANGED <<chains, cursor, written, file, torn, call, promised>>

(* write_cached_headers(): unpersisted_headers() are those that the cursor  *)
(* does not cover, chain after chain.                                       *)
FromGenesisMutant ==
    /\ pc = "connect" /\ todo = <<>>
    /\ pc' = "write" /\ written' = [i \in DOMAIN chains |-> 0]
    /\ UNCHANGED <<chains, cursor, file, torn, todo, call, answer, promised>>
BeginWrite ==
    /\ pc = "connect" /\ todo = <<>>
    /\ pc' = "write" /\ written' = [i \in DOMAIN chains |-> Covers(cursor, i)]
    /\ UNCHANGED <<chains, cursor, file, torn, todo, call, answer, promised>>

Unwritten == {i \in DOMAIN chains : written[i] < Len(chains[i])}

WriteHeader ==
    /\ pc = "write" /\ Unwritten # {}
    /\ LET i == Min(Unwritten)
       IN  /\ file' = Append(file, chains[i][written[i] + 1])
           /\ written' = [written EXCEPT ![i] = @ + 1]
    /\ UNCHANGED <<pc, chains, cursor, torn, todo, call, answer, promised>>

-----------------------------------------------------------------------------
(* What connect_headers_reorg_safe() answers.                               *)

(* find_common_parent(): the chains are found by their tips; without one    *)
(* that ends in the old tip the height is 0.                                *)
CommonParent(new, old) ==
    IF old \in Tips(chains) THEN CommonHeight(new, old) ELSE 0

(* _get_chain_hashes_common_parent_to_tip(), tip first.                     *)
ParentsMutant(tip, height) ==
    [i \in 1 .. (Height[tip] - height) |-> At(tip, Height[tip] - i)]
ChainHashes(tip, height) ==
    [i \in 1 .. (Height[tip] - height) |-> At(tip, Height[tip] - i + 1)]

(* _reorg_detect() raises, and so returns None, or returns None when the    *)
(* new tip is not higher than the old one or extends it.                    *)
Detected(new, old) ==
    Height[new] > Height[old] /\ CommonParent(new, old) < Height[old]

(* ReorgInfo names its fields in another order than _reorg_detect() fills   *)
(* them, and connect_headers_reorg_safe() takes them apart.                 *)
Reorganised(new, old) ==
    LET common == CommonParent(new, old)
    IN  [kind |-> "reorg", start |-> At(new, common + 1), stop |-> new,
         old_chain |-> ChainHashes(old, common),
         new_chain |-> ChainHashes(new, common),
         common_height |-> common, old_tip |-> new, new_tip |-> old]

(* It takes a growing number of chains for the sign of a reorganisation.    *)
NewTipResult ==
    LET new == Tip(chains)
    IN  IF Len(chains) = call.count
        THEN [kind |-> "tip", start |-> call.first, stop |-> new]
        ELSE IF Detected(new, call.before) THEN Reorganised(new, call.before)
        ELSE [kind |-> "assertion"]

(* The write is done and the call returns.                                  *)
Return ==
    /\ pc = "write" /\ Unwritten = {}
    /\ pc' = "ready" /\ cursor' = CursorOf(chains)
    /\ answer' = IF call.safe THEN NewTipResult ELSE [kind |-> "connected"]
    /\ promised' = promised \cup call.headers
    /\ UNCHANGED <<chains, written, file, torn, todo, call>>

-----------------------------------------------------------------------------
(* The program crashes, or is stopped.  What the file holds is all that     *)
(* remains.                                                                 *)
Crash ==
    /\ pc \notin {"down", "broken"}
    /\ pc' = "down" /\ chains' = NoChains /\ cursor' = <<>> /\ written' = <<>>
    /\ todo' = <<>> /\ call' = NoCall /\ answer' = NoAnswer
    /\ torn' \in IF TornWrites /\ pc = "write" /\ Unwritten # {} THEN BOOLEAN ELSE {FALSE}
    /\ UNCHANGED <<file, promised>>

Next ==
    \/ Open \/ Load \/ Loaded
    \/ \E b \in Batches, safe \in Uses : Call(b, safe)
    \/ ConnectHeader \/ HeaderMissing \/ HeaderInvalid
    \/ BeginWrite \/ WriteHeader \/ Return
    \/ Crash

Spec == Init /\ [][Next]_vars

-----------------------------------------------------------------------------
(* Whenever a crash comes, the headers in the file connect in the order in  *)
(* which they are read back, and none is there twice (write_cached_headers  *)
(* appends what the cursor does not cover, chain after chain).              *)
FileReloads ==
    \A i \in DOMAIN file :
        /\ Parent[file[i]] \in {Genesis} \cup {file[j] : j \in 1 .. i - 1}
        /\ file[i] \notin {file[j] : j \in 1 .. i - 1}

(* A program that is started again has the chains it had persisted before,  *)
(* in the same order and so with the same tip, also when batches that did   *)
(* not connect have left headers that were written later.                   *)
ReloadsSame ==
    pc = "ready" =>
        FoldLeft(Connect, NoChains, file)
            = [i \in DOMAIN cursor |-> SubSeq(chains[i], 1, cursor[i])]

(* Both, so that no crash can make the file useless or the store another.   *)
CrashSafe == FileReloads /\ ReloadsSame

(* A reorganisation that is reported is reported exactly: the two lists of  *)
(* hashes are the blocks that only the old, and only the new, branch has,   *)
(* tip first, and the first block to fetch is the first of the new ones.    *)
ReorgExact ==
    answer.kind = "reorg" =>
        LET old == Branch[call.before]  new == Branch[Tip(chains)]
        IN  /\ ToSet(answer.old_chain) = old \ new /\ old \ new # {}
            /\ ToSet(answer.new_chain) = new \ old
            /\ answer.old_chain[1] = call.before /\ answer.new_chain[1] = answer.stop
            /\ answer.start = Last(answer.new_chain) /\ answer.stop = Tip(chains)

(* When the new tip extends the old one, the blocks from start_header to    *)
(* stop_header leave out none that is new, whatever part of the message was *)
(* known already or had been left by a message that failed.                 *)
TipContinuous ==
    answer.kind = "tip" /\ answer.stop # call.before /\ call.before \in Branch[answer.stop] =>
        /\ answer.start \in Branch[answer.stop]
        /\ Height[answer.start] <= Height[call.before] + 1

(* The store is the log that HeaderLog describes, over any number of        *)
(* crashes: what connect_headers() has answered True for is there again.    *)
HeaderLogOf == INSTANCE HeaderLog WITH
    known <- IF pc \in {"connect", "write", "ready"} THEN Known(chains)
             ELSE {Genesis} \cup ToSet(file),
    saved <- {Genesis} \cup ToSet(file),
    acked <- promised
ImplementsHeaderLog == HeaderLogOf!LogSpec

(* ReorgInfo.old_tip names the tip there was before (README.md:132-136).     *)
InfoNamesTips == answer.kind = "reorg" => answer.old_tip = call.before

(* README.md:67 says that the store "will detect reorgs when connecting to  *)
(* the new chain tip".  The code does when the batch begins a chain.        *)
ReorgsReported ==
    pc = "ready" /\ answer.kind \in {"tip", "reorg"} /\ call.before \notin Branch[answer.stop]
        => answer.kind = "reorg"
=============================================================================
