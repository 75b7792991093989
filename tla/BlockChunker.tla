---------------------------- MODULE BlockChunker ----------------------------
(***************************************************************************)
(* How a BitcoinClient reads a `block' message (client.py, handle_big_block *)
(* and handle_small_block; preprocessor.py).  A block of Limit bytes or     *)
(* more is read Limit bytes at a time, and after every read the handler     *)
(* on_block_chunk gets the bytes up to the end of the last whole            *)
(* transaction, with the offsets of its transactions; on_block comes at the *)
(* end.  A smaller block goes to on_block as a whole.                       *)
(*                                                                         *)
(* A block is its size and the set of offsets at which its transactions    *)
(* begin and end.  The bytes themselves are left out: skip_one_tx() returns *)
(* the end of the transaction at an offset when the buffer holds all of it, *)
(* and otherwise goes past the end of the buffer or raises.                 *)
(***************************************************************************)
EXTENDS Sequences, FiniteSetsExt

CONSTANTS
    Limit,      \* large_message_limit, the bytes read at a time
    Header,     \* bytes before the first transaction: 80 and the varint
    MaxSize,    \* bound on the size of a block
    MayExtend   \* the block may come in an extended message (extmsg)

ASSUME SizeAssumption ==
    Limit \in Nat /\ Header \in Nat \ {0} /\ Header <= Limit /\ MaxSize \in Nat
ASSUME FlagAssumption == MayExtend \in BOOLEAN

VARIABLES
    size,       \* header.length
    bounds,     \* offsets in the block where transactions begin and end
    checksum,   \* header.checksum is "right" or "wrong", or the "zero" of extmsg
    got,        \* block_bytes_read
    base,       \* offset in the block of the first byte of `stream'
    last,       \* last_tx_offset_in_chunk
    chunks,     \* the calls of on_block_chunk
    offsets,    \* tx_offsets_all; a set, as it is filled in ascending order
    outcome     \* how the reading has ended, or "reading"

block == <<size, bounds, checksum>>
vars  == <<block, got, base, last, chunks, offsets, outcome>>

Outcomes == {"reading", "block", "misbehaved", "failed", "reset"}

TypeOK ==
    /\ size \in Nat /\ bounds \subseteq 0..size
    /\ checksum \in {"right", "wrong", "zero"}
    /\ got \in 0..size /\ base \in 0..got /\ last \in 0..size
    /\ \A i \in 1..Len(chunks) :
          chunks[i] \in [from : 0..size, to : 0..size, starts : SUBSET (0..size)]
    /\ offsets \subseteq 0..size /\ outcome \in Outcomes

(* Any block a peer may send: the last transaction need not end the block,  *)
(* and the checksum may be wrong.  The header of an extended message, which *)
(* only a block too large for an ordinary one has, carries no checksum.     *)
Init ==
    /\ size \in Header + 1 .. MaxSize
    /\ \E E \in (SUBSET (Header + 1 .. size)) \ {{}} : bounds = E \cup {Header}
    /\ checksum \in {"right", "wrong"} \cup (IF MayExtend /\ size >= Limit
                                             THEN {"zero"} ELSE {})
    /\ got = 0 /\ base = 0 /\ last = 0
    /\ chunks = <<>> /\ offsets = {} /\ outcome = "reading"

-----------------------------------------------------------------------------
(* Definitions named ...Mutant change the one after them as a slip in the   *)
(* code would: they serve to show that the properties can fail.             *)

(* tx_preprocessor() on a buffer that holds the bytes of the block from     *)
(* `from' up to `to', whose first transaction begins at `offset' in the     *)
(* buffer: where its whole transactions begin, and where the last one ends. *)
(* Both are moved by `adjustment', except that without a whole transaction  *)
(* the second is plain `offset'.                                            *)
StrictEndMutant(from, to, offset, adjustment) ==
    LET whole == {b \in bounds : from + offset < b /\ b < to}
    IN IF whole = {}
       THEN [starts |-> {}, end |-> offset]
       ELSE [starts |-> {b - from + adjustment :
                           b \in {c \in bounds : from + offset <= c /\ c < Max(whole)}},
             end    |-> Max(whole) - from + adjustment]
NoPopMutant(from, to, offset, adjustment) ==
    LET whole == {b \in bounds : from + offset < b /\ b <= to}
    IN [starts |-> {b - from + adjustment : b \in whole \cup {from + offset}},
        end    |-> IF whole = {} THEN offset ELSE Max(whole) - from + adjustment]
tx_preprocessor(from, to, offset, adjustment) ==
    LET whole == {b \in bounds : from + offset < b /\ b <= to}
    IN IF whole = {}
       THEN [starts |-> {}, end |-> offset]
       ELSE [starts |-> {b - from + adjustment :
                           b \in {c \in bounds : from + offset <= c /\ c < Max(whole)}},
             end    |-> Max(whole) - from + adjustment]

(* One turn of the loop of handle_big_block().  A negative position makes   *)
(* stream.seek() raise ValueError, which start_session() takes for a        *)
(* misbehaving peer.                                                        *)
KeepAllMutant ==
    LET to         == Min({size, got + Limit})
        offset     == IF chunks = <<>> THEN Header ELSE 0
        adjustment == IF chunks = <<>> THEN 0 ELSE last
        p          == tx_preprocessor(base, to, offset, adjustment)
        slice      == p.end - adjustment
    IN /\ outcome = "reading" /\ size >= Limit /\ got < size
       /\ got' = to /\ last' = p.end /\ offsets' = offsets \cup p.starts
       /\ slice >= 0
       /\ chunks' = Append(chunks, [from |-> base, to |-> base + slice,
                                    starts |-> p.starts])
       /\ UNCHANGED <<block, base, outcome>>
ReadChunk ==
    LET to         == Min({size, got + Limit})
        offset     == IF chunks = <<>> THEN Header ELSE 0
        adjustment == IF chunks = <<>> THEN 0 ELSE last
        p          == tx_preprocessor(base, to, offset, adjustment)
        slice      == p.end - adjustment
    IN /\ outcome = "reading" /\ size >= Limit /\ got < size
       /\ got' = to
       /\ last' = p.end
       /\ offsets' = offsets \cup p.starts
       /\ \/ /\ slice < 0
             /\ outcome' = "misbehaved"
             /\ UNCHANGED <<base, chunks>>
          \/ /\ slice >= 0
             /\ chunks' = Append(chunks, [from |-> base, to |-> base + slice,
                                          starts |-> p.starts])
             /\ base' = base + slice
             /\ UNCHANGED outcome
       /\ UNCHANGED block

(* After the loop: the assertions (an AssertionError ends the session), the *)
(* checksum (ValueError), and on_block.                                     *)
NoAssertMutant ==
    /\ outcome = "reading" /\ size >= Limit /\ got = size
    /\ outcome' = IF checksum = "right" THEN "block" ELSE "misbehaved"
    /\ UNCHANGED <<block, got, base, last, chunks, offsets>>
FinishBlock ==
    /\ outcome = "reading" /\ size >= Limit /\ got = size
    /\ outcome' = CASE last # size \/ base # size                     -> "failed"
                    [] last = size /\ base = size /\ checksum = "right" -> "block"
                    [] OTHER                                            -> "misbehaved"
    /\ UNCHANGED <<block, got, base, last, chunks, offsets>>

(* read_small_payload() checks the checksum of a block below the limit, and *)
(* handle_small_block() gives it to on_block in one piece.                  *)
SmallBlock ==
    LET p == tx_preprocessor(0, size, Header, 0)
    IN /\ outcome = "reading" /\ size < Limit
       /\ got' = size
       /\ \/ checksum # "right" /\ outcome' = "misbehaved" /\ UNCHANGED <<last, offsets>>
          \/ /\ checksum = "right"
             /\ last' = p.end /\ offsets' = p.starts
             /\ outcome' = IF p.end = size THEN "block" ELSE "failed"
       /\ UNCHANGED <<block, base, chunks>>

(* IncompleteReadError: the connection ends while a read is waiting.        *)
Disconnect ==
    /\ outcome = "reading" /\ got < size
    /\ outcome' = "reset"
    /\ UNCHANGED <<block, got, base, last, chunks, offsets>>

Next == ReadChunk \/ FinishBlock \/ SmallBlock \/ Disconnect
Spec == Init /\ [][Next]_vars

-----------------------------------------------------------------------------
(* The chunks tile the block, each starting where the one before has ended, *)
(* and the next read continues after the last.  A chunk holds whole          *)
(* transactions, and the offsets that come with it are exactly theirs        *)
(* (comment in handle_big_block: `tx_offsets_for_chunk' corresponds exactly  *)
(* to `slice_for_worker').                                                  *)
ChunksExact ==
    /\ chunks # <<>> => base = chunks[Len(chunks)].to
    /\ \A i \in 1..Len(chunks) :
          /\ chunks[i].from = (IF i = 1 THEN 0 ELSE chunks[i - 1].to)
          /\ chunks[i].to \in bounds
          /\ chunks[i].starts = {b \in bounds : chunks[i].from <= b /\ b < chunks[i].to}

(* on_block comes only when every transaction up to the last byte has been  *)
(* delivered, with the offsets of all of them.                              *)
BlockComplete ==
    outcome = "block" =>
        /\ offsets = bounds \ {size} /\ size \in bounds
        /\ size >= Limit => base = size

(* handle_big_block() exists so as not to hold a block in memory: what it   *)
(* keeps from one read to the next is shorter than a read.                  *)
BufferBounded == outcome = "reading" => got - base < Limit

(* The block of a correct node is not taken for misbehaviour, provided that *)
(* it came in an ordinary message and no transaction is longer than a read. *)
WellFormed   == size \in bounds /\ checksum # "wrong"
Narrow       == \A e \in bounds \ {Header} : \E d \in bounds : d < e /\ e - d <= Limit
Refused      == outcome \in {"misbehaved", "failed"}
AcceptsNarrow == WellFormed /\ Narrow /\ checksum = "right" => ~Refused

(* The same of every block (README, Specialized Block Handling: a very large *)
(* transaction is spliced together over several reads).                     *)
AcceptsAll == WellFormed => ~Refused
=============================================================================
