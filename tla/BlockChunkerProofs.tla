------------------------- MODULE BlockChunkerProofs -------------------------
(***************************************************************************)
(* Proofs about the reading of blocks, for every limit, every size and      *)
(* every set of transactions.                                               *)
(*                                                                         *)
(* Between two reads of a large block the three positions that the code     *)
(* keeps tell the same story: `last' is where the stream begins, the        *)
(* offsets are those of the transactions before it, and no transaction ends *)
(* between it and the bytes read so far (ReadInv).  The last part is what   *)
(* bounds the buffer, and what makes a read without a whole transaction,    *)
(* which the code takes for misbehaviour, impossible when no transaction is *)
(* longer than a read.                                                      *)
(***************************************************************************)
EXTENDS BlockChunker, Integers, SequencesExt, SequenceTheorems, WellFoundedInduction, TLAPS

-----------------------------------------------------------------------------
(* Numbers.  A fact about all of them is proved by looking at the least for  *)
(* which it would be false: that there is one follows from a theorem of the  *)
(* library about well-founded relations.                                     *)

(* The library's theorem on minimal elements takes a relation, not an       *)
(* operator: for < on the naturals it says that a set has a least element.  *)
LEMMA LeastNatural ==
    ASSUME NEW T \in SUBSET Nat, T # {}
    PROVE  \E n \in T : \A m \in T : n <= m
<1> DEFINE R == {ss \in Nat \X Nat : ss[1] < ss[2]}
<1>1. IsWellFoundedOn(R, Nat)
  BY NatLessThanWellFounded DEF OpToRel
<1>2. \A x, y \in Nat : y < x => <<y, x>> \in R
  OBVIOUS
<1> HIDE DEF R
<1>3. PICK x \in T : \A y \in T : ~ (<<y, x>> \in R)
  BY <1>1, WFMin
<1>4. \A y \in T : ~ (y < x)
  BY <1>2, <1>3, Zenon
<1>5. \A y \in T : x <= y
  BY <1>4
<1> QED BY <1>5

(* A set of naturals with an upper bound has a greatest element, Max.       *)
LEMMA GreatestNatural ==
    ASSUME NEW n \in Nat, NEW T \in SUBSET (0..n), T # {}
    PROVE  \E x \in T : \A y \in T : y <= x
<1> DEFINE U == {m \in Nat : \A y \in T : y <= m}
<1>1. n \in U
  OBVIOUS
<1>2. PICK x \in U : \A m \in U : x <= m
  BY <1>1, LeastNatural
<1>3. ASSUME x \notin T PROVE FALSE
  <2>1. \A y \in T : y < x
    BY <1>2, <1>3
  <2>2. x > 0
    <3>1. PICK y \in T : TRUE
      OBVIOUS
    <3> QED BY <2>1, <3>1
  <2>3. x - 1 \in U
    BY <2>1, <2>2
  <2> QED BY <1>2, <2>3
<1> QED BY <1>2, <1>3

(* The greatest of a bounded set of naturals, with Max of the community     *)
(* modules.                                                                 *)
LEMMA MaxBounded ==
    ASSUME NEW n \in Nat, NEW T \in SUBSET (0..n), T # {}
    PROVE  Max(T) \in T /\ \A y \in T : y <= Max(T)
BY GreatestNatural DEF Max

(* The lesser of two.                                                       *)
LEMMA MinPair ==
    ASSUME NEW a \in Nat, NEW b \in Nat
    PROVE  Min({a, b}) = IF a <= b THEN a ELSE b
BY DEF Min

-----------------------------------------------------------------------------
Chunk == [from : 0..size, to : 0..size, starts : SUBSET (0..size)]

(* The type, and what a block is.                                           *)
BlockInv ==
    /\ size \in Nat /\ Header < size
    /\ bounds \in SUBSET (Header..size) /\ Header \in bounds
    /\ \E e \in bounds : Header < e
    /\ checksum \in {"right", "wrong", "zero"} /\ outcome \in Outcomes
    /\ got \in 0..size /\ base \in 0..got /\ last \in 0..size
    /\ chunks \in Seq(Chunk) /\ offsets \in SUBSET (0..size)

ReadInv ==
    outcome = "reading" =>
        /\ last = base /\ offsets = {b \in bounds : b < base}
        /\ chunks = <<>> => got = 0 /\ base = 0
        /\ chunks # <<>> =>
              /\ base \in bounds /\ got - base < Limit
              /\ \A b \in bounds : ~(base < b /\ b <= got)

Inv == BlockInv /\ ReadInv /\ ChunksExact /\ BlockComplete /\ AcceptsNarrow

(* Before the first read nothing is delivered.                              *)
LEMMA InitInv == Init => Inv
<1> SUFFICES ASSUME Init PROVE Inv
  OBVIOUS
<1> USE SizeAssumption
<1>1. PICK E \in (SUBSET (Header + 1 .. size)) \ {{}} : bounds = E \cup {Header}
  BY DEF Init
<1>2. /\ size \in Nat /\ Header < size /\ checksum \in {"right", "wrong", "zero"}
      /\ got = 0 /\ base = 0 /\ last = 0 /\ offsets = {} /\ outcome = "reading"
      /\ chunks = <<>>
  BY DEF Init
<1>3. bounds \in SUBSET (Header..size) /\ Header \in bounds
  BY <1>1, <1>2
<1>4. \E e \in bounds : Header < e
  BY <1>1, <1>2
<1>5. BlockInv
  BY <1>2, <1>3, <1>4 DEF BlockInv, Outcomes
<1>b. \A b \in bounds : ~(b < base)
  BY <1>2, <1>3
<1>6. {b \in bounds : b < base} = {}
  BY <1>b, Zenon
<1>7. ReadInv
  BY <1>2, <1>6 DEF ReadInv
<1> QED BY <1>2, <1>5, <1>7 DEF Inv, ChunksExact, BlockComplete, AcceptsNarrow, Refused

-----------------------------------------------------------------------------
(* The end of the read that follows.                                        *)
To == IF size <= got + Limit THEN size ELSE got + Limit

(* A read ends in one of two ways: there is no whole transaction in the     *)
(* buffer, which happens only after the first read; or everything up to e,  *)
(* the last end of a transaction in the buffer, is delivered.               *)
NothingWhole ==
    /\ chunks # <<>> /\ \A b \in bounds : ~(base < b /\ b <= To)
    /\ outcome' = "misbehaved" /\ last' = 0 /\ offsets' = offsets
    /\ UNCHANGED <<base, chunks>>
DeliveredTo(e) ==
    /\ base < e /\ e <= To /\ \A b \in bounds : b <= To => b <= e
    /\ last' = e /\ base' = e
    /\ offsets' = offsets \cup {b \in bounds : base <= b /\ b < e}
    /\ chunks' = Append(chunks, [from |-> base, to |-> e,
                                 starts |-> {b \in bounds : base <= b /\ b < e}])
    /\ UNCHANGED outcome

(* No transaction ends within what is looked at: tx_preprocessor() finds    *)
(* none.                                                                    *)
LEMMA PreprocessNothing ==
    ASSUME NEW from, NEW to, NEW offset, NEW adjustment,
           \A b \in bounds : ~(from + offset < b /\ b <= to)
    PROVE  tx_preprocessor(from, to, offset, adjustment) = [starts |-> {}, end |-> offset]
<1>1. {b \in bounds : from + offset < b /\ b <= to} = {}
  OBVIOUS
<1> QED BY <1>1 DEF tx_preprocessor

SomeWhole(from, to, offset, adjustment, e) ==
    /\ from + offset < e /\ e <= to /\ \A b \in bounds : b <= to => b <= e
    /\ tx_preprocessor(from, to, offset, adjustment) =
          [starts |-> {b - from + adjustment :
                         b \in {c \in bounds : from + offset <= c /\ c < e}},
           end    |-> e - from + adjustment]

(* One does: it stops at the last end e within it, having noted every       *)
(* transaction that starts before e.                                        *)
LEMMA PreprocessSome ==
    ASSUME BlockInv, NEW from \in Nat, NEW to \in Nat, NEW offset \in Nat,
           NEW adjustment \in Nat,
           \E b \in bounds : from + offset < b /\ b <= to
    PROVE  \E e \in bounds : SomeWhole(from, to, offset, adjustment, e)
<1> DEFINE whole == {b \in bounds : from + offset < b /\ b <= to}
<1> USE SizeAssumption
<1>1. size \in Nat
  BY DEF BlockInv
<1>3. \A b \in bounds : b \in 0..size /\ b \in Nat
  <2> SUFFICES ASSUME NEW b \in bounds PROVE b \in 0..size /\ b \in Nat
    OBVIOUS
  <2>1. b \in Header..size
    BY DEF BlockInv
  <2> QED BY <1>1, <2>1
<1>4. whole \in SUBSET (0..size) /\ whole # {}
  BY <1>3
<1>5. PICK e \in whole : e = Max(whole) /\ \A y \in whole : y <= e
  BY <1>1, <1>4, MaxBounded
<1> HIDE DEF whole
<1>6. tx_preprocessor(from, to, offset, adjustment) =
          [starts |-> {b - from + adjustment :
                         b \in {c \in bounds : from + offset <= c /\ c < Max(whole)}},
           end    |-> Max(whole) - from + adjustment]
  BY <1>4 DEF tx_preprocessor, whole
<1>7. tx_preprocessor(from, to, offset, adjustment) =
          [starts |-> {b - from + adjustment :
                         b \in {c \in bounds : from + offset <= c /\ c < e}},
           end    |-> e - from + adjustment]
  BY <1>5, <1>6, Zenon
<1>8. e \in bounds /\ from + offset < e /\ e <= to
  BY <1>5 DEF whole
<1>9. \A b \in bounds : b <= to => b <= e
  <2> SUFFICES ASSUME NEW b \in bounds, b <= to, ~(b <= e)
               PROVE  FALSE
    OBVIOUS
  <2>1. from + offset < b
    BY <1>3, <1>8
  <2> QED BY <1>5, <2>1 DEF whole
<1> QED BY <1>7, <1>8, <1>9 DEF SomeWhole

(* Every read of handle_big_block() ends in one of the two ways.            *)
LEMMA ReadResult ==
    ASSUME BlockInv, ReadInv, ReadChunk
    PROVE  /\ got' = To /\ To \in got+1 .. size /\ UNCHANGED block
           /\ NothingWhole \/ \E e \in bounds : DeliveredTo(e)
<1> USE SizeAssumption
<1>1. /\ outcome = "reading" /\ size >= Limit /\ got < size
      /\ size \in Nat /\ got \in 0..size /\ base \in 0..got /\ last = base
      /\ chunks \in Seq(Chunk) /\ Limit \in Nat /\ Header \in Nat /\ Header > 0
      /\ offsets = {b \in bounds : b < base}
  BY DEF ReadChunk, BlockInv, ReadInv
<1>2. Min({size, got + Limit}) = To
  BY <1>1, MinPair DEF To
<1>3. To \in got+1 .. size /\ To \in Nat
  BY <1>1 DEF To
<1>4. got' = To /\ UNCHANGED block
  BY <1>2 DEF ReadChunk
<1>b. \A b \in bounds : b \in Nat /\ Header <= b /\ b <= size
  BY <1>1 DEF BlockInv
<1> DEFINE offset     == IF chunks = <<>> THEN Header ELSE 0
           adjustment == IF chunks = <<>> THEN 0 ELSE last
           p          == tx_preprocessor(base, To, offset, adjustment)
           slice      == p.end - adjustment
<1>5. /\ last' = p.end /\ offsets' = offsets \cup p.starts
      /\ \/ /\ slice < 0 /\ outcome' = "misbehaved" /\ UNCHANGED <<base, chunks>>
         \/ /\ slice >= 0
            /\ chunks' = Append(chunks, [from |-> base, to |-> base + slice,
                                         starts |-> p.starts])
            /\ base' = base + slice
            /\ UNCHANGED outcome
  BY <1>2 DEF ReadChunk
<1>6. offset \in Nat /\ adjustment \in Nat
  BY <1>1
<1> HIDE DEF offset, adjustment
<1>7. CASE chunks = <<>>
  <2>1. got = 0 /\ base = 0 /\ offset = Header /\ adjustment = 0
    BY <1>1, <1>7 DEF ReadInv, offset, adjustment
  <2>2. Header <= To
    BY <1>1, <2>1 DEF To
  <2>3. CASE \A b \in bounds : ~(base + offset < b /\ b <= To)
    <3>1. p = [starts |-> {}, end |-> Header]
      <4>1. p = [starts |-> {}, end |-> offset]
        BY <2>3, PreprocessNothing
      <4> QED BY <2>1, <4>1
    <3>2. slice = Header /\ base + slice = Header
      BY <2>1, <3>1, <1>1
    <3>a. \A b \in bounds : ~(b < Header)
      BY <1>b, <1>1
    <3>3. {b \in bounds : base <= b /\ b < Header} = {}
      BY <3>a, Zenon
    <3>4. \A b \in bounds : b <= To => b <= Header
      BY <2>1, <2>3, <1>b, <1>1
    <3>5. Header \in bounds
      BY DEF BlockInv
    <3>6. p.starts = {b \in bounds : base <= b /\ b < Header} /\ p.end = Header
      BY <2>1, <3>1, <3>3
    <3>7. ~(slice < 0) /\ base < Header
      BY <1>1, <2>1, <3>2
    <3> HIDE DEF p, slice
    <3>8. DeliveredTo(Header)
      BY <1>5, <2>2, <3>2, <3>4, <3>6, <3>7 DEF DeliveredTo
    <3> QED BY <1>3, <1>4, <3>5, <3>8
  <2>4. CASE \E b \in bounds : base + offset < b /\ b <= To
    <3>0. PICK e \in bounds : SomeWhole(base, To, offset, adjustment, e)
      <4>1. base \in Nat
        BY <1>1
      <4> QED BY <4>1, <1>3, <1>6, <2>4, PreprocessSome
    <3>1. /\ base + offset < e /\ e <= To /\ \A b \in bounds : b <= To => b <= e
          /\ p = [starts |-> {b - base + adjustment :
                                b \in {c \in bounds : base + offset <= c /\ c < e}},
                  end    |-> e - base + adjustment]
      BY <3>0 DEF SomeWhole
    <3>a. \A b \in bounds : b - base + adjustment = b /\ (base + offset <= b <=> base <= b)
      BY <1>1, <1>b, <2>1
    <3>2. {b - base + adjustment : b \in {c \in bounds : base + offset <= c /\ c < e}}
              = {b \in bounds : base <= b /\ b < e}
      BY <3>a
    <3>3. e - base + adjustment = e /\ p.end = e /\ slice = e /\ base + slice = e /\ base < e
      <4>1. e - base + adjustment = e /\ base < e
        BY <1>1, <1>b, <2>1, <3>1
      <4>2. p.end = e
        BY <3>1, <4>1
      <4> HIDE DEF p
      <4> QED BY <1>1, <1>b, <2>1, <4>1, <4>2
    <3>4. p.starts = {b \in bounds : base <= b /\ b < e} /\ p.end = e
      BY <3>1, <3>2, <3>3
    <3>5. ~(slice < 0)
      BY <1>b, <3>3
    <3> HIDE DEF p, slice
    <3>6. DeliveredTo(e)
      BY <1>5, <3>1, <3>3, <3>4, <3>5 DEF DeliveredTo
    <3> QED BY <1>3, <1>4, <3>6
  <2> QED BY <2>3, <2>4
<1>8. CASE chunks # <<>>
  <2>1. offset = 0 /\ adjustment = base /\ base \in bounds
    BY <1>1, <1>8 DEF ReadInv, offset, adjustment
  <2>2. base > 0
    BY <1>1, <1>b, <2>1
  <2>3. CASE \A b \in bounds : ~(base + offset < b /\ b <= To)
    <3>1. p = [starts |-> {}, end |-> 0]
      <4>1. p = [starts |-> {}, end |-> offset]
        BY <2>3, PreprocessNothing
      <4> QED BY <2>1, <4>1
    <3>2. slice < 0 /\ ~(slice >= 0)
      BY <1>1, <2>1, <2>2, <3>1
    <3>3. \A b \in bounds : ~(base < b /\ b <= To)
      BY <1>1, <2>1, <2>3
    <3> HIDE DEF slice, p
    <3>4. NothingWhole
      BY <1>1, <1>5, <1>8, <3>1, <3>2, <3>3 DEF NothingWhole
    <3> QED BY <1>3, <1>4, <3>4
  <2>4. CASE \E b \in bounds : base + offset < b /\ b <= To
    <3>0. PICK e \in bounds : SomeWhole(base, To, offset, adjustment, e)
      <4>1. base \in Nat
        BY <1>1
      <4> QED BY <4>1, <1>3, <1>6, <2>4, PreprocessSome
    <3>1. /\ base + offset < e /\ e <= To /\ \A b \in bounds : b <= To => b <= e
          /\ p = [starts |-> {b - base + adjustment :
                                b \in {c \in bounds : base + offset <= c /\ c < e}},
                  end    |-> e - base + adjustment]
      BY <3>0 DEF SomeWhole
    <3>a. \A b \in bounds : b - base + adjustment = b /\ (base + offset <= b <=> base <= b)
      BY <1>1, <1>b, <2>1
    <3>2. {b - base + adjustment : b \in {c \in bounds : base + offset <= c /\ c < e}}
              = {b \in bounds : base <= b /\ b < e}
      BY <3>a
    <3>3. e - base + adjustment = e /\ base < e
      BY <1>1, <1>b, <2>1, <3>1
    <3>5. p.starts = {b \in bounds : base <= b /\ b < e} /\ p.end = e
      BY <3>1, <3>2, <3>3
    <3> HIDE DEF p
    <3>b. e \in Nat /\ base \in Nat /\ base < e /\ slice = e - base
      BY <1>1, <1>b, <2>1, <3>3, <3>5
    <3> HIDE DEF slice
    <3>4. slice = e - base /\ slice >= 0 /\ base + slice = e
      BY <3>b
    <3>6. ~(slice < 0)
      BY <1>1, <1>b, <3>3, <3>4
    <3> HIDE DEF slice
    <3>7. DeliveredTo(e)
      BY <1>5, <3>1, <3>3, <3>4, <3>5, <3>6 DEF DeliveredTo
    <3> QED BY <1>3, <1>4, <3>7
  <2> QED BY <2>3, <2>4
<1> QED BY <1>7, <1>8

-----------------------------------------------------------------------------
(* The numbers in play are naturals, in this order.                         *)
LEMMA BoundsType ==
    ASSUME BlockInv
    PROVE  /\ \A b \in bounds : b \in 0..size /\ b \in Nat /\ Header <= b /\ b <= size
           /\ size \in Nat /\ got \in Nat /\ base \in Nat /\ Limit \in Nat /\ Header \in Nat
           /\ base <= got /\ got <= size /\ 0 < Header /\ 0 < Limit /\ Header <= Limit
<1> USE SizeAssumption
<1>1. size \in Nat /\ got \in 0..size /\ base \in 0..got
  BY DEF BlockInv
<1>2. ASSUME NEW b \in bounds PROVE b \in Header..size
  BY DEF BlockInv
<1> QED BY <1>1, <1>2

(* What a read delivers extends the chunks by one that starts where they    *)
(* end.                                                                     *)
LEMMA ReadChunksExact ==
    ASSUME BlockInv, ReadInv, ChunksExact, outcome = "reading", UNCHANGED block,
           NEW e \in bounds, DeliveredTo(e)
    PROVE  ChunksExact' /\ chunks' \in Seq(Chunk)
<1> DEFINE new == [from |-> base, to |-> e, starts |-> {b \in bounds : base <= b /\ b < e}]
<1>1. base \in 0..size /\ e \in 0..size /\ \A b \in bounds : b \in 0..size
  BY BoundsType
<1>2. new \in Chunk
  BY <1>1 DEF Chunk
<1>3. chunks \in Seq(Chunk) /\ Len(chunks) \in Nat
  BY DEF BlockInv
<1>4. chunks' = Append(chunks, new)
  BY DEF DeliveredTo
<1>5. new.from = base /\ new.to = e /\ new.starts = {b \in bounds : base <= b /\ b < e}
  OBVIOUS
<1> HIDE DEF new
<1>6. /\ Len(chunks') = Len(chunks) + 1 /\ chunks'[Len(chunks) + 1] = new
      /\ \A i \in 1..Len(chunks) : chunks'[i] = chunks[i]
  BY <1>2, <1>3, <1>4
<1>7. base = (IF Len(chunks) + 1 = 1 THEN 0 ELSE chunks[Len(chunks)].to)
  BY <1>3 DEF ReadInv, ChunksExact
<1>8. bounds' = bounds /\ base' = e /\ chunks' # <<>>
  BY <1>2, <1>3, <1>4 DEF DeliveredTo, block
<1>9. ASSUME NEW i \in 1..Len(chunks')
      PROVE  /\ chunks'[i].from = (IF i = 1 THEN 0 ELSE chunks'[i - 1].to)
             /\ chunks'[i].to \in bounds
             /\ chunks'[i].starts = {b \in bounds : chunks'[i].from <= b /\ b < chunks'[i].to}
  <2>1. CASE i = Len(chunks) + 1
    <3>1. chunks'[i] = new
      BY <1>6, <2>1
    <3>2. i # 1 => chunks'[i - 1] = chunks[Len(chunks)]
      BY <1>3, <1>6, <2>1
    <3>3. new.from = (IF i = 1 THEN 0 ELSE chunks'[i - 1].to)
      BY <1>5, <1>7, <2>1, <3>2
    <3> QED BY <1>5, <3>1, <3>3
  <2>2. CASE i \in 1..Len(chunks)
    <3>1. chunks'[i] = chunks[i]
      BY <1>6, <2>2
    <3>2. i # 1 => chunks'[i - 1] = chunks[i - 1]
      BY <1>3, <1>6, <2>2
    <3> QED BY <2>2, <3>1, <3>2 DEF ChunksExact
  <2> QED BY <1>3, <1>6, <2>1, <2>2
<1>10. base' = chunks'[Len(chunks')].to
  BY <1>5, <1>6, <1>8
<1>11. chunks' \in Seq(Chunk)
  BY <1>2, <1>3, <1>4
<1> QED BY <1>8, <1>9, <1>10, <1>11 DEF ChunksExact

(* When no transaction is longer than a read, each read but the first also  *)
(* holds the end of one.                                                    *)
LEMMA NarrowReads ==
    ASSUME BlockInv, ReadInv, outcome = "reading", got < size, size \in bounds, Narrow
    PROVE  ~NothingWhole
<1> SUFFICES ASSUME NothingWhole PROVE FALSE
  OBVIOUS
<1>1. /\ chunks # <<>> /\ base \in bounds /\ got - base < Limit
      /\ \A b \in bounds : ~(base < b /\ b <= To)
  BY DEF NothingWhole, ReadInv
<1> DEFINE T == {b \in bounds : base < b}
<1>2. T \in SUBSET Nat /\ size \in T
  BY BoundsType
<1>3. PICK e \in T : \A b \in T : e <= b
  BY <1>2, LeastNatural
<1>4. e \in bounds /\ base < e /\ \A b \in bounds : base < b => e <= b
  BY <1>3
<1>5. e # Header
  BY <1>1, <1>4, BoundsType
<1>6. PICK d \in bounds : d < e /\ e - d <= Limit
  BY <1>4, <1>5 DEF Narrow
<1>7. d <= base
  BY <1>4, <1>6, BoundsType
<1>8. e <= got + Limit /\ e <= size
  BY <1>4, <1>6, <1>7, BoundsType
<1>9. e <= To
  BY <1>8 DEF To
<1> QED BY <1>1, <1>4, <1>9

(* A read keeps the invariant.                                              *)
LEMMA ReadStep == Inv /\ ReadChunk => Inv'
<1> SUFFICES ASSUME Inv, ReadChunk PROVE Inv'
  OBVIOUS
<1>1. BlockInv /\ ReadInv /\ ChunksExact /\ outcome = "reading" /\ got < size
      /\ size >= Limit
  BY DEF Inv, ReadChunk
<1>2. /\ got' = To /\ To \in got+1 .. size /\ UNCHANGED block
      /\ NothingWhole \/ \E e \in bounds : DeliveredTo(e)
  BY <1>1, ReadResult
<1>3. UNCHANGED <<size, bounds, checksum>>
  BY <1>2 DEF block
<1>4. CASE NothingWhole
  <2>1. /\ outcome' = "misbehaved" /\ last' = 0 /\ offsets' = offsets
        /\ base' = base /\ chunks' = chunks /\ Chunk' = Chunk
    BY <1>3, <1>4 DEF NothingWhole, Chunk
  <2>2. got' \in 0..size /\ base' \in 0..got' /\ last' \in 0..size
    BY <1>1, <1>2, <2>1, BoundsType
  <2>3. BlockInv'
    BY <1>1, <1>3, <2>1, <2>2 DEF BlockInv, Outcomes
  <2>4. ReadInv' /\ BlockComplete' /\ ChunksExact'
    BY <1>1, <1>3, <2>1 DEF ReadInv, BlockComplete, ChunksExact
  <2>5. AcceptsNarrow'
    BY <1>1, <1>3, <1>4, NarrowReads DEF AcceptsNarrow, WellFormed, Narrow
  <2> QED BY <2>3, <2>4, <2>5 DEF Inv
<1>5. ASSUME NEW e \in bounds, DeliveredTo(e) PROVE Inv'
  <2>1. ChunksExact' /\ chunks' \in Seq(Chunk)
    BY <1>1, <1>2, <1>5, ReadChunksExact
  <2>2. /\ base < e /\ e <= To /\ \A b \in bounds : b <= To => b <= e
        /\ last' = e /\ base' = e /\ outcome' = "reading"
        /\ offsets' = offsets \cup {b \in bounds : base <= b /\ b < e}
        /\ chunks' # <<>> /\ Chunk' = Chunk
    <3>1. [from |-> base, to |-> e, starts |-> {b \in bounds : base <= b /\ b < e}] \in Chunk
      BY <1>1, BoundsType DEF Chunk
    <3>2. chunks' # <<>>
      BY <1>1, <1>5, <3>1 DEF DeliveredTo, BlockInv
    <3> QED BY <1>1, <1>3, <1>5, <3>2 DEF DeliveredTo, Chunk
  <2>3. got' \in 0..size /\ base' \in 0..got' /\ last' \in 0..size
    BY <1>1, <1>2, <2>2, BoundsType
  <2>4. offsets' = {b \in bounds : b < e}
    <3>1. offsets = {b \in bounds : b < base}
      BY <1>1 DEF ReadInv
    <3>2. \A b \in bounds : b < e <=> b < base \/ (base <= b /\ b < e)
      BY <1>1, <2>2, BoundsType
    <3> QED BY <2>2, <3>1, <3>2
  <2>5. offsets' \in SUBSET (0..size)
    BY <1>1, <2>4, BoundsType
  <2>6. BlockInv'
    BY <1>1, <1>3, <2>1, <2>2, <2>3, <2>5 DEF BlockInv
  <2>7. got' - base' < Limit /\ \A b \in bounds : ~(base' < b /\ b <= got')
    <3>1. chunks = <<>> => got - e < 0
      BY <1>1, <2>2, BoundsType DEF ReadInv
    <3>2. chunks # <<>> => got < e
      BY <1>1, <2>2, BoundsType DEF ReadInv
    <3>3. To <= got + Limit
      BY <1>1, BoundsType DEF To
    <3> QED BY <1>1, <1>2, <2>2, <3>1, <3>2, <3>3, BoundsType
  <2>8. ReadInv'
    BY <1>3, <2>2, <2>4, <2>7 DEF ReadInv
  <2>9. BlockComplete' /\ AcceptsNarrow'
    BY <2>2 DEF BlockComplete, AcceptsNarrow, Refused
  <2> QED BY <2>1, <2>6, <2>8, <2>9 DEF Inv
<1> QED BY <1>2, <1>4, <1>5

(* So does the end of the loop,                                             *)
LEMMA FinishStep == Inv /\ FinishBlock => Inv'
<1> SUFFICES ASSUME Inv, FinishBlock PROVE Inv'
  OBVIOUS
<1>1. BlockInv /\ ReadInv /\ ChunksExact
  BY DEF Inv
<1>2. /\ outcome = "reading" /\ size >= Limit /\ got = size
      /\ UNCHANGED <<size, bounds, checksum, got, base, last, chunks, offsets>>
  BY DEF FinishBlock, block
<1>3. /\ outcome' \in {"block", "misbehaved", "failed"}
      /\ outcome' = "block" => last = size /\ base = size
      /\ last = size /\ base = size /\ checksum = "right" => outcome' = "block"
  BY DEF FinishBlock
<1>4. chunks # <<>>
  BY <1>1, <1>2, BoundsType DEF ReadInv
<1>5. base \in bounds /\ last = base /\ offsets = {b \in bounds : b < base}
  BY <1>1, <1>2, <1>4 DEF ReadInv
<1>6. BlockInv'
  BY <1>1, <1>2, <1>3 DEF BlockInv, Outcomes, Chunk
<1>7. ReadInv' /\ ChunksExact'
  BY <1>1, <1>2, <1>3 DEF ReadInv, ChunksExact
<1>8. base = size => offsets = bounds \ {size} /\ size \in bounds
  BY <1>1, <1>5, BoundsType
<1>9. BlockComplete'
  BY <1>2, <1>3, <1>8 DEF BlockComplete
<1>10. size \in bounds => base = size
  BY <1>1, <1>2, <1>4, BoundsType DEF ReadInv
<1>11. AcceptsNarrow'
  BY <1>2, <1>3, <1>5, <1>10 DEF AcceptsNarrow, WellFormed, Refused
<1> QED BY <1>6, <1>7, <1>9, <1>11 DEF Inv

(* and so does handle_small_block().                                        *)
LEMMA SmallStep == Inv /\ SmallBlock => Inv'
<1> SUFFICES ASSUME Inv, SmallBlock PROVE Inv'
  OBVIOUS
<1>1. BlockInv /\ ReadInv /\ ChunksExact /\ outcome = "reading" /\ size < Limit
  BY DEF Inv, SmallBlock
<1>2. UNCHANGED <<size, bounds, checksum, base, chunks>> /\ got' = size
  BY DEF SmallBlock, block
<1>3. got' \in 0..size /\ base' \in 0..got' /\ Chunk' = Chunk
  BY <1>1, <1>2, BoundsType DEF Chunk
<1>4. CASE checksum # "right" /\ outcome' = "misbehaved" /\ UNCHANGED <<last, offsets>>
  <2>1. BlockInv'
    BY <1>1, <1>2, <1>3, <1>4 DEF BlockInv, Outcomes
  <2> QED BY <1>1, <1>2, <1>4, <2>1
          DEF Inv, ReadInv, ChunksExact, BlockComplete, AcceptsNarrow
<1>5. CASE checksum = "right"
  <2>1. PICK x \in bounds : Header < x
    BY <1>1 DEF BlockInv
  <2>2. \E b \in bounds : 0 + Header < b /\ b <= size
    BY <1>1, <2>1, BoundsType
  <2>3. PICK e \in bounds : SomeWhole(0, size, Header, 0, e)
    BY <1>1, <2>2, BoundsType, PreprocessSome
  <2> DEFINE p == tx_preprocessor(0, size, Header, 0)
  <2>4. /\ Header < e /\ \A b \in bounds : b <= e
        /\ p = [starts |-> {b - 0 + 0 : b \in {c \in bounds : 0 + Header <= c /\ c < e}},
                end    |-> e - 0 + 0]
    BY <1>1, <2>3, BoundsType DEF SomeWhole
  <2>5. \A b \in bounds : b - 0 + 0 = b /\ 0 + Header <= b
    BY <1>1, BoundsType
  <2>6. p.starts = {b \in bounds : b < e} /\ p.end = e
    BY <2>4, <2>5
  <2>7. /\ last' = e /\ offsets' = {b \in bounds : b < e}
        /\ outcome' = IF e = size THEN "block" ELSE "failed"
    <3>1. last' = p.end /\ offsets' = p.starts
          /\ outcome' = IF p.end = size THEN "block" ELSE "failed"
      BY <1>5 DEF SmallBlock
    <3> HIDE DEF p
    <3> QED BY <2>6, <3>1
  <2>8. last' \in 0..size /\ offsets' \in SUBSET (0..size)
    BY <1>1, <2>7, BoundsType
  <2>9. BlockInv'
    BY <1>1, <1>2, <1>3, <2>7, <2>8 DEF BlockInv, Outcomes
  <2>10. ReadInv' /\ ChunksExact'
    BY <1>1, <1>2, <2>7 DEF ReadInv, ChunksExact
  <2>11. BlockComplete'
    <3>1. e = size => offsets' = bounds \ {size} /\ size \in bounds
      BY <1>1, <2>7, BoundsType
    <3>2. ~(size >= Limit)
      BY <1>1, BoundsType
    <3> QED BY <1>2, <2>7, <3>1, <3>2 DEF BlockComplete
  <2>12. AcceptsNarrow'
    <3>1. size \in bounds => e = size
      BY <1>1, <2>4, BoundsType
    <3> QED BY <1>2, <2>7, <3>1 DEF AcceptsNarrow, WellFormed, Refused
  <2> QED BY <2>9, <2>10, <2>11, <2>12 DEF Inv
<1> QED BY <1>4, <1>5 DEF SmallBlock

(* The invariant is inductive,                                              *)
LEMMA InvStep == Inv /\ [Next]_vars => Inv'
<1> SUFFICES ASSUME Inv, [Next]_vars PROVE Inv'
  OBVIOUS
<1>1. ASSUME UNCHANGED <<size, bounds, checksum, got, base, last, chunks, offsets>>,
             outcome' \in {outcome, "reset"}
      PROVE  Inv'
  <2>1. BlockInv'
    BY <1>1 DEF Inv, BlockInv, Chunk, Outcomes
  <2>2. outcome' = outcome \/ outcome' = "reset"
    BY <1>1
  <2> QED BY <1>1, <2>1, <2>2
          DEF Inv, ReadInv, ChunksExact, BlockComplete, AcceptsNarrow, WellFormed, Narrow, Refused
<1>2. CASE Disconnect
  BY <1>1, <1>2 DEF Disconnect, block
<1>3. CASE UNCHANGED vars
  BY <1>1, <1>3 DEF vars, block
<1> QED BY <1>2, <1>3, ReadStep, FinishStep, SmallStep DEF Next

(* and holds for ever.                                                      *)
LEMMA InvHolds == Spec => []Inv
BY InitInv, InvStep, PTL DEF Spec

-----------------------------------------------------------------------------
(* The positions and offsets that the reading keeps always lie within the   *)
(* block.                                                                   *)
THEOREM TypeCorrect == Spec => []TypeOK
<1>1. ASSUME Inv PROVE TypeOK
  <2>1. chunks \in Seq(Chunk)
    BY <1>1 DEF Inv, BlockInv
  <2>2. \A i \in 1..Len(chunks) : chunks[i] \in Chunk
    BY <2>1
  <2>3. /\ size \in Nat /\ bounds \subseteq 0..size
        /\ checksum \in {"right", "wrong", "zero"}
        /\ got \in 0..size /\ base \in 0..got /\ last \in 0..size
        /\ offsets \subseteq 0..size /\ outcome \in Outcomes
    BY <1>1, BoundsType DEF Inv, BlockInv
  <2> QED BY <2>2, <2>3 DEF TypeOK, Chunk
<1> QED BY <1>1, InvHolds, PTL

(* The chunks given to the handler tile the block from its start, each holds *)
(* whole transactions and comes with the offsets of exactly these.          *)
THEOREM ChunksTile == Spec => []ChunksExact
<1>1. Inv => ChunksExact
  BY DEF Inv
<1> QED BY <1>1, InvHolds, PTL

(* A block is reported only when all of it has been delivered, with the     *)
(* offsets of all its transactions.                                         *)
THEOREM BlockWhole == Spec => []BlockComplete
<1>1. Inv => BlockComplete
  BY DEF Inv
<1> QED BY <1>1, InvHolds, PTL

(* What is kept from one read to the next is shorter than a read, however   *)
(* large the block is and its transactions are.                             *)
THEOREM LittleKept == Spec => []BufferBounded
<1>1. Inv => BufferBounded
  BY BoundsType DEF Inv, ReadInv, BufferBounded
<1> QED BY <1>1, InvHolds, PTL

(* A well-formed block with a right checksum and no transaction longer than *)
(* a read is never refused, whatever else is in it.                         *)
THEOREM NarrowAccepted == Spec => []AcceptsNarrow
<1>1. Inv => AcceptsNarrow
  BY DEF Inv
<1> QED BY <1>1, InvHolds, PTL
=============================================================================
