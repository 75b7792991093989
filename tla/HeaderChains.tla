---------------------------- MODULE HeaderChains ----------------------------
(***************************************************************************)
(* Block headers and the chains that a bitcoinx.Headers object keeps of     *)
(* them, as headers.py uses it.  A header is a model value; the tree of all  *)
(* headers that exist is given.  A chain holds the headers after the point  *)
(* at which it leaves an earlier chain; chains are kept in the order in      *)
(* which they were begun.                                                   *)
(***************************************************************************)
EXTENDS Naturals, SequencesExt

CONSTANTS
    Headers,        \* the block headers that exist
    Genesis,        \* the genesis header of the network
    Parent,         \* Parent[h]: the header that h's prev_hash names
    Work            \* Work[h]: the work h stands for

ASSUME TreeAssumption ==
    /\ Genesis \in Headers
    /\ Parent \in [Headers \ {Genesis} -> Headers]
    /\ \A S \in SUBSET (Headers \ {Genesis}) :
           S # {} => \E h \in S : Parent[h] \notin S
ASSUME WorkAssumption == Work \in [Headers -> Nat \ {0}]

(* The branch that ends in h, as a set, its height, and its chain work.     *)
Branch ==
    LET B[h \in Headers] == IF h = Genesis THEN {h} ELSE B[Parent[h]] \cup {h}
    IN  [h \in Headers |-> B[h]]
Height == [h \in Headers |-> Cardinality(Branch[h]) - 1]
ChainWork ==
    LET W[h \in Headers] == IF h = Genesis THEN Work[h] ELSE W[Parent[h]] + Work[h]
    IN  [h \in Headers |-> W[h]]

(* header_at_height() of the chain whose tip is h.                          *)
At(h, n) == CHOOSE x \in Branch[h] : Height[x] = n

(* common_chain_and_height() of the chains with these tips.                 *)
CommonHeight(h, k) == Max({Height[x] : x \in Branch[h] \cap Branch[k]})

-----------------------------------------------------------------------------
NoChains == <<<<Genesis>>>>

IsChains(cs) ==
    /\ cs \in Seq(Seq(Headers)) /\ cs # <<>>
    /\ cs[1] # <<>> /\ cs[1][1] = Genesis
    /\ \A i \in DOMAIN cs : cs[i] # <<>>

(* The headers that Headers.lookup() finds.                                 *)
Known(cs) == UNION {ToSet(cs[i]) : i \in DOMAIN cs}

(* Headers.connect() of a header whose parent is known: it makes the chain  *)
(* of its parent longer, or begins a new one; one that is known is ignored. *)
Connect(cs, h) ==
    IF h \in Known(cs) THEN cs
    ELSE IF \E i \in DOMAIN cs : Last(cs[i]) = Parent[h]
    THEN [i \in DOMAIN cs |->
             IF Last(cs[i]) = Parent[h] THEN Append(cs[i], h) ELSE cs[i]]
    ELSE Append(cs, <<h>>)

(* The tips, and longest_chain().tip(): of equals, the chain begun first.   *)
Tips(cs) == {Last(cs[i]) : i \in DOMAIN cs}
Tip(cs)  ==
    LET best == CHOOSE i \in DOMAIN cs :
                    \A j \in DOMAIN cs :
                        \/ ChainWork[Last(cs[i])] > ChainWork[Last(cs[j])]
                        \/ ChainWork[Last(cs[i])] = ChainWork[Last(cs[j])] /\ i <= j
    IN  Last(cs[best])
=============================================================================
