--------------------------- MODULE MCTxBroadcast ---------------------------
(* Instances of TxBroadcast for TLC.                                        *)
EXTENDS TxBroadcast, TLC

Symmetry == Permutations(Peers) \cup Permutations(Calls)
=============================================================================
