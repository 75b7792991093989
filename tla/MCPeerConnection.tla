-------------------------- MODULE MCPeerConnection --------------------------
(* Instances of PeerConnection for TLC.                                     *)
EXTENDS PeerConnection, TLC

Symmetry == Permutations(Links)
=============================================================================
