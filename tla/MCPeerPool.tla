---------------------------- MODULE MCPeerPool ----------------------------
(* Instances of PeerPool for TLC.                                           *)
EXTENDS PeerPool

CONSTANTS h1, h2, h3

ThreeHosts == <<h1, h2, h3>>
=============================================================================
