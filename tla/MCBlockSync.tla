---------------------------- MODULE MCBlockSync ----------------------------
(* A chain g-a, and a branch g-d-e that is longer and has less work; two     *)
(* clients, each of its own host.                                           *)
EXTENDS BlockSync, TLC
CONSTANTS g, a, d, e, c1, c2, h1, h2

MCHeaders == {g, a, d, e}
MCParent  == a :> g @@ d :> g @@ e :> d
MCWork    == a :> 3 @@ [h \in MCHeaders |-> 1]
MCHost    == c1 :> h1 @@ c2 :> h2
=============================================================================
