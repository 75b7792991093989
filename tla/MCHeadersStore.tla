--------------------------- MODULE MCHeadersStore ---------------------------
(* A main branch g-a-b, a fork d-e off a, and off the fork a header k with *)
(* twice the work; x claims work that it does not have.                      *)
EXTENDS HeadersStore, TLC
CONSTANTS g, a, b, d, e, k, x

MCHeaders == {g, a, b, d, e, k, x}
MCParent  == a :> g @@ b :> a @@ d :> a @@ e :> d @@ k :> d @@ x :> b
MCWork    == [h \in MCHeaders |-> IF h = k THEN 2 ELSE 1]
=============================================================================
