------------------------------ MODULE PeerLink ------------------------------
(***************************************************************************)
(* What a BitcoinClient promises the rest of the library: it is a member   *)
(* of the connection pool only on a connection whose handshake is done,    *)
(* and keeps that one connection as long as it is a member.  client.py and *)
(* client_manager.py implement it: see PeerConnection.                     *)
(***************************************************************************)
CONSTANTS Links, NoLink

VARIABLES
    link,       \* the connection the client sends on and reads from
    member,     \* whether the pool offers the client to callers
    met         \* connections whose peer has completed the handshake

vars == <<link, member, met>>

Init == link = NoLink /\ member = FALSE /\ met = {}

Open(k) ==
    /\ link = NoLink
    /\ link' = k /\ met' = met \ {k}
    /\ UNCHANGED member

(* Only the connection in use can complete a handshake.                     *)
Meet ==
    /\ link # NoLink
    /\ met' = met \cup {link}
    /\ UNCHANGED <<link, member>>

Join ==
    /\ ~member /\ link \in met
    /\ member' = TRUE
    /\ UNCHANGED <<link, met>>

Leave ==
    /\ member
    /\ member' = FALSE
    /\ UNCHANGED <<link, met>>

Reset ==
    /\ ~member
    /\ link' = NoLink
    /\ UNCHANGED <<member, met>>

Next == (\E k \in Links : Open(k)) \/ Meet \/ Join \/ Leave \/ Reset

Spec == Init /\ [][Next]_vars
=============================================================================
