------------------------------ MODULE HeaderLog ------------------------------
(***************************************************************************)
(* What a program may rely on when it keeps block headers in a HeadersStore: *)
(* headers it has been told are stored stay known over every crash, and      *)
(* whatever is known or saved can be followed back to the genesis block.     *)
(***************************************************************************)
CONSTANTS Headers, Genesis, Parent

VARIABLES
    known,      \* the headers the program can look up, or would after a start
    saved,      \* those of them that a crash leaves
    acked       \* headers of the calls that have returned success

logvars == <<known, saved, acked>>

Closed(S) == Genesis \in S /\ \A h \in S \ {Genesis} : Parent[h] \in S

LogInit == known = {Genesis} /\ saved = {Genesis} /\ acked = {}

Learn(h) ==
    /\ Parent[h] \in known
    /\ known' = known \cup {h} /\ UNCHANGED <<saved, acked>>

Save(h) ==
    /\ h \in known /\ Parent[h] \in saved
    /\ saved' = saved \cup {h} /\ UNCHANGED <<known, acked>>

Acknowledge(S) ==
    /\ S \subseteq saved
    /\ acked' = acked \cup S /\ UNCHANGED <<known, saved>>

Restart == known' = saved /\ UNCHANGED <<saved, acked>>

LogNext ==
    \/ \E h \in Headers \ {Genesis} : Learn(h) \/ Save(h)
    \/ \E S \in SUBSET Headers : Acknowledge(S)
    \/ Restart

LogSpec == LogInit /\ [][LogNext]_logvars

(* Nothing acknowledged is ever lost, and no ancestor is ever missing.      *)
LogSafe ==
    /\ acked \subseteq saved /\ saved \subseteq known /\ known \subseteq Headers
    /\ Closed(saved) /\ Closed(known)
=============================================================================
