------------------------------ MODULE PeerPool ------------------------------
(***************************************************************************)
(* The pool of a BitcoinClientManager (client_manager.py): which clients    *)
(* there are, which task keeps each of them connected, and which are        *)
(* offered to callers.  Clients come from the list of peers, and from addr  *)
(* messages, whose handler (handlers.py, on_addr) adds more while           *)
(* connect_all_peers() goes through the list, or later.                     *)
(*                                                                         *)
(* A connection is what PeerConnection shows it to be to connect_task:      *)
(* connect() returns or raises, and some time later connection_lost_event   *)
(* is set.                                                                  *)
(***************************************************************************)
EXTENDS Naturals, SequencesExt

CONSTANTS
    Listed,         \* the hosts of self.addresses at the start, in order
    Unlisted,       \* hosts that peers may tell us of
    Banned,         \* hosts of the peers file that are banned
    Named,          \* hosts given by a name that resolves to an address
    Concurrency,    \* clients for every host
    WaitFor,        \* wait_for_n_peers
    Persist,        \* use_persisted_peers
    EarlyAddr,      \* addr messages may come before every client has a task
    MayLose,        \* connections may fail or be lost
    MaxIndex        \* bound on the position of the rotation

ASSUME HostAssumption ==
    /\ Listed \in Seq(ToSet(Listed)) /\ IsInjective(Listed)
    /\ Unlisted \cap ToSet(Listed) = {}
    /\ Banned \cup Named \subseteq ToSet(Listed)
ASSUME NumberAssumption ==
    Concurrency \in Nat \ {0} /\ WaitFor \in Nat /\ MaxIndex \in Nat
ASSUME FlagAssumption ==
    Persist \in BOOLEAN /\ EarlyAddr \in BOOLEAN /\ MayLose \in BOOLEAN

Hosts == ToSet(Listed) \cup Unlisted

(* The clients of a host, and two connect_tasks that a client may get.      *)
AllClients == Hosts \X (1..Concurrency)
Slots      == {1, 2}

VARIABLES
    addresses,      \* the keys of self.addresses
    saved,          \* the hosts in the peers file
    clients,        \* self.clients
    pos,            \* index of the loop of connect_all_peers(): next client
    phase,          \* connect_all_peers(): in the "loop", in its "wait", "ready"
    task,           \* task[c][j]: where the connect_task j of client c is
    pool,           \* _connection_pool
    disconnected,   \* _disconnected_pool
    selected,       \* _currently_selected_available_peer_index
    overrun,        \* history: get_next_available_peer() has raised IndexError
    picked          \* history: what it has returned in the last round of the
                    \* pool, since the pool has changed

peers == <<addresses, saved, clients>>
start == <<pos, phase>>
links == <<task, pool, disconnected>>
picks == <<selected, overrun, picked>>
vars  == <<peers, start, links, picks>>

TypeOK ==
    /\ addresses \subseteq Hosts /\ saved \subseteq addresses
    /\ clients \in Seq(AllClients) /\ IsInjective(clients)
    /\ pos \in 1 .. Len(clients) + 1 /\ phase \in {"loop", "wait", "ready"}
    /\ task \in [AllClients -> [Slots -> {"none", "new", "dial", "up", "sleep", "dead"}]]
    /\ pool \in Seq(ToSet(clients))
    /\ disconnected \subseteq ToSet(clients)
    /\ selected \in 0..MaxIndex /\ overrun \in BOOLEAN
    /\ picked \in Seq(ToSet(pool)) /\ Len(picked) <= Len(pool)

-----------------------------------------------------------------------------
(* Definitions named ...Mutant change the one after them as a slip in the   *)
(* code would: they serve to show that the properties can fail.             *)

(* The clients that add_client() appends for a host.                        *)
Group(h) == [i \in 1..Concurrency |-> <<h, i>>]

(* The constructor: every address is added, and the banned ones skipped.    *)
(* The peers file, if it is used, is among the addresses, and is rewritten. *)
Init ==
    /\ addresses = ToSet(Listed)
    /\ saved = IF Persist THEN ToSet(Listed) ELSE {}
    /\ clients = FlattenSeq([i \in 1..Len(Listed) |->
                    IF Listed[i] \in Banned THEN <<>> ELSE Group(Listed[i])])
    /\ pos = 1 /\ phase = "loop"
    /\ task = [c \in AllClients |-> [j \in Slots |-> "none"]]
    /\ pool = <<>> /\ disconnected = {}
    /\ selected = 0 /\ overrun = FALSE /\ picked = <<>>

(* connect_client(): create_task(connect_task).                             *)
FreeSlot(c)     == IF task[c][1] = "none" THEN 1 ELSE 2
ConnectTask(c)  == task' = [task EXCEPT ![c][FreeSlot(c)] = "new"]

(* One turn of the loop of connect_all_peers(), which goes on to the        *)
(* clients that are appended to the list while it sleeps.                   *)
ConnectNext ==
    /\ phase = "loop" /\ pos <= Len(clients)
    /\ ConnectTask(clients[pos])
    /\ pos' = pos + 1
    /\ UNCHANGED <<peers, phase, pool, disconnected, picks>>

(* The sleep after the last client ends and there are no more.  It returns  *)
(* when it has seen wait_for_n_peers clients in the pool.                   *)
EndLoop ==
    /\ phase = "loop" /\ pos > Len(clients)
    /\ phase' = "wait"
    /\ UNCHANGED <<peers, pos, links, picks>>

Ready ==
    /\ phase = "wait" /\ Len(pool) >= WaitFor
    /\ phase' = "ready"
    /\ UNCHANGED <<peers, pos, links, picks>>

(* on_addr() of a client that is connected, for one address: add_client()   *)
(* and connect_client() of the client it returns, the last one of the group. *)
Connected == {c \in AllClients : \E j \in Slots : task[c][j] = "up"}
MayTell == Connected # {} /\ (EarlyAddr \/ phase # "loop")
AddOnlyMutant(h) ==
    /\ MayTell /\ h \notin addresses
    /\ addresses' = addresses \cup {h}
    /\ saved' = IF Persist THEN addresses' ELSE saved
    /\ clients' = clients \o Group(h)
    /\ UNCHANGED <<start, task, pool, disconnected, picks>>
RepeatedAddrMutant(h) ==
    /\ MayTell
    /\ addresses' = addresses \cup {h}
    /\ saved' = IF Persist THEN addresses' ELSE saved
    /\ clients' = clients \o Group(h)
    /\ ConnectTask(<<h, Concurrency>>)
    /\ UNCHANGED <<start, pool, disconnected, picks>>
on_addr(h) ==
    /\ MayTell /\ h \notin addresses
    /\ addresses' = addresses \cup {h}
    /\ saved' = IF Persist THEN addresses' ELSE saved
    /\ clients' = clients \o Group(h)
    /\ ConnectTask(<<h, Concurrency>>)
    /\ UNCHANGED <<start, pool, disconnected, picks>>

-----------------------------------------------------------------------------
(* connect_task() up to the await in connect().                             *)
TaskStarts(c, j) ==
    /\ task[c][j] = "new"
    /\ task' = [task EXCEPT ![c][j] = "dial"]
    /\ disconnected' = disconnected \cup {c}
    /\ UNCHANGED <<peers, start, pool, picks>>

(* connect() returns.  The client is taken out of the disconnected set,     *)
(* which raises KeyError when it is not there, and put into the pool, the   *)
(* address is looked up by the host of the client, which raises KeyError    *)
(* when it was added under a name, and the peers file is written.           *)
EnterPool(c) == IF c \in ToSet(pool) THEN pool ELSE Append(pool, c)
KeepsBothMutant(c, j) ==
    /\ task[c][j] = "dial"
    /\ pool' = EnterPool(c)
    /\ picked' = IF pool' = pool THEN picked ELSE <<>>
    /\ saved' = addresses
    /\ task' = [task EXCEPT ![c][j] = "up"]
    /\ UNCHANGED <<addresses, clients, start, disconnected, selected, overrun>>
Connects(c, j) ==
    /\ task[c][j] = "dial"
    /\ \/ /\ c \notin disconnected
          /\ task' = [task EXCEPT ![c][j] = "dead"]
          /\ UNCHANGED <<saved, pool, disconnected, picked>>
       \/ /\ c \in disconnected
          /\ disconnected' = disconnected \ {c}
          /\ pool' = EnterPool(c)
          /\ picked' = IF pool' = pool THEN picked ELSE <<>>
          /\ \/ /\ c[1] \in Named
                /\ task' = [task EXCEPT ![c][j] = "dead"]
                /\ UNCHANGED saved
             \/ /\ c[1] \notin Named
                /\ task' = [task EXCEPT ![c][j] = "up"]
                /\ saved' = addresses
    /\ UNCHANGED <<addresses, clients, start, selected, overrun>>

(* What connect_task does before it sleeps: the client leaves the pool.     *)
LeavePool(c) ==
    /\ pool' = RemoveFirst(pool, c)
    /\ picked' = IF pool' = pool THEN picked ELSE <<>>
    /\ disconnected' = disconnected \cup {c}

(* connect() raises ConnectionResetError, ConnectionRefusedError or OSError. *)
Fails(c, j) ==
    /\ MayLose /\ task[c][j] = "dial"
    /\ task' = [task EXCEPT ![c][j] = "sleep"]
    /\ LeavePool(c)
    /\ UNCHANGED <<peers, start, selected, overrun>>

(* connection_lost_event of the client is set: whoever waits for it goes on. *)
Lost(c) ==
    /\ MayLose /\ c \in Connected
    /\ task' = [task EXCEPT ![c] = [j \in Slots |-> IF task[c][j] = "up" THEN "sleep"
                                                    ELSE task[c][j]]]
    /\ LeavePool(c)
    /\ UNCHANGED <<peers, start, selected, overrun>>

(* The sleep ends: reset_state() and connect() again.                       *)
Wakes(c, j) ==
    /\ task[c][j] = "sleep"
    /\ task' = [task EXCEPT ![c][j] = "dial"]
    /\ UNCHANGED <<peers, start, pool, disconnected, picks>>

-----------------------------------------------------------------------------
(* select_next_available_peer(): back to the start only from the very last  *)
(* position of the pool as it is now.                                       *)
EarlyWrapMutant(i) == IF i >= Len(pool) - 2 THEN 0 ELSE i + 1
LateWrapMutant(i) == IF i = Len(pool) THEN 0 ELSE i + 1
NextIndex(i) == IF i = Len(pool) - 1 THEN 0 ELSE i + 1

(* get_next_available_peer(), which waits while the pool is empty.          *)
LastOnes(s) == IF Len(s) > Len(pool) THEN Tail(s) ELSE s
Pick ==
    /\ pool # <<>> /\ selected < MaxIndex
    /\ selected' = NextIndex(selected)
    /\ \/ /\ selected' < Len(pool)
          /\ picked' = LastOnes(Append(picked, pool[selected' + 1]))
          /\ UNCHANGED overrun
       \/ /\ selected' >= Len(pool)
          /\ overrun' = TRUE
          /\ UNCHANGED picked
    /\ UNCHANGED <<peers, start, links>>

TaskStep(c, j) == TaskStarts(c, j) \/ Connects(c, j) \/ Fails(c, j) \/ Wakes(c, j)

Next ==
    \/ ConnectNext \/ EndLoop \/ Ready \/ Pick
    \/ \E h \in Unlisted : on_addr(h)
    \/ \E c \in ToSet(clients) : Lost(c) \/ \E j \in Slots : TaskStep(c, j)

Spec == Init /\ [][Next]_vars

-----------------------------------------------------------------------------
Started(c) == \E j \in Slots : task[c][j] # "none"

(* Clients that have one connect_task and whose host was given by address.  *)
Regular == {c \in ToSet(clients) : task[c][2] = "none" /\ c[1] \notin Named}

(* A client whose connect_task runs is offered to callers or known to be    *)
(* disconnected, never both and never twice in the pool; and one in the pool *)
(* has a task that waits for the loss of its connection and will take it    *)
(* out.  No such task ends because of an exception of its own.              *)
Watched(c)      == c \in ToSet(pool) => c \in Connected
PoolPartition ==
    /\ IsInjective(pool)
    /\ \A c \in Regular :
          /\ ~(c \in ToSet(pool) /\ c \in disconnected)
          /\ task[c][1] \in {"dial", "up", "sleep"} => c \in disconnected \cup ToSet(pool)
          /\ Watched(c) /\ task[c][1] # "dead"

(* Every client in the pool is waited for, however its host was given.      *)
AllWatched == \A c \in ToSet(clients) : Watched(c)

(* When connect_all_peers() has gone through the list, and whatever peers   *)
(* have told us in the meantime and since, every client has a connect_task. *)
EveryoneDials == phase # "loop" => \A c \in ToSet(clients) : Started(c)

(* A client gets one connect_task, not two.                                 *)
OneConnectTask == \A c \in AllClients : task[c][2] = "none"

(* The rotation serves everyone: a full round of picks while the pool does  *)
(* not change returns every client in it once.                              *)
FairRotation == IsInjective(picked)

(* get_next_available_peer() returns a client of the pool.                  *)
PickSucceeds == ~overrun

(* Without use_persisted_peers, the peers file is left alone.               *)
OptedOut == ~Persist => saved = {}
=============================================================================
