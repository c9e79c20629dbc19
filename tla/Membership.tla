----------------------------- MODULE Membership -----------------------------
(***************************************************************************)
(* What the worker service promises its clients, without its goroutines,   *)
(* its lock and its channel (WorkerRegistry has those and implements this):*)
(* workers join with a partition number never given out before in this     *)
(* server's life, leave at any moment no scheduling call is under way, and *)
(* every change is followed by a rebalance that has seen it.               *)
(***************************************************************************)
EXTENDS Naturals

CONSTANTS
  Names,      \* worker names (a worker process draws a fresh uuid)
  Calls,      \* concurrent calls of the scheduling service
  MaxPnum     \* bound: registrations in the life of one server process

VARIABLES
  registry,   \* name -> partition, 0 when not registered
  pnum,       \* the last partition number given out
  owed,       \* a change of the registry is still to be rebalanced
  rbPc,       \* "begin" (about to snapshot), "tx" (in the database), "idle"
  active,     \* the partitions of the rebalancer's last snapshot
  readers,    \* scheduling calls between Pick and the end of their insert
  picked      \* the partition Pick returned to a call

callVars == <<readers, picked>>
vars == <<registry, pnum, owed, rbPc, active, callVars>>

PartitionIds == 1..MaxPnum

\* The partitions of the registered workers.
Partitions == {registry[n] : n \in Names} \ {0}

Init ==
  /\ registry = [n \in Names |-> 0]
  /\ pnum = 0
  /\ owed = FALSE
  /\ rbPc = "begin"
  /\ active = {}
  /\ readers = {}
  /\ picked = [c \in Calls |-> 0]

\* A name the registry does not hold gets the next partition number.
Enter(n) ==
  /\ readers = {}
  /\ registry[n] = 0
  /\ pnum < MaxPnum
  /\ pnum' = pnum + 1
  /\ registry' = [registry EXCEPT ![n] = pnum']
  /\ UNCHANGED <<rbPc, active, callVars>>

\* Faulty variant: the registration does not ask for a rebalance.
Join_Silent(n) == Enter(n) /\ UNCHANGED owed

\* Register.
Join(n) == Enter(n) /\ owed' = TRUE

Remove(n) ==
  /\ registry[n] # 0
  /\ registry' = [registry EXCEPT ![n] = 0]
  /\ owed' = TRUE
  /\ UNCHANGED <<pnum, rbPc, active, callVars>>

\* Faulty variant: workers leave under a scheduling call.
Leave_UnderReaders(n) == Remove(n)

\* The worker unregistered, or its pings stayed away: its entry is deleted.
Leave(n) == readers = {} /\ Remove(n)

\* A rebalance starts because one is owed; another may be owed already.
Wake ==
  /\ rbPc = "idle" /\ owed
  /\ rbPc' = "begin"
  /\ owed' \in BOOLEAN
  /\ UNCHANGED <<registry, pnum, active, callVars>>

\* The partitions are read before the transaction begins, not within it.
Snapshot ==
  /\ rbPc = "begin"
  /\ rbPc' = "tx"
  /\ active' = Partitions
  /\ UNCHANGED <<registry, pnum, owed, callVars>>

Commit ==
  /\ rbPc = "tx"
  /\ rbPc' = "idle"
  /\ UNCHANGED <<registry, pnum, owed, active, callVars>>

PickChoices == IF Partitions = {} THEN {0} ELSE Partitions

SchedulePick(c) ==
  /\ c \notin readers
  /\ readers' = readers \cup {c}
  /\ \E p \in PickChoices : picked' = [picked EXCEPT ![c] = p]
  /\ UNCHANGED <<registry, pnum, owed, rbPc, active>>

ScheduleReturn(c) ==
  /\ c \in readers
  /\ readers' = readers \ {c}
  /\ picked' = [picked EXCEPT ![c] = 0]
  /\ UNCHANGED <<registry, pnum, owed, rbPc, active>>

\* The server process is replaced: the registry is in memory.
Restart ==
  /\ registry' = [n \in Names |-> 0]
  /\ pnum' = 0
  /\ owed' = FALSE
  /\ rbPc' = "begin"
  /\ active' = {}
  /\ readers' = {}
  /\ picked' = [c \in Calls |-> 0]

Next ==
  \/ \E n \in Names : Join(n) \/ Leave(n)
  \/ Wake \/ Snapshot \/ Commit
  \/ \E c \in Calls : SchedulePick(c) \/ ScheduleReturn(c)
  \/ Restart

Spec == Init /\ [][Next]_vars
=============================================================================
