--------------------------- MODULE WorkerRegistry ---------------------------
(***************************************************************************)
(* The worker service of the server, internal/services/workers/workers.go: *)
(* the in-memory registry of workers and their partitions, the goroutine   *)
(* that watches each registration, and the loop that rebalances the jobs   *)
(* after every registration and every removal.                             *)
(*                                                                         *)
(* One action is one critical section of the RWMutex, or one channel       *)
(* operation outside it.  The steps of the database transaction of a       *)
(* rebalance, and of the insert of a scheduled job, are in Storage; here   *)
(* the transaction is the interval between RebalanceSnapshot and           *)
(* RebalanceCommit, and the insert the interval between SchedulePick and   *)
(* ScheduleReturn.  LastHealthCheck is abstracted to whether it is older   *)
(* than 2*healthFreq.                                                      *)
(***************************************************************************)
EXTENDS Naturals, FiniteSets

CONSTANTS
  Names,      \* worker names (a worker process draws a fresh uuid)
  NoName,     \* not a worker name
  Calls,      \* concurrent calls of the scheduling service
  MaxPnum,    \* bound: registrations in the life of one server process
  Cancels     \* whether a client may give up a registration that waits

ASSUME RegistryAssumption ==
  /\ NoName \notin Names
  /\ MaxPnum \in Nat
  /\ Cancels \in BOOLEAN

VARIABLES
  registry,   \* name -> partition, 0 when the map has no such key
  pnum,       \* the last partition number given out
  stale,      \* names whose LastHealthCheck is older than 2*healthFreq
  monitor,    \* partition -> progress of the registration and its goroutine
  owner,      \* partition -> the name its goroutine was started with
  cancelled,  \* partitions whose goroutine has had its context cancelled
  ch,         \* a rebalance request is buffered in the channel
  rbPc,       \* "begin" (about to snapshot), "tx" (in the database), "idle"
  active,     \* the partitions of the rebalancer's last snapshot
  readers,    \* scheduling calls that hold the read lock
  picked,     \* the partition Pick returned to a call
  leaked      \* the write lock was never released

serviceVars == <<registry, pnum, stale>>
monitorVars == <<monitor, owner, cancelled>>
rebalanceVars == <<ch, rbPc, active>>
callVars == <<readers, picked>>
vars == <<serviceVars, monitorVars, rebalanceVars, callVars, leaked>>

PartitionIds == 1..MaxPnum

\* A registration is "registered" between Unlock and the start of its
\* goroutine, "watching" in the ticker loop, "leaving" once that loop has
\* returned, "cleared" between the deletion and the rebalance request.
MonitorStates ==
  {"none", "registered", "watching", "leaving", "cleared", "ended"}
Guarding == {"registered", "watching", "leaving"}

TypeOK ==
  /\ registry \in [Names -> 0..MaxPnum]
  /\ pnum \in 0..MaxPnum
  /\ stale \in SUBSET Names
  /\ monitor \in [PartitionIds -> MonitorStates]
  /\ owner \in [PartitionIds -> Names \cup {NoName}]
  /\ cancelled \in SUBSET PartitionIds
  /\ ch \in BOOLEAN
  /\ rbPc \in {"begin", "tx", "idle"}
  /\ active \in SUBSET PartitionIds
  /\ readers \in SUBSET Calls
  /\ picked \in [Calls -> 0..MaxPnum]
  /\ leaked \in BOOLEAN

-----------------------------------------------------------------------------
\* getCurrentPartitions: the partitions of the registered workers.
Partitions == {registry[n] : n \in Names} \ {0}

\* The RWMutex: critical sections that do not block are single steps, so it
\* is held between steps only by scheduling calls and by a leaked Lock.
CanRLock == ~leaked
CanLock == ~leaked /\ readers = {}

\* New, and the start of StartReBalancer, which rebalances before it waits.
Init ==
  /\ registry = [n \in Names |-> 0]
  /\ pnum = 0
  /\ stale = {}
  /\ monitor = [p \in PartitionIds |-> "none"]
  /\ owner = [p \in PartitionIds |-> NoName]
  /\ cancelled = {}
  /\ ch = FALSE
  /\ rbPc = "begin"
  /\ active = {}
  /\ readers = {}
  /\ picked = [c \in Calls |-> 0]
  /\ leaked = FALSE

-----------------------------------------------------------------------------
(* Registration and health, called by the REST handlers.                   *)

\* A new entry n with the partition p, o.pnum after o.pnum++.
Admit(n, p) ==
  /\ p <= MaxPnum
  /\ pnum' = p
  /\ registry' = [registry EXCEPT ![n] = p]
  /\ monitor' = [monitor EXCEPT ![p] = "registered"]
  /\ owner' = [owner EXCEPT ![p] = n]

\* Register, up to Unlock, where a new entry gets the partition p.
Enroll(n, p) ==
  /\ CanLock
  /\ stale' = stale \ {n}
  /\ \/ registry[n] # 0 /\ UNCHANGED <<registry, pnum, monitor, owner>>
     \/ registry[n] = 0 /\ Admit(n, p)
  /\ UNCHANGED <<cancelled, rebalanceVars, callVars, leaked>>

\* Faulty variant: len(o.registry) + 1 is the next partition.
Register_ByCount(n) ==
  Enroll(n, Cardinality({m \in Names : registry[m] # 0}) + 1)

\* Faulty variant: a known name is registered afresh.
Register_Again(n) ==
  /\ CanLock
  /\ stale' = stale \ {n}
  /\ Admit(n, pnum + 1)
  /\ UNCHANGED <<cancelled, rebalanceVars, callVars, leaked>>

\* A known name is only refreshed.
Register(n) == Enroll(n, pnum + 1)

\* Register when the request was abandoned while it waited for the lock: it
\* returns the context's error without unlocking.
RegisterCancelled ==
  /\ Cancels
  /\ CanLock
  /\ leaked' = TRUE
  /\ UNCHANGED <<serviceVars, monitorVars, rebalanceVars, callVars>>

\* A registration, or its goroutine, goes on without the write lock.
Advance(p, from, to) ==
  /\ monitor[p] = from
  /\ monitor' = [monitor EXCEPT ![p] = to]
  /\ UNCHANGED <<serviceVars, owner, cancelled, rbPc, active, callVars, leaked>>

\* triggerRebalance drops the request when one is already buffered.
TriggerRebalance == ch' = TRUE

\* Faulty variant: the registration does not ask for a rebalance.
RegisterFinish_Silent(p) ==
  Advance(p, "registered", "watching") /\ UNCHANGED ch

\* The rest of Register: a rebalance request and the start of the goroutine.
RegisterFinish(p) == Advance(p, "registered", "watching") /\ TriggerRebalance

\* Faulty variant: an unknown name is not looked for.
UnRegister_Unchecked(n) ==
  /\ CanLock
  /\ cancelled' = cancelled \cup {registry[n]}
  /\ UNCHANGED <<serviceVars, monitor, owner, rebalanceVars, callVars, leaked>>

\* UnRegister only cancels the goroutine's context; the entry stays until the
\* goroutine deletes it.  An unknown name changes nothing.
UnRegister(n) ==
  /\ CanLock
  /\ cancelled' = IF registry[n] = 0 THEN cancelled
                                     ELSE cancelled \cup {registry[n]}
  /\ UNCHANGED <<serviceVars, monitor, owner, rebalanceVars, callVars, leaked>>

\* Health of a registered worker; the error for an unknown name is the
\* caller's business.
Health(n) ==
  /\ CanLock
  /\ registry[n] # 0
  /\ stale' = stale \ {n}
  /\ UNCHANGED <<registry, pnum, monitorVars, rebalanceVars, callVars, leaked>>

\* More than 2*healthFreq pass without a ping from n.
Expire(n) ==
  /\ registry[n] # 0
  /\ stale' = stale \cup {n}
  /\ UNCHANGED <<registry, pnum, monitorVars, rebalanceVars, callVars, leaked>>

-----------------------------------------------------------------------------
(* The goroutine of a registration.                                        *)

\* Faulty variant: only a missing entry is unhealthy, not an old one.
MonitorUnhealthy_UnknownOnly(p) ==
  /\ CanRLock
  /\ Advance(p, "watching", "leaving")
  /\ registry[owner[p]] = 0
  /\ UNCHANGED ch

\* workerHealthCheck fails: the loop ends.  (A healthy tick changes nothing.)
MonitorUnhealthy(p) ==
  /\ CanRLock
  /\ Advance(p, "watching", "leaving")
  /\ registry[owner[p]] = 0 \/ owner[p] \in stale
  /\ UNCHANGED ch

\* The context was cancelled by UnRegister: the loop ends.
MonitorCancelled(p) ==
  p \in cancelled /\ Advance(p, "watching", "leaving") /\ UNCHANGED ch

\* The entry is deleted by name.  Nothing reads the goroutine's name and
\* context afterwards: the model forgets them.
Delete(p) ==
  /\ monitor[p] = "leaving"
  /\ registry' = [registry EXCEPT ![owner[p]] = 0]
  /\ stale' = stale \ {owner[p]}
  /\ monitor' = [monitor EXCEPT ![p] = "cleared"]
  /\ owner' = [owner EXCEPT ![p] = NoName]
  /\ cancelled' = cancelled \ {p}
  /\ UNCHANGED <<pnum, rebalanceVars, callVars, leaked>>

\* Faulty variant: the entry is deleted without taking the lock.
CleanUp_Unlocked(p) == Delete(p)

\* workerCleanUp, the critical section.
CleanUp(p) == CanLock /\ Delete(p)

\* Faulty variant: a removal does not ask for a rebalance.
CleanUpTrigger_Silent(p) == Advance(p, "cleared", "ended") /\ UNCHANGED ch

\* workerCleanUp after Unlock.
CleanUpTrigger(p) == Advance(p, "cleared", "ended") /\ TriggerRebalance

-----------------------------------------------------------------------------
(* StartReBalancer and rebalance.                                          *)

\* The snapshot is read under RLock, which is released before the
\* transaction begins.
RebalanceSnapshot ==
  /\ rbPc = "begin"
  /\ CanRLock
  /\ active' = Partitions
  /\ rbPc' = "tx"
  /\ UNCHANGED <<ch, serviceVars, monitorVars, callVars, leaked>>

\* The transaction commits and the loop goes back to its channel.
RebalanceCommit ==
  /\ rbPc = "tx"
  /\ rbPc' = "idle"
  /\ UNCHANGED <<ch, active, serviceVars, monitorVars, callVars, leaked>>

\* Faulty variant: a request is consumed but the old snapshot is reused.
RebalanceWake_OldSnapshot ==
  /\ rbPc = "idle" /\ ch
  /\ ch' = FALSE
  /\ rbPc' = "tx"
  /\ UNCHANGED <<active, serviceVars, monitorVars, callVars, leaked>>

\* The loop takes the buffered request.
RebalanceWake ==
  /\ rbPc = "idle" /\ ch
  /\ ch' = FALSE
  /\ rbPc' = "begin"
  /\ UNCHANGED <<active, serviceVars, monitorVars, callVars, leaked>>

\* The server process ends, by the panic that answers a failed rebalance or
\* for any other reason, and is started again: everything here is in memory.
ServerRestart ==
  /\ registry' = [n \in Names |-> 0]
  /\ pnum' = 0
  /\ stale' = {}
  /\ monitor' = [p \in PartitionIds |-> "none"]
  /\ owner' = [p \in PartitionIds |-> NoName]
  /\ cancelled' = {}
  /\ ch' = FALSE
  /\ rbPc' = "begin"
  /\ active' = {}
  /\ readers' = {}
  /\ picked' = [c \in Calls |-> 0]
  /\ leaked' = FALSE

-----------------------------------------------------------------------------
(* Service.Schedule, as the lock sees it.                                  *)

\* Pick: any registered partition (map order and rand), 0 without workers.
PickChoices == IF Partitions = {} THEN {0} ELSE Partitions

\* RLock and Pick.
SchedulePick(c) ==
  /\ CanRLock
  /\ c \notin readers
  /\ readers' = readers \cup {c}
  /\ \E p \in PickChoices : picked' = [picked EXCEPT ![c] = p]
  /\ UNCHANGED <<serviceVars, monitorVars, rebalanceVars, leaked>>

\* The deferred RUnlock.
ScheduleReturn(c) ==
  /\ c \in readers
  /\ readers' = readers \ {c}
  /\ picked' = [picked EXCEPT ![c] = 0]
  /\ UNCHANGED <<serviceVars, monitorVars, rebalanceVars, leaked>>

-----------------------------------------------------------------------------
Next ==
  \/ \E n \in Names : Register(n) \/ UnRegister(n) \/ Health(n) \/ Expire(n)
  \/ RegisterCancelled
  \/ \E p \in PartitionIds : \/ RegisterFinish(p)
                             \/ MonitorUnhealthy(p)
                             \/ MonitorCancelled(p)
                             \/ CleanUp(p)
                             \/ CleanUpTrigger(p)
  \/ RebalanceSnapshot \/ RebalanceCommit \/ RebalanceWake
  \/ ServerRestart
  \/ \E c \in Calls : SchedulePick(c) \/ ScheduleReturn(c)

\* A goroutine waits for the write lock.
WaitsForLock(p) == monitor[p] = "leaving" /\ ~leaked

\* Goroutines run, inserts and transactions end.  A waiting writer keeps new
\* readers out of a Go RWMutex, so a goroutine that waits for the write lock
\* gets it although scheduling calls keep coming: as weak fairness, but for a
\* goroutine that waits, whether or not the lock is free at the moment.
Fairness ==
  /\ \A p \in PartitionIds : /\ WF_vars(RegisterFinish(p))
                             /\ WF_vars(MonitorUnhealthy(p))
                             /\ WF_vars(MonitorCancelled(p))
                             /\ []<>~WaitsForLock(p) \/ []<><<CleanUp(p)>>_vars
                             /\ WF_vars(CleanUpTrigger(p))
  /\ WF_vars(RebalanceSnapshot)
  /\ WF_vars(RebalanceCommit)
  /\ WF_vars(RebalanceWake)
  /\ \A c \in Calls : WF_vars(ScheduleReturn(c))

Spec == Init /\ [][Next]_vars
FairSpec == Spec /\ Fairness

-----------------------------------------------------------------------------
(* Properties.                                                             *)

\* No two registered workers share a partition: jobs of a partition are
\* selected by one registered worker (Register hands out o.pnum under Lock).
UniquePartitions ==
  \A m, n \in Names : registry[m] # 0 /\ registry[m] = registry[n] => m = n

\* Every entry is watched by exactly the goroutine started for it, and a
\* goroutine that has yet to delete by name finds its own registration under
\* that name: a late workerCleanUp never removes somebody else's entry.
EntryGuarded ==
  /\ \A n \in Names : registry[n] # 0 =>
       owner[registry[n]] = n /\ monitor[registry[n]] \in Guarding
  /\ \A p \in PartitionIds : monitor[p] \in Guarding =>
       owner[p] \in Names /\ registry[owner[p]] = p

\* A goroutine is about to call triggerRebalance.
TriggerPending ==
  \E p \in PartitionIds : monitor[p] \in {"registered", "cleared"}

\* A change of the registry is never missed by the rebalancer, although
\* triggerRebalance drops requests when the one-slot channel is full: unless
\* a request is buffered or about to be made, or the snapshot is still to be
\* taken, the last snapshot is the current registry.
NoLostRebalance ==
  rbPc = "begin" \/ ch \/ TriggerPending \/ active = Partitions

\* While a scheduling call inserts its job, the partition it picked stays
\* registered, or the registry stays empty if it picked none (RLock is held
\* from Pick to the end of the insert).
PickStaysRegistered ==
  \A c \in readers : \/ picked[c] \in Partitions
                     \/ picked[c] = 0 /\ Partitions = {}

\* The partition of a registered worker never changes under it: a worker
\* reads its partition once, at start, and a repeated registration (a retry
\* of the worker's POST) must return the same one.
PartitionStable ==
  [][\A n \in Names : registry[n] # 0 /\ registry'[n] # 0
                        => registry'[n] = registry[n]]_vars

\* The service implements Membership: a change is owed a rebalance from the
\* moment of the change until a request for it leaves the channel.
Membership == INSTANCE Membership WITH owed <- ch \/ TriggerPending
ImplementsMembership == Membership!Spec

\* A worker that is unregistered eventually leaves the registry, and a
\* rebalance that no longer counts its partition is committed, unless the
\* server is restarted (pnum < p) or the lock leaked before that.
UnregisteredIsRebalanced ==
  \A p \in PartitionIds :
    p \in cancelled ~> \/ pnum < p
                       \/ rbPc = "idle" /\ p \notin Partitions \cup active
                       \/ leaked

\* A worker whose pings stop for good is removed: it does not stay registered
\* with an old health check forever (the ticker goroutine), unless the lock
\* leaked.
SilentIsEvicted ==
  \A n \in Names, p \in PartitionIds :
    registry[n] = p /\ n \in stale ~> \/ registry[n] # p \/ n \notin stale
                                      \/ leaked

\* A committed rebalance counts the partition, or nobody is registered with it.
Counted(p) == (rbPc = "idle" /\ p \in active) \/ p \notin Partitions

\* A registration is followed by a committed rebalance that counts the new
\* partition, unless the partition is gone again by then or the lock leaked.
RegisteredIsRebalancedOrLeaked ==
  \A p \in PartitionIds : monitor[p] = "registered" ~> Counted(p) \/ leaked

\* "rebalance happens AFTER registration/unregistration" (workers.go:148),
\* whatever becomes of other registrations.
RegisteredIsRebalanced ==
  \A p \in PartitionIds : monitor[p] = "registered" ~> Counted(p)
=============================================================================
