------------------------ MODULE WorkerRegistryProofs ------------------------
(***************************************************************************)
(* The safety properties of WorkerRegistry, for every set of names and of  *)
(* scheduling calls and every number of registrations.  Only EntryGuarded  *)
(* needs help to be inductive: a partition number above pnum has never     *)
(* been given out, so the next registration meets no older goroutine.      *)
(***************************************************************************)
EXTENDS WorkerRegistry, TLAPS

\* No goroutine was ever started for a number above the counter.
FreshAbove == \A p \in PartitionIds : p > pnum => monitor[p] = "none"

IInv ==
  /\ TypeOK
  /\ FreshAbove
  /\ EntryGuarded
  /\ NoLostRebalance
  /\ PickStaysRegistered

\* The actions of one worker name, of one goroutine, and of one call.
NameStep(n) == Register(n) \/ UnRegister(n) \/ Health(n) \/ Expire(n)
MonitorStep(p) ==
  \/ RegisterFinish(p) \/ MonitorUnhealthy(p) \/ MonitorCancelled(p)
  \/ CleanUp(p) \/ CleanUpTrigger(p)
CallStep(c) == SchedulePick(c) \/ ScheduleReturn(c)
RebalanceStep == RebalanceSnapshot \/ RebalanceCommit \/ RebalanceWake

-----------------------------------------------------------------------------
\* New establishes the invariant.
LEMMA InitIInv == Init => IInv
  <1> SUFFICES ASSUME Init PROVE IInv
    OBVIOUS
  <1> USE RegistryAssumption DEF Init
  <1>1. TypeOK
    <2>1. 0 \in 0..MaxPnum
      OBVIOUS
    <2> QED
      BY <2>1, Zenon DEF TypeOK, MonitorStates
  <1>2. FreshAbove /\ EntryGuarded
    BY DEF FreshAbove, EntryGuarded, PartitionIds, Guarding
  <1>3. NoLostRebalance /\ PickStaysRegistered
    BY DEF NoLostRebalance, PickStaysRegistered
  <1> QED
    BY <1>1, <1>2, <1>3 DEF IInv

\* A step that leaves the registry, the goroutines, the rebalancer and the
\* calls alone (a health check that ages or is renewed, a stutter) preserves
\* everything but the type of what it changes.
LEMMA QuietStep ==
  ASSUME IInv, TypeOK', UNCHANGED <<registry, pnum, monitor, owner>>,
         UNCHANGED rebalanceVars, UNCHANGED callVars
  PROVE  IInv'
  BY DEF IInv, FreshAbove, EntryGuarded, NoLostRebalance, TriggerPending,
         PickStaysRegistered, Partitions, rebalanceVars, callVars

\* Register of an unknown name: the only step that starts a registration.
LEMMA NewRegistration ==
  ASSUME IInv, NEW n \in Names, Register(n), registry[n] = 0
  PROVE  IInv'
  <1> DEFINE k == pnum + 1
  <1> USE RegistryAssumption
  <1>1. /\ k \in PartitionIds /\ pnum \in Nat /\ pnum' = k
        /\ registry' = [registry EXCEPT ![n] = k]
        /\ monitor' = [monitor EXCEPT ![k] = "registered"]
        /\ owner' = [owner EXCEPT ![k] = n]
        /\ stale' = stale \ {n}
        /\ readers = {}
        /\ UNCHANGED <<cancelled, rebalanceVars, callVars, leaked>>
    BY DEF IInv, TypeOK, Register, PartitionIds, CanLock, Admit, Enroll
  <1>2. TypeOK'
    BY <1>1 DEF IInv, TypeOK, PartitionIds, MonitorStates, rebalanceVars,
                callVars
  <1>3. FreshAbove'
    BY <1>1 DEF IInv, TypeOK, FreshAbove, PartitionIds
  <1>4. monitor[k] = "none"
    BY <1>1 DEF IInv, FreshAbove, PartitionIds
  <1>5. EntryGuarded'
    <2>1. ASSUME NEW m \in Names, registry'[m] # 0
          PROVE  owner'[registry'[m]] = m /\ monitor'[registry'[m]] \in Guarding
      BY <1>1, <1>4, <2>1 DEF IInv, TypeOK, EntryGuarded, PartitionIds, Guarding
    <2>2. ASSUME NEW p \in PartitionIds, monitor'[p] \in Guarding
          PROVE  owner'[p] \in Names /\ registry'[owner'[p]] = p
      BY <1>1, <1>4, <2>2 DEF IInv, TypeOK, EntryGuarded, PartitionIds, Guarding
    <2> QED
      BY <2>1, <2>2 DEF EntryGuarded
  <1>6. NoLostRebalance'
    BY <1>1 DEF IInv, TypeOK, NoLostRebalance, TriggerPending
  <1>7. PickStaysRegistered'
    BY <1>1 DEF PickStaysRegistered, callVars
  <1> QED
    BY <1>2, <1>3, <1>5, <1>6, <1>7 DEF IInv

\* The REST handlers and the passing of time.
LEMMA NameSteps ==
  ASSUME IInv, NEW n \in Names, NameStep(n)
  PROVE  IInv'
  <1> USE RegistryAssumption
  <1>1. CASE Register(n) /\ registry[n] = 0
    BY <1>1, NewRegistration
  <1>2. CASE Register(n) /\ registry[n] # 0
    <2>1. TypeOK'
      BY <1>2 DEF IInv, TypeOK, Register, rebalanceVars, callVars, Admit, Enroll
    <2> QED
      BY <1>2, <2>1, QuietStep DEF Register, Admit, Enroll
  <1>3. CASE UnRegister(n)
    <2>1. TypeOK'
      <3>1. cancelled' \in SUBSET PartitionIds
        <4>1. registry[n] \in 0..MaxPnum /\ cancelled \in SUBSET (1..MaxPnum)
          BY DEF IInv, TypeOK, PartitionIds
        <4>2. registry[n] # 0 => registry[n] \in 1..MaxPnum
          BY <4>1
        <4>3. cancelled' = IF registry[n] = 0 THEN cancelled
                                              ELSE cancelled \cup {registry[n]}
          BY <1>3 DEF UnRegister
        <4> QED
          BY <4>1, <4>2, <4>3, Zenon DEF PartitionIds
      <3> QED
        BY <1>3, <3>1, Zenon DEF IInv, TypeOK, UnRegister, serviceVars,
                                 rebalanceVars, callVars
    <2> QED
      BY <1>3, <2>1, QuietStep DEF UnRegister, serviceVars
  <1>4. CASE Health(n) \/ Expire(n)
    <2>1. TypeOK'
      BY <1>4 DEF IInv, TypeOK, Health, Expire, monitorVars, rebalanceVars,
                  callVars
    <2> QED
      BY <1>4, <2>1, QuietStep DEF Health, Expire, monitorVars
  <1> QED
    BY <1>1, <1>2, <1>3, <1>4 DEF NameStep

-----------------------------------------------------------------------------
\* workerCleanUp deletes the entry of its own registration and no other.
LEMMA CleanUpStep ==
  ASSUME IInv, NEW p \in PartitionIds, CleanUp(p)
  PROVE  IInv'
  <1> USE RegistryAssumption
  <1>1. /\ owner[p] \in Names /\ registry[owner[p]] = p
        /\ readers = {}
        /\ registry' = [registry EXCEPT ![owner[p]] = 0]
        /\ monitor' = [monitor EXCEPT ![p] = "cleared"]
        /\ owner' = [owner EXCEPT ![p] = NoName]
        /\ stale' = stale \ {owner[p]} /\ cancelled' = cancelled \ {p}
        /\ UNCHANGED <<pnum, rebalanceVars, callVars, leaked>>
    BY DEF IInv, EntryGuarded, CleanUp, CanLock, Guarding, Delete
  <1>2. TypeOK'
    BY <1>1 DEF IInv, TypeOK, MonitorStates, rebalanceVars, callVars
  <1>3. FreshAbove'
    <2>1. monitor[p] = "leaving"
      BY DEF CleanUp, Delete
    <2> QED
      BY <1>1, <2>1 DEF IInv, TypeOK, FreshAbove
  <1>4. EntryGuarded'
    <2>1. ASSUME NEW m \in Names, registry'[m] # 0
          PROVE  owner'[registry'[m]] = m /\ monitor'[registry'[m]] \in Guarding
      BY <1>1, <2>1 DEF IInv, TypeOK, EntryGuarded, PartitionIds
    <2>2. ASSUME NEW q \in PartitionIds, monitor'[q] \in Guarding
          PROVE  owner'[q] \in Names /\ registry'[owner'[q]] = q
      BY <1>1, <2>2 DEF IInv, TypeOK, EntryGuarded, PartitionIds, Guarding
    <2> QED
      BY <2>1, <2>2 DEF EntryGuarded
  <1>5. NoLostRebalance'
    BY <1>1 DEF IInv, TypeOK, NoLostRebalance, TriggerPending
  <1>6. PickStaysRegistered'
    BY <1>1 DEF PickStaysRegistered, callVars
  <1> QED
    BY <1>2, <1>3, <1>4, <1>5, <1>6 DEF IInv

\* The other steps of a registration's goroutine.
LEMMA MonitorSteps ==
  ASSUME IInv, NEW p \in PartitionIds, MonitorStep(p)
  PROVE  IInv'
  <1> USE RegistryAssumption
  <1>1. CASE CleanUp(p)
    BY <1>1, CleanUpStep
  <1>2. CASE MonitorUnhealthy(p) \/ MonitorCancelled(p)
    <2>1. /\ monitor[p] = "watching"
          /\ monitor' = [monitor EXCEPT ![p] = "leaving"]
          /\ UNCHANGED <<serviceVars, owner, cancelled, rebalanceVars, callVars,
                         leaked>>
      BY <1>2 DEF MonitorUnhealthy, MonitorCancelled, Advance, rebalanceVars
    <2>2. TypeOK'
      BY <2>1, Zenon DEF IInv, TypeOK, MonitorStates, serviceVars,
                         rebalanceVars, callVars
    <2>2a. FreshAbove'
      BY <2>1 DEF IInv, TypeOK, FreshAbove, serviceVars
    <2>3. EntryGuarded'
      BY <2>1 DEF IInv, TypeOK, EntryGuarded, PartitionIds, Guarding, serviceVars
    <2>3a. Partitions' = Partitions
      BY <2>1 DEF Partitions, serviceVars
    <2>3b. TriggerPending => TriggerPending'
      BY <2>1 DEF IInv, TypeOK, TriggerPending
    <2>4. NoLostRebalance' /\ PickStaysRegistered'
      BY <2>1, <2>3a, <2>3b, Zenon DEF IInv, NoLostRebalance,
         PickStaysRegistered, rebalanceVars, callVars
    <2> QED
      BY <2>2, <2>2a, <2>3, <2>4 DEF IInv
  <1>3. CASE RegisterFinish(p) \/ CleanUpTrigger(p)
    <2>1. /\ \/ monitor[p] = "registered"
                /\ monitor' = [monitor EXCEPT ![p] = "watching"]
             \/ monitor[p] = "cleared"
                /\ monitor' = [monitor EXCEPT ![p] = "ended"]
          /\ ch' = TRUE
          /\ UNCHANGED <<serviceVars, owner, cancelled, rbPc, active, callVars,
                         leaked>>
      BY <1>3 DEF RegisterFinish, CleanUpTrigger, Advance, TriggerRebalance
    <2>2. TypeOK'
      BY <2>1, Zenon DEF IInv, TypeOK, MonitorStates, serviceVars, callVars
    <2>2a. FreshAbove'
      BY <2>1 DEF IInv, TypeOK, FreshAbove, serviceVars
    <2>3. EntryGuarded'
      <3>1. \A q \in PartitionIds : monitor'[q] \in Guarding
                                      <=> monitor[q] \in Guarding
        BY <2>1 DEF IInv, TypeOK, Guarding
      <3>2. \A n \in Names : registry[n] # 0 => registry[n] \in PartitionIds
        BY DEF IInv, TypeOK, PartitionIds
      <3> QED
        BY <2>1, <3>1, <3>2 DEF IInv, EntryGuarded, serviceVars
    <2>4. NoLostRebalance' /\ PickStaysRegistered'
      BY <2>1 DEF IInv, NoLostRebalance, PickStaysRegistered, Partitions,
                  serviceVars, callVars
    <2> QED
      BY <2>2, <2>2a, <2>3, <2>4 DEF IInv
  <1> QED
    BY <1>1, <1>2, <1>3 DEF MonitorStep

-----------------------------------------------------------------------------
\* The rebalancer's loop.
LEMMA RebalanceSteps ==
  ASSUME IInv, RebalanceStep
  PROVE  IInv'
  <1> USE RegistryAssumption
  <1>1. UNCHANGED <<serviceVars, monitorVars, callVars, leaked>>
    BY DEF RebalanceStep, RebalanceSnapshot, RebalanceCommit, RebalanceWake
  <1>2. Partitions \in SUBSET PartitionIds
    BY DEF IInv, TypeOK, Partitions, PartitionIds
  <1>3. TypeOK'
    BY <1>1, <1>2 DEF IInv, TypeOK, RebalanceStep, RebalanceSnapshot,
       RebalanceCommit, RebalanceWake, serviceVars, monitorVars, callVars
  <1>4. FreshAbove' /\ EntryGuarded' /\ PickStaysRegistered'
    BY <1>1 DEF IInv, FreshAbove, EntryGuarded, PickStaysRegistered, Partitions,
                serviceVars, monitorVars, callVars
  <1>5. NoLostRebalance'
    BY <1>1 DEF IInv, NoLostRebalance, TriggerPending, Partitions, RebalanceStep,
       RebalanceSnapshot, RebalanceCommit, RebalanceWake, serviceVars, monitorVars
  <1> QED
    BY <1>3, <1>4, <1>5 DEF IInv

\* A scheduling call picks a partition of the registry, or returns.
LEMMA CallSteps ==
  ASSUME IInv, NEW c \in Calls, CallStep(c)
  PROVE  IInv'
  <1> USE RegistryAssumption
  <1>1. /\ UNCHANGED <<serviceVars, monitorVars, rebalanceVars, leaked>>
        /\ \/ /\ readers' = readers \cup {c}
              /\ \E p \in PickChoices : picked' = [picked EXCEPT ![c] = p]
           \/ /\ readers' = readers \ {c}
              /\ picked' = [picked EXCEPT ![c] = 0]
    BY DEF CallStep, SchedulePick, ScheduleReturn
  <1>2. PickChoices \in SUBSET (0..MaxPnum)
    BY DEF IInv, TypeOK, PickChoices, Partitions
  <1>3. TypeOK'
    BY <1>1, <1>2 DEF IInv, TypeOK, serviceVars, monitorVars, rebalanceVars
  <1>4. FreshAbove' /\ EntryGuarded' /\ NoLostRebalance'
    BY <1>1 DEF IInv, FreshAbove, EntryGuarded, NoLostRebalance, TriggerPending,
                Partitions, serviceVars, monitorVars, rebalanceVars
  <1>5. Partitions' = Partitions
    BY <1>1 DEF Partitions, serviceVars
  <1>6. PickStaysRegistered'
    BY <1>1, <1>5 DEF IInv, TypeOK, PickStaysRegistered, PickChoices
  <1> QED
    BY <1>3, <1>4, <1>6 DEF IInv

\* Every step of the worker service preserves the invariant.
LEMMA NextIInv == IInv /\ [Next]_vars => IInv'
  <1> SUFFICES ASSUME IInv, [Next]_vars PROVE IInv'
    OBVIOUS
  <1>1. CASE \E n \in Names : NameStep(n)
    BY <1>1, NameSteps
  <1>2. CASE \E p \in PartitionIds : MonitorStep(p)
    BY <1>2, MonitorSteps
  <1>3. CASE RebalanceStep
    BY <1>3, RebalanceSteps
  <1>4. CASE \E c \in Calls : CallStep(c)
    BY <1>4, CallSteps
  <1>5. CASE RegisterCancelled
    <2>1. TypeOK'
      BY <1>5 DEF IInv, TypeOK, RegisterCancelled, serviceVars, monitorVars,
                  rebalanceVars, callVars
    <2> QED
      BY <1>5, <2>1, QuietStep DEF RegisterCancelled, serviceVars, monitorVars
  <1>6. CASE ServerRestart
    <2>1. Init'
      BY <1>6 DEF ServerRestart, Init
    <2>2. 0 \in 0..MaxPnum
      BY RegistryAssumption
    <2>3. TypeOK'
      BY <2>1, <2>2, Zenon DEF Init, TypeOK, MonitorStates
    <2>4. FreshAbove' /\ EntryGuarded'
      BY <2>1, RegistryAssumption DEF Init, FreshAbove, EntryGuarded,
         PartitionIds, Guarding
    <2>5. NoLostRebalance' /\ PickStaysRegistered'
      BY <2>1 DEF Init, NoLostRebalance, PickStaysRegistered
    <2> QED
      BY <2>3, <2>4, <2>5 DEF IInv
  <1>7. CASE UNCHANGED vars
    <2>1. TypeOK'
      BY <1>7 DEF IInv, TypeOK, vars, serviceVars, monitorVars, rebalanceVars,
                  callVars
    <2> QED
      BY <1>7, <2>1, QuietStep DEF vars, serviceVars, monitorVars
  <1> QED
    BY <1>1, <1>2, <1>3, <1>4, <1>5, <1>6, <1>7
       DEF Next, NameStep, MonitorStep, RebalanceStep, CallStep

\* IInv holds throughout.
THEOREM Invariance == Spec => []IInv
  BY InitIInv, NextIInv, PTL DEF Spec

-----------------------------------------------------------------------------
\* Every variable keeps its type.
THEOREM TypeCorrect == Spec => []TypeOK
  <1>1. IInv => TypeOK
    BY DEF IInv
  <1> QED
    BY <1>1, Invariance, PTL

\* Two registered workers never share a partition: the owner recorded for a
\* partition is one name.
THEOREM PartitionsAreUnique == Spec => []UniquePartitions
  <1>1. IInv => UniquePartitions
    BY DEF IInv, EntryGuarded, UniquePartitions
  <1> QED
    BY <1>1, Invariance, PTL

\* A late workerCleanUp never removes somebody else's entry.
THEOREM EntriesAreGuarded == Spec => []EntryGuarded
  <1>1. IInv => EntryGuarded
    BY DEF IInv
  <1> QED
    BY <1>1, Invariance, PTL

\* The one-slot channel never loses a change of the registry.
THEOREM RebalanceIsNeverLost == Spec => []NoLostRebalance
  <1>1. IInv => NoLostRebalance
    BY DEF IInv
  <1> QED
    BY <1>1, Invariance, PTL

\* A job is never inserted into a partition whose worker is gone from the
\* registry, nor into partition 0 once a worker has registered.
THEOREM PicksStayRegistered == Spec => []PickStaysRegistered
  <1>1. IInv => PickStaysRegistered
    BY DEF IInv
  <1> QED
    BY <1>1, Invariance, PTL

\* A registered worker keeps its partition.
THEOREM PartitionsAreStable == Spec => PartitionStable
  <1> DEFINE Keep(n) == registry[n] # 0 /\ registry'[n] # 0
                          => registry'[n] = registry[n]
  <1>1. TypeOK /\ [Next]_vars => [\A n \in Names : Keep(n)]_vars
    <2> SUFFICES ASSUME TypeOK, Next, NEW n \in Names PROVE Keep(n)
      BY DEF vars
    <2>1. CASE UNCHANGED registry
      BY <2>1
    <2>2. CASE \E m \in Names : Register(m)
      BY <2>2 DEF Register, TypeOK, Admit, Enroll
    <2>3. CASE \E p \in PartitionIds : CleanUp(p)
      BY <2>3 DEF CleanUp, TypeOK, Delete
    <2>4. CASE ServerRestart
      BY <2>4 DEF ServerRestart
    <2> QED
      BY <2>1, <2>2, <2>3, <2>4 DEF Next, UnRegister, Health, Expire,
         RegisterCancelled, RegisterFinish, MonitorUnhealthy, MonitorCancelled,
         CleanUpTrigger, RebalanceSnapshot, RebalanceCommit, RebalanceWake,
         SchedulePick, ScheduleReturn, serviceVars, Advance, TriggerRebalance
  <1> QED
    BY <1>1, TypeCorrect, PTL DEF Spec, PartitionStable

-----------------------------------------------------------------------------
(* WorkerRegistry implements Membership.  A step is a step of Membership   *)
(* or leaves its variables alone; whether a rebalance is owed is Boolean   *)
(* and does not change when a request moves from a goroutine to the        *)
(* channel.                                                                *)

Owed == ch \/ TriggerPending

\* The steps Membership does not see.
LEMMA StutterSteps ==
  ASSUME UNCHANGED <<registry, pnum, rbPc, active, readers, picked>>,
         Owed' = Owed
  PROVE  UNCHANGED Membership!vars
  BY DEF Membership!vars, Membership!callVars, Owed

\* The goroutines of IInv never change what is owed without the registry.
LEMMA OwedSteps ==
  ASSUME IInv, NEW p \in PartitionIds,
         \/ RegisterFinish(p) \/ MonitorUnhealthy(p)
         \/ MonitorCancelled(p) \/ CleanUpTrigger(p)
  PROVE  UNCHANGED Membership!vars
  <1>1. CASE RegisterFinish(p) \/ CleanUpTrigger(p)
    <2>1. Owed /\ Owed'
      BY <1>1 DEF RegisterFinish, CleanUpTrigger, Owed, TriggerPending,
                  Advance, TriggerRebalance
    <2> QED
      BY <1>1, <2>1, StutterSteps DEF RegisterFinish, CleanUpTrigger,
         serviceVars, callVars, Owed, Advance, TriggerRebalance
  <1>2. CASE MonitorUnhealthy(p) \/ MonitorCancelled(p)
    <2>1. monitor[p] = "watching" /\ monitor' = [monitor EXCEPT ![p] = "leaving"]
          /\ UNCHANGED <<serviceVars, rebalanceVars, callVars>>
      BY <1>2 DEF MonitorUnhealthy, MonitorCancelled, Advance, rebalanceVars
    <2>2. TriggerPending' <=> TriggerPending
      BY <2>1 DEF IInv, TypeOK, TriggerPending
    <2>3. Owed' = Owed
      BY <2>1, <2>2, Zenon DEF Owed, rebalanceVars
    <2> QED
      BY <2>1, <2>3, StutterSteps DEF serviceVars, rebalanceVars, callVars
  <1> QED
    BY <1>1, <1>2

\* Initially nothing is registered and nothing is owed.
LEMMA InitMembership == Init => Membership!Init
  BY DEF Init, Membership!Init, TriggerPending

\* Every step maps to a step of Membership or to a stutter.
LEMMA StepMembership ==
  IInv /\ [Next]_vars => [Membership!Next]_(Membership!vars)
  <1> SUFFICES ASSUME IInv, [Next]_vars
               PROVE  Membership!Next \/ UNCHANGED Membership!vars
    OBVIOUS
  <1> USE DEF Membership!callVars
  <1>1. ASSUME NEW n \in Names, Register(n)
        PROVE  Membership!Next \/ UNCHANGED Membership!vars
    <2>1. CASE registry[n] = 0
      <3>1. monitor'[pnum + 1] = "registered" /\ pnum + 1 \in PartitionIds
        BY <1>1, <2>1, RegistryAssumption DEF Register, IInv, TypeOK, PartitionIds,
                                                Admit, Enroll
      <3>2. TriggerPending'
        BY <3>1 DEF TriggerPending
      <3>3. (ch \/ TriggerPending)' = TRUE
        BY <3>2
      <3>4. pnum < MaxPnum
        BY <3>1, RegistryAssumption DEF IInv, TypeOK, PartitionIds
      <3>5. Membership!Join(n)
        BY <1>1, <2>1, <3>3, <3>4 DEF Register, CanLock, Membership!Join, Membership!Enter,
                                rebalanceVars,
                                callVars, Admit, Enroll
      <3> QED
        BY <3>5 DEF Membership!Next
    <2>2. CASE registry[n] # 0
      <3>1. UNCHANGED <<serviceVars, monitor, rebalanceVars, callVars>> \/
            UNCHANGED <<registry, pnum, monitor, rebalanceVars, callVars>>
        BY <1>1, <2>2 DEF Register, Admit, Enroll
      <3>2. Owed' = Owed
        BY <3>1 DEF Owed, TriggerPending, rebalanceVars
      <3> QED
        BY <3>1, <3>2, StutterSteps DEF serviceVars, rebalanceVars, callVars
    <2> QED
      BY <2>1, <2>2
  <1>2. ASSUME UNCHANGED <<registry, pnum, monitor, rebalanceVars, callVars>>
        PROVE  UNCHANGED Membership!vars
    <2>1. Owed' = Owed
      BY <1>2 DEF Owed, TriggerPending, rebalanceVars
    <2> QED
      BY <1>2, <2>1, StutterSteps DEF rebalanceVars, callVars
  <1>3. CASE \E n \in Names : UnRegister(n) \/ Health(n) \/ Expire(n)
    BY <1>3, <1>2 DEF UnRegister, Health, Expire, serviceVars, monitorVars
  <1>4. CASE RegisterCancelled \/ UNCHANGED vars
    BY <1>4, <1>2 DEF RegisterCancelled, vars, serviceVars, monitorVars
  <1>5. CASE \E p \in PartitionIds : \/ RegisterFinish(p) \/ MonitorUnhealthy(p)
                                     \/ MonitorCancelled(p) \/ CleanUpTrigger(p)
    BY <1>5, OwedSteps
  <1>6. ASSUME NEW p \in PartitionIds, CleanUp(p)
        PROVE  Membership!Next
    <2>1. owner[p] \in Names /\ registry[owner[p]] = p /\ p # 0
      BY <1>6 DEF CleanUp, IInv, EntryGuarded, Guarding, PartitionIds, Delete
    <2>2. monitor'[p] = "cleared"
      BY <1>6 DEF CleanUp, IInv, TypeOK, Delete
    <2>3. (ch \/ TriggerPending)' = TRUE
      BY <2>2 DEF TriggerPending
    <2>4. Membership!Leave(owner[p])
      BY <1>6, <2>1, <2>3 DEF CleanUp, CanLock, Membership!Leave, Membership!Remove,
                              rebalanceVars,
                              callVars, Delete
    <2> QED
      BY <2>1, <2>4 DEF Membership!Next
  <1>7. CASE RebalanceSnapshot \/ RebalanceCommit
    <2>1. Owed' = Owed
      BY <1>7 DEF RebalanceSnapshot, RebalanceCommit, Owed, TriggerPending,
                  monitorVars
    <2>2. Membership!Snapshot \/ Membership!Commit
      BY <1>7, <2>1 DEF RebalanceSnapshot, RebalanceCommit, Membership!Snapshot,
         Membership!Commit, Membership!Partitions, Partitions, serviceVars,
         callVars, Owed
    <2> QED
      BY <2>2 DEF Membership!Next
  <1>8. CASE RebalanceWake
    <2>1. (ch \/ TriggerPending) = TRUE /\ (ch \/ TriggerPending)' \in BOOLEAN
      BY <1>8 DEF RebalanceWake
    <2>2. Membership!Wake
      BY <1>8, <2>1 DEF RebalanceWake, Membership!Wake, serviceVars, callVars
    <2> QED
      BY <2>2 DEF Membership!Next
  <1>9. CASE ServerRestart
    <2>1. (ch \/ TriggerPending)' = FALSE
      BY <1>9 DEF ServerRestart, TriggerPending
    <2>2. Membership!Restart
      BY <1>9, <2>1 DEF ServerRestart, Membership!Restart
    <2> QED
      BY <2>2 DEF Membership!Next
  <1>10. ASSUME NEW c \in Calls, SchedulePick(c) \/ ScheduleReturn(c)
         PROVE  Membership!Next
    <2>1. Owed' = Owed
      BY <1>10 DEF SchedulePick, ScheduleReturn, Owed, TriggerPending,
                   monitorVars, rebalanceVars
    <2>2. Membership!SchedulePick(c) \/ Membership!ScheduleReturn(c)
      BY <1>10, <2>1 DEF SchedulePick, ScheduleReturn, Membership!SchedulePick,
         Membership!ScheduleReturn, Membership!PickChoices,
         Membership!Partitions, PickChoices, Partitions, serviceVars,
         rebalanceVars, Owed
    <2> QED
      BY <2>2 DEF Membership!Next
  <1> QED
    BY <1>1, <1>3, <1>4, <1>5, <1>6, <1>7, <1>8, <1>9, <1>10 DEF Next

\* The worker service, with its goroutines, its lock and its one-slot channel,
\* keeps the promises of Membership.
THEOREM MembershipIsImplemented == Spec => ImplementsMembership
  BY InitMembership, StepMembership, Invariance, PTL
     DEF Spec, ImplementsMembership, Membership!Spec
=============================================================================
