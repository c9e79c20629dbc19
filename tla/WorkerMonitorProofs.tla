------------------------ MODULE WorkerMonitorProofs -------------------------
(***************************************************************************)
(* No job is selected late, for any number of jobs, any lead and wait and  *)
(* any horizon of the clock.  The argument is about the timer: while the   *)
(* loop waits it is armed for a time no later than what each job of the    *)
(* partition allows, and the clock does not pass it.                       *)
(***************************************************************************)
EXTENDS WorkerMonitor, FiniteSetTheorems, WellFoundedInduction, TLAPS

Below == {ss \in Nat \X Nat : ss[1] < ss[2]}

\* A set of numbers has a least one.
LEMMA LeastNumber ==
  ASSUME NEW T \in SUBSET Nat, T # {}
  PROVE  \E x \in T : \A y \in T : x <= y
  <1>1. IsWellFoundedOn(Below, Nat)
    BY NatLessThanWellFounded DEF OpToRel, Below
  <1>2. PICK x \in T : \A y \in T : ~(<<y, x>> \in Below)
    BY <1>1, WFMin
  <1>3. ASSUME NEW y \in T PROVE x <= y
    <2>1. x \in Nat /\ y \in Nat /\ ~(y < x)
      BY <1>2 DEF Below
    <2> QED
      BY <2>1
  <1> QED
    BY <1>3

\* The next job is the earliest of those left.
LEMMA EarliestIsLeast ==
  ASSUME NEW S \in SUBSET Jobs, S # {}, \A j \in S : runAt[j] \in Nat
  PROVE  /\ \E j \in S : Earliest(S) = runAt[j]
         /\ \A j \in S : Earliest(S) <= runAt[j]
  <1> DEFINE T == {runAt[j] : j \in S}
  <1>1. T \in SUBSET Nat /\ T # {}
    OBVIOUS
  <1>2. \E x \in T : \A y \in T : x <= y
    <2> HIDE DEF T
    <2> QED
      BY <1>1, LeastNumber
  <1>3. \E x \in T : \A j \in S : x <= runAt[j]
    BY <1>2
  <1> QED
    BY <1>3 DEF Earliest

-----------------------------------------------------------------------------
\* What a job that comes in unheard may have to wait.
LongestWait == Latest(DefaultWait, MaxLead)

Quiet == ~refresh /\ ~notified

Typed ==
  /\ now \in Nat
  /\ runAt \in [Jobs -> Nat]
  /\ state \in [Jobs -> {"none", "Scheduled", "Pending"}]
  /\ arrived \in [Jobs -> Nat]
  /\ pc \in {"select", "arm", "wait"}
  /\ next \in Nat \cup {None}
  /\ timer \in Nat

\* A job came in at some time, and was due within MaxLead then.
ClockBounds ==
  \A j \in ScheduledJobs : runAt[j] <= now + MaxLead /\ arrived[j] <= now

\* After a select, next is not after any job it has seen; one that is heard
\* of since then has its notification on the way.
NextSound ==
  pc = "arm" =>
    /\ next <= now + MaxLead
    /\ \A j \in ScheduledJobs :
         \/ next # None /\ next <= runAt[j]
         \/ arrived[j] = now /\ (j \in heard => ~Quiet)

\* While the loop waits, the timer is early enough for each job.
TimerSound ==
  pc = "wait" =>
    /\ timer <= now + LongestWait
    /\ \A j \in ScheduledJobs :
         /\ timer <= Latest(runAt[j], arrived[j] + LongestWait)
         /\ j \in heard /\ Quiet => timer <= Latest(runAt[j], arrived[j])

IInv ==
  /\ Typed /\ ClockBounds /\ NextSound /\ TimerSound
  /\ LatenessBounded /\ OnTimeWhenHeard

-----------------------------------------------------------------------------
\* The constants are numbers.
LEMMA Waits ==
  /\ LongestWait \in Nat /\ DefaultWait \in Nat /\ MaxLead \in Nat
  /\ MaxLead <= LongestWait /\ DefaultWait <= LongestWait
  BY MonitorAssumption DEF LongestWait, Latest

\* The loop begins with an empty partition.
LEMMA InitIInv == Init => IInv
  BY MonitorAssumption DEF Init, IInv, Typed, ClockBounds, NextSound, TimerSound,
     LatenessBounded, OnTimeWhenHeard, ScheduledJobs

\* Nothing new: jobs leave, notifications arrive or are lost, the loop wakes.
LEMMA NothingNew ==
  ASSUME IInv, Typed', now' = now,
         \A j \in ScheduledJobs' :
           j \in ScheduledJobs /\ runAt'[j] = runAt[j] /\ arrived'[j] = arrived[j],
         heard' \subseteq heard,
         \/ pc' = "select"
         \/ UNCHANGED <<pc, next, timer>> /\ (Quiet' /\ heard' # {} => Quiet)
  PROVE  IInv'
  <1>1. ClockBounds' /\ LatenessBounded' /\ OnTimeWhenHeard'
    BY DEF IInv, Typed, ClockBounds, LatenessBounded, OnTimeWhenHeard, Latest
  <1>2. NextSound'
    BY DEF IInv, NextSound
  <1>3. TimerSound'
    BY DEF IInv, TimerSound, Latest, LongestWait
  <1> QED
    BY <1>1, <1>2, <1>3 DEF IInv

\* A job comes in: it is heard of only with a notification.
LEMMA ArriveStep ==
  ASSUME IInv, NEW i \in Jobs, NEW t \in 0..(now + MaxLead), Arrive(i, t),
         UNCHANGED <<now, loopVars>>,
         Quiet' => Quiet /\ ~listening
  PROVE  IInv'
  <1>1. /\ runAt' = [runAt EXCEPT ![i] = t]
        /\ state' = [state EXCEPT ![i] = "Scheduled"]
        /\ arrived' = [arrived EXCEPT ![i] = now]
        /\ UNCHANGED <<now, pc, next, timer>>
    BY DEF Arrive, loopVars
  <1>2. heard' \subseteq heard \cup {i}
    BY DEF Arrive
  <1>3. Quiet' => Quiet /\ i \notin heard'
    BY DEF Arrive
  <1> HIDE DEF Quiet
  <1>4. Typed'
    BY <1>1, Waits DEF IInv, Typed
  <1>5. ScheduledJobs' = ScheduledJobs \cup {i}
    BY <1>1 DEF IInv, Typed, ScheduledJobs
  <1>6. \A j \in ScheduledJobs' :
          \/ j = i /\ runAt'[j] = t /\ arrived'[j] = now
          \/ j # i /\ j \in ScheduledJobs /\ runAt'[j] = runAt[j] /\ arrived'[j] = arrived[j]
    BY <1>1, <1>5 DEF IInv, Typed, ScheduledJobs
  <1>7. /\ now \in Nat /\ t \in Nat /\ t <= now + MaxLead
        /\ \A j \in ScheduledJobs : runAt[j] \in Nat /\ arrived[j] \in Nat
        /\ timer \in Nat /\ next \in Int
    BY Waits DEF IInv, Typed, ScheduledJobs, None
  <1>8. ClockBounds'
    BY <1>1, <1>6, <1>7, Waits DEF IInv, ClockBounds
  <1>9. LatenessBounded' /\ OnTimeWhenHeard'
    BY <1>1, <1>2, <1>6, <1>7, Waits DEF IInv, LatenessBounded, OnTimeWhenHeard, Latest, LongestWait
  <1>10. NextSound'
    BY <1>1, <1>2, <1>3, <1>6, <1>7 DEF IInv, NextSound
  <1>11. TimerSound'
    <2>1. LongestWait' = LongestWait
      BY DEF LongestWait, Latest
    <2> HIDE DEF LongestWait
    <2> QED
      BY <1>1, <1>2, <1>3, <1>6, <1>7, <2>1, Waits DEF IInv, TimerSound, Latest
  <1> QED
    BY <1>4, <1>8, <1>9, <1>10, <1>11 DEF IInv

\* A full select has taken the oldest, so whatever is left is not before it.
LEMMA RestIsLater ==
  ASSUME IInv, IsFiniteSet(Jobs),
         NEW due, due = {k \in ScheduledJobs : runAt[k] <= now},
         NEW S \in Oldest(due), NEW j \in ScheduledJobs \ S
  PROVE  /\ S = {} => runAt[j] >= now
         /\ \A k \in S : runAt[j] >= runAt[k]
  <1>1. /\ now \in Nat /\ \A k \in ScheduledJobs : runAt[k] \in Nat
        /\ S \in SUBSET due /\ due \in SUBSET ScheduledJobs
    BY DEF IInv, Typed, ScheduledJobs, Oldest
  <1>2. CASE j \notin due
    BY <1>1, <1>2
  <1>3. CASE j \in due
    <2>1. \A k \in S : runAt[k] <= runAt[j]
      BY <1>3 DEF Oldest
    <2>2. S # {}
      <3>1. IsFiniteSet(due)
        BY <1>1, FS_Subset DEF ScheduledJobs
      <3>2. Cardinality(due) \in Nat \ {0}
        BY <1>3, <3>1, FS_CardinalityType, FS_EmptySet
      <3>3. Cardinality(S) = IF Cardinality(due) < BuffSize THEN Cardinality(due) ELSE BuffSize
        BY DEF Oldest
      <3>4. Cardinality(S) # 0
        BY <3>2, <3>3, MonitorAssumption
      <3> QED
        BY <3>4, FS_EmptySet
    <2> QED
      BY <1>1, <2>1, <2>2
  <1> QED
    BY <1>2, <1>3

\* The select takes the oldest of the due jobs and finds the next one.
LEMMA SelectStep ==
  ASSUME IInv, IsFiniteSet(Jobs), SelectJobsForExecution
  PROVE  IInv'
  <1> DEFINE due == {j \in ScheduledJobs : runAt[j] <= now}
             Later(S) == {j \in ScheduledJobs \ S :
                            IF S = {} THEN runAt[j] >= now
                                      ELSE \A k \in S : runAt[j] >= runAt[k]}
  <1>1. PICK S \in Oldest(due) :
          /\ Go(S, "Pending")
          /\ next' = IF Later(S) = {} THEN None ELSE Earliest(Later(S))
    BY DEF SelectJobsForExecution
  <1>2. Later(S) = ScheduledJobs \ S
    BY RestIsLater
  <1>3. pc' = "arm" /\ timer' = now /\ UNCHANGED <<now, notifyVars>>
    BY DEF SelectJobsForExecution
  <1>4. /\ state' = [j \in Jobs |-> IF j \in S THEN "Pending" ELSE state[j]]
        /\ runAt' = [j \in Jobs |-> IF j \in S THEN 0 ELSE runAt[j]]
        /\ arrived' = [j \in Jobs |-> IF j \in S THEN 0 ELSE arrived[j]]
        /\ heard' = heard \ S
    BY <1>1 DEF Go
  <1>5. /\ ScheduledJobs' = ScheduledJobs \ S
        /\ \A j \in ScheduledJobs' : runAt'[j] = runAt[j] /\ arrived'[j] = arrived[j]
    BY <1>4 DEF ScheduledJobs
  <1>6. /\ now \in Nat
        /\ \A j \in ScheduledJobs : runAt[j] \in Nat /\ arrived[j] \in Nat
        /\ \A j \in ScheduledJobs : runAt[j] <= now + MaxLead
    BY DEF IInv, Typed, ScheduledJobs, ClockBounds
  <1>7. /\ ScheduledJobs' = {} => next' = None
        /\ ScheduledJobs' # {} =>
             /\ next' \in Nat /\ next' <= now + MaxLead
             /\ \A j \in ScheduledJobs' : next' <= runAt[j]
    <2>1. CASE ScheduledJobs \ S = {}
      BY <1>1, <1>2, <1>5, <2>1
    <2>2. CASE ScheduledJobs \ S # {}
      <3>1. (ScheduledJobs \ S) \in SUBSET Jobs
        BY DEF ScheduledJobs
      <3>2. \A j \in ScheduledJobs \ S : runAt[j] \in Nat
        BY <1>6
      <3>3. next' = Earliest(ScheduledJobs \ S)
        BY <1>1, <1>2, <2>2
      <3>4. /\ \E j \in ScheduledJobs \ S : next' = runAt[j]
            /\ \A j \in ScheduledJobs \ S : next' <= runAt[j]
        BY <2>2, <3>1, <3>2, <3>3, EarliestIsLeast
      <3> QED
        BY <1>5, <1>6, <2>2, <3>4
    <2> QED
      BY <2>1, <2>2
  <1>8. Typed'
    BY <1>3, <1>4, <1>6, <1>7 DEF IInv, Typed
  <1>9. ClockBounds' /\ LatenessBounded' /\ OnTimeWhenHeard'
    BY <1>3, <1>4, <1>5, <1>6 DEF IInv, ClockBounds, LatenessBounded, OnTimeWhenHeard, Latest
  <1>10. NextSound'
    <2>1. None <= now + MaxLead
      BY <1>6, Waits DEF None
    <2>2. \A k \in Nat : k # None
      BY DEF None
    <2> QED
      BY <1>3, <1>5, <1>7, <2>1, <2>2 DEF NextSound
  <1>11. TimerSound'
    BY <1>3 DEF TimerSound
  <1> QED
    BY <1>8, <1>9, <1>10, <1>11 DEF IInv

\* The timer is armed.
LEMMA ArmStep == ASSUME IInv, ArmTimer PROVE IInv'
  <1>1. /\ pc = "arm" /\ pc' = "wait" /\ next' = None
        /\ timer' = IF next = None THEN now + DefaultWait ELSE Latest(next, now)
        /\ UNCHANGED <<now, runAt, state, arrived, heard, notified, listening, refresh>>
    BY DEF ArmTimer, Reset, jobVars, notifyVars
  <1>2. /\ now \in Nat /\ next \in Nat \cup {None} /\ next <= now + MaxLead
        /\ \A j \in ScheduledJobs : runAt[j] \in Nat /\ arrived[j] \in Nat
    BY <1>1 DEF IInv, Typed, ScheduledJobs, NextSound
  <1>3. timer' \in Nat /\ timer' <= now + LongestWait
    BY <1>1, <1>2, Waits DEF Latest
  <1>4. ASSUME NEW j \in ScheduledJobs
        PROVE  /\ timer' <= Latest(runAt[j], arrived[j] + LongestWait)
               /\ j \in heard /\ Quiet => timer' <= Latest(runAt[j], arrived[j])
    <2>1. /\ now <= Latest(runAt[j], arrived[j] + LongestWait)
          /\ j \in heard => now <= Latest(runAt[j], arrived[j])
      BY <1>4 DEF IInv, LatenessBounded, OnTimeWhenHeard, LongestWait
    <2>2. CASE next # None /\ next <= runAt[j]
      <3>1. timer' = Latest(next, now) /\ next \in Nat
        BY <1>1, <1>2, <2>2
      <3> QED
        BY <1>2, <1>4, <2>1, <2>2, <3>1, Waits DEF Latest
    <2>3. CASE arrived[j] = now /\ (j \in heard => ~Quiet)
      <3>1. now + LongestWait <= Latest(runAt[j], arrived[j] + LongestWait)
        BY <1>2, <1>4, <2>3, Waits DEF Latest
      <3>2. timer' <= Latest(runAt[j], arrived[j] + LongestWait)
        BY <1>2, <1>3, <1>4, <3>1, Waits DEF Latest
      <3> QED
        BY <2>3, <3>2
    <2> QED
      BY <1>1, <1>4, <2>2, <2>3 DEF IInv, NextSound
  <1>5. UNCHANGED <<ScheduledJobs, Quiet>>
    BY <1>1 DEF ScheduledJobs, Quiet
  <1>6. Typed'
    BY <1>1, <1>3 DEF IInv, Typed
  <1>7. ClockBounds' /\ LatenessBounded' /\ OnTimeWhenHeard' /\ NextSound'
    BY <1>1, <1>5 DEF IInv, ClockBounds, LatenessBounded, OnTimeWhenHeard, NextSound
  <1>8. TimerSound'
    BY <1>1, <1>3, <1>4, <1>5 DEF TimerSound, LongestWait
  <1> QED
    BY <1>6, <1>7, <1>8 DEF IInv

\* The clock does not pass the timer.
LEMMA TickStep == ASSUME IInv, Tick PROVE IInv'
  <1>1. /\ pc = "wait" /\ timer > now /\ now' = now + 1
        /\ UNCHANGED <<runAt, state, arrived, heard, pc, next, timer>>
        /\ UNCHANGED <<notified, refresh>>
    BY DEF Tick, jobVars, loopVars, notifyVars
  <1>2. Quiet /\ Quiet' = Quiet
    BY <1>1 DEF Tick, Quiet
  <1> HIDE DEF Quiet
  <1>3. /\ now \in Nat /\ timer \in Nat /\ now + 1 <= timer
        /\ \A j \in ScheduledJobs : runAt[j] \in Nat /\ arrived[j] \in Nat
    BY <1>1 DEF IInv, Typed, ScheduledJobs
  <1>4. ScheduledJobs' = ScheduledJobs
    BY <1>1 DEF ScheduledJobs
  <1>5. Typed'
    BY <1>1, <1>3 DEF IInv, Typed
  <1>6. ClockBounds'
    BY <1>1, <1>3, <1>4, Waits DEF IInv, ClockBounds
  <1>7. LatenessBounded' /\ OnTimeWhenHeard'
    BY <1>1, <1>2, <1>3, <1>4, Waits DEF IInv, TimerSound, LatenessBounded, OnTimeWhenHeard,
       Latest, LongestWait
  <1>8. NextSound'
    BY <1>1 DEF NextSound
  <1>9. TimerSound'
    <2>1. LongestWait' = LongestWait
      BY DEF LongestWait, Latest
    <2> QED
      BY <1>1, <1>2, <1>3, <1>4, <2>1, Waits DEF IInv, TimerSound, Latest
  <1> QED
    BY <1>5, <1>6, <1>7, <1>8, <1>9 DEF IInv

-----------------------------------------------------------------------------
\* A notification comes with each job, if Listen is there to get it.
LEMMA ComeStep ==
  ASSUME IInv, NEW j \in Jobs, Insert(j) \/ MoveIn(j)
  PROVE  IInv'
  <1>1. /\ notified' = (notified \/ listening) /\ refresh' = refresh
        /\ UNCHANGED <<now, loopVars>>
    BY DEF Insert, MoveIn
  <1>2. \E t \in 0..(now + MaxLead) : Arrive(j, t)
    <2>1. now \in Nat /\ MinLead \in Nat
      BY MonitorAssumption DEF IInv, Typed
    <2>2. Acceptable \in SUBSET (0..(now + MaxLead))
      BY <2>1 DEF Acceptable
    <2> QED
      BY <2>2 DEF Insert, MoveIn
  <1>3. Quiet' => Quiet /\ ~listening
    BY <1>1, Zenon DEF Quiet
  <1> QED
    BY <1>1, <1>2, <1>3, ArriveStep

\* The steps that bring nothing new.
LEMMA QuietStep ==
  ASSUME IInv,
         \/ \E j \in Jobs : MoveOut(j)
         \/ StartListen \/ Deliver \/ Lose \/ WakeByTimer \/ WakeByRefresh
         \/ UNCHANGED vars
  PROVE  IInv'
  <1>1. now' = now /\ (pc' = "select" \/ pc' = pc) /\ UNCHANGED <<next, timer>>
    BY DEF MoveOut, StartListen, Deliver, Send, Lose, WakeByTimer, WakeByRefresh, vars, loopVars
  <1>2. /\ \A k \in ScheduledJobs' :
             k \in ScheduledJobs /\ runAt'[k] = runAt[k] /\ arrived'[k] = arrived[k]
        /\ heard' \subseteq heard
        /\ runAt' \in [Jobs -> Nat] /\ arrived' \in [Jobs -> Nat]
        /\ state' \in [Jobs -> {"none", "Scheduled", "Pending"}]
    <2>1. CASE \E j \in Jobs : MoveOut(j)
      BY <2>1 DEF MoveOut, Go, ScheduledJobs, IInv, Typed
    <2>2. CASE ~\E j \in Jobs : MoveOut(j)
      <3>1. UNCHANGED <<runAt, state, arrived>> /\ heard' \in {heard, {}}
        BY <2>2 DEF StartListen, Deliver, Send, Lose, WakeByTimer, WakeByRefresh, vars, jobVars
      <3> QED
        BY <3>1 DEF ScheduledJobs, IInv, Typed
    <2> QED
      BY <2>1, <2>2
  <1>3. \/ pc' = "select"
        \/ Quiet' /\ heard' # {} => Quiet
    BY Zenon DEF MoveOut, StartListen, Deliver, Send, Lose, WakeByTimer, WakeByRefresh, vars,
       notifyVars, Quiet
  <1>4. Typed'
    BY <1>1, <1>2 DEF IInv, Typed
  <1>5. \/ pc' = "select"
        \/ UNCHANGED <<pc, next, timer>> /\ (Quiet' /\ heard' # {} => Quiet)
    BY <1>1, <1>3, Zenon
  <1> QED
    BY <1>1, <1>2, <1>4, <1>5, NothingNew

\* Every step keeps the invariant.
LEMMA NextIInv == ASSUME IsFiniteSet(Jobs), IInv, [Next]_vars PROVE IInv'
  BY ComeStep, QuietStep, SelectStep, ArmStep, TickStep DEF Next

\* The invariant holds throughout.
THEOREM Invariance == ASSUME IsFiniteSet(Jobs) PROVE Spec => []IInv
  <1>1. Init => IInv
    BY InitIInv
  <1>2. IInv /\ [Next]_vars => IInv'
    BY NextIInv
  <1> QED
    BY <1>1, <1>2, PTL DEF Spec

\* For any number of jobs, any lead, any default wait and any horizon of the
\* clock: a job waits no longer than that, whatever notifications get lost.
THEOREM LatenessIsBounded == ASSUME IsFiniteSet(Jobs) PROVE Spec => []LatenessBounded
  <1>1. IInv => LatenessBounded
    BY DEF IInv
  <1> QED
    BY <1>1, Invariance, PTL

\* A job whose notification was heard is selected when it is due.
THEOREM HeardIsOnTime == ASSUME IsFiniteSet(Jobs) PROVE Spec => []OnTimeWhenHeard
  <1>1. IInv => OnTimeWhenHeard
    BY DEF IInv
  <1> QED
    BY <1>1, Invariance, PTL

-----------------------------------------------------------------------------
\* The types, in two parts: the numbers and the sets, the signals.
DataTypes ==
  /\ now \in Times
  /\ runAt \in [Jobs -> RunTimes]
  /\ state \in [Jobs -> {"none", "Scheduled", "Pending"}]
  /\ arrived \in [Jobs -> Times]
  /\ pc \in {"select", "arm", "wait"}
  /\ next \in RunTimes \cup {None}
  /\ timer \in RunTimes \cup 0..(MaxTime + DefaultWait)
  /\ heard \in SUBSET Jobs
SignalTypes == notified \in BOOLEAN /\ listening \in BOOLEAN /\ refresh \in BOOLEAN

\* The loop's own steps keep to the horizon.
LEMMA LoopTypes ==
  ASSUME DataTypes, SelectJobsForExecution \/ ArmTimer \/ WakeByTimer \/ WakeByRefresh \/ Tick
  PROVE  DataTypes'
  <1>1. /\ MaxTime \in Nat /\ MaxLead \in Nat /\ DefaultWait \in Nat
        /\ now \in 0..MaxTime /\ 0 \in Times /\ 0 \in RunTimes
    BY MonitorAssumption DEF DataTypes, Times, RunTimes
  <1>2. CASE SelectJobsForExecution
    <2>1. PICK S \in SUBSET ScheduledJobs, later \in SUBSET ScheduledJobs :
            /\ Go(S, "Pending")
            /\ next' = IF later = {} THEN None ELSE Earliest(later)
      BY <1>2 DEF SelectJobsForExecution, Oldest
    <2>2. next' \in RunTimes \cup {None}
      <3>1. /\ later \in SUBSET Jobs
            /\ \A j \in later : runAt[j] \in RunTimes /\ runAt[j] \in Nat
        BY <1>1 DEF DataTypes, ScheduledJobs, RunTimes
      <3>2. CASE later # {}
        BY <2>1, <3>1, <3>2, EarliestIsLeast
      <3> QED
        BY <2>1, <3>2
    <2>3. timer' = now /\ pc' = "arm" /\ now' = now
      BY <1>2 DEF SelectJobsForExecution
    <2>4. timer' \in RunTimes
      BY <1>1, <2>3 DEF RunTimes
    <2> QED
      BY <1>1, <2>1, <2>2, <2>3, <2>4 DEF Go, DataTypes
  <1>3. CASE ArmTimer
    <2>1. timer' \in RunTimes \cup 0..(MaxTime + DefaultWait)
      BY <1>1, <1>3 DEF ArmTimer, Reset, Latest, DataTypes, RunTimes
    <2> QED
      BY <1>3, <2>1 DEF ArmTimer, Reset, jobVars, DataTypes
  <1>4. CASE WakeByTimer \/ WakeByRefresh
    BY <1>4 DEF WakeByTimer, WakeByRefresh, jobVars, DataTypes
  <1>5. CASE Tick
    <2>1. now' \in Times
      BY <1>1, <1>5 DEF Tick, Times
    <2> QED
      BY <1>5, <2>1 DEF Tick, jobVars, loopVars, DataTypes
  <1> QED
    BY <1>2, <1>3, <1>4, <1>5

\* Jobs come and go within the horizon.
LEMMA JobTypes ==
  ASSUME DataTypes,
         \/ \E j \in Jobs : Insert(j) \/ MoveIn(j) \/ MoveOut(j)
         \/ StartListen \/ Deliver \/ Lose \/ UNCHANGED vars
  PROVE  DataTypes'
  <1>1. /\ MaxTime \in Nat /\ MaxLead \in Nat /\ MinLead \in Nat /\ now \in 0..MaxTime
        /\ 0 \in Times /\ 0 \in RunTimes
    BY MonitorAssumption DEF DataTypes, Times, RunTimes
  <1>2. ASSUME NEW j \in Jobs, Insert(j) \/ MoveIn(j) PROVE DataTypes'
    <2>1. PICK t \in RunTimes : Arrive(j, t)
      <3>1. Acceptable \in SUBSET RunTimes /\ 0..(now + MaxLead) \in SUBSET RunTimes
        BY <1>1 DEF Acceptable, RunTimes
      <3> QED
        BY <1>2, <3>1 DEF Insert, MoveIn
    <2>2. UNCHANGED <<now, pc, next, timer>>
      BY <1>2 DEF Insert, MoveIn, loopVars
    <2> QED
      BY <2>1, <2>2 DEF Arrive, DataTypes
  <1>3. ASSUME NEW j \in Jobs, MoveOut(j) PROVE DataTypes'
    BY <1>1, <1>3 DEF MoveOut, Go, loopVars, DataTypes
  <1>4. CASE StartListen \/ Deliver \/ Lose \/ UNCHANGED vars
    <2>1. UNCHANGED <<now, runAt, state, arrived, pc, next, timer>> /\ heard' \in {heard, {}}
      BY <1>4 DEF StartListen, Deliver, Send, Lose, vars, jobVars, loopVars
    <2> QED
      BY <2>1 DEF DataTypes
  <1> QED
    BY <1>2, <1>3, <1>4

\* Every variable of the loop has its type.
THEOREM TypeCorrect == Spec => []TypeOK
  <1>1. Init => DataTypes /\ SignalTypes
    <2>1. Init => DataTypes
      BY MonitorAssumption DEF Init, DataTypes, Times, RunTimes
    <2>2. Init => SignalTypes
      BY Zenon DEF Init, SignalTypes
    <2> QED
      BY <2>1, <2>2
  <1>2. DataTypes /\ SignalTypes /\ [Next]_vars => (DataTypes /\ SignalTypes)'
    <2>1. DataTypes /\ [Next]_vars => DataTypes'
      BY LoopTypes, JobTypes DEF Next
    <2>2. SignalTypes /\ [Next]_vars => SignalTypes'
      BY Zenon DEF SignalTypes, Next, vars, notifyVars, Insert, MoveIn, MoveOut, StartListen,
         Deliver, Send, Lose, SelectJobsForExecution, ArmTimer, Reset, WakeByTimer,
         WakeByRefresh, Tick
    <2> QED
      BY <2>1, <2>2
  <1>3. DataTypes /\ SignalTypes => TypeOK
    BY Zenon DEF DataTypes, SignalTypes, TypeOK
  <1> QED
    BY <1>1, <1>2, <1>3, PTL DEF Spec
=============================================================================
