---------------------------- MODULE WorkerMonitor ---------------------------
(***************************************************************************)
(* When a job is selected: the loop of internal/worker/monitor.go for one  *)
(* partition, the notifications that wake it (Notify and Listen of         *)
(* internal/storage/db.go) and the clock.                                  *)
(*                                                                         *)
(* What a process does at once takes no time: the clock ticks only when    *)
(* the loop waits, its timer has not fired and no notification is on its   *)
(* way.  A notification can be lost: LISTEN is issued by a goroutine that  *)
(* starts while the loop already selects, and a broken connection is       *)
(* replaced without what was sent meanwhile.                               *)
(*                                                                         *)
(* A value the code reads no more (the run_at of a selected job, a timer   *)
(* that is stopped) is reset, to save states.                              *)
(***************************************************************************)
EXTENDS Integers, FiniteSets

CONSTANTS
  Jobs,
  BuffSize,     \* jobs selected at a time (100 in the code)
  DefaultWait,  \* the wait when no job is scheduled (5 minutes)
  MinLead,      \* run_at is at least this far away when scheduled (3 minutes)
  MaxLead,      \* and at most this far (30 days)
  MaxTime       \* bound: the clock stops there

ASSUME MonitorAssumption ==
  /\ BuffSize \in Nat \ {0} /\ DefaultWait \in Nat \ {0}
  /\ MinLead \in Nat /\ MaxLead \in Nat /\ MaxTime \in Nat

VARIABLES
  now,        \* the clock
  runAt,      \* job -> run_at
  state,      \* job -> "none", "Scheduled" (in this partition), "Pending"
  arrived,    \* job -> when it came into the partition
  pc,         \* "select", "arm" (before timer.Reset) or "wait"
  next,       \* the run_at of the job selected as the next one, or None
  timer,      \* when the timer fires
  notified,   \* a notification is on its way to Listen
  listening,  \* LISTEN has been issued
  refresh,    \* the one-slot channel between Listen and the loop is full
  heard       \* history: jobs that came in while Listen was listening and
              \* whose notification was not lost

jobVars == <<runAt, state, arrived, heard>>
loopVars == <<pc, next, timer>>
notifyVars == <<notified, listening, refresh>>
vars == <<now, jobVars, loopVars, notifyVars>>

Times == 0..MaxTime
Latest(a, b) == IF a < b THEN b ELSE a
RunTimes == 0..(MaxTime + MaxLead)
None == -1

TypeOK ==
  /\ now \in Times
  /\ runAt \in [Jobs -> RunTimes]
  /\ state \in [Jobs -> {"none", "Scheduled", "Pending"}]
  /\ arrived \in [Jobs -> Times]
  /\ pc \in {"select", "arm", "wait"}
  /\ next \in RunTimes \cup {None}
  /\ timer \in RunTimes \cup 0..(MaxTime + DefaultWait)
  /\ notified \in BOOLEAN /\ listening \in BOOLEAN /\ refresh \in BOOLEAN
  /\ heard \in SUBSET Jobs

-----------------------------------------------------------------------------
ScheduledJobs == {j \in Jobs : state[j] = "Scheduled"}
Earliest(S) == CHOOSE t \in {runAt[j] : j \in S} : \A j \in S : t <= runAt[j]

Init ==
  /\ now = 0
  /\ runAt = [j \in Jobs |-> 0]
  /\ state = [j \in Jobs |-> "none"]
  /\ arrived = [j \in Jobs |-> 0]
  /\ pc = "select"
  /\ next = None
  /\ timer = DefaultWait
  /\ notified = FALSE
  /\ listening = FALSE
  /\ refresh = FALSE
  /\ heard = {}

-----------------------------------------------------------------------------
(* Jobs come into the partition, with a NOTIFY.                            *)

Arrive(j, t) ==
  /\ state[j] = "none"
  /\ runAt' = [runAt EXCEPT ![j] = t]
  /\ state' = [state EXCEPT ![j] = "Scheduled"]
  /\ arrived' = [arrived EXCEPT ![j] = now]
  /\ heard' = IF listening THEN heard \cup {j} ELSE heard \ {j}

\* The run_at that Validate accepts.
Acceptable == (now + MinLead)..(now + MaxLead)

\* InsertScheduledJob: the INSERT is committed, then NOTIFY is sent to whoever
\* listens.
Insert(j) ==
  /\ \E t \in Acceptable : Arrive(j, t)
  /\ notified' = (notified \/ listening)
  /\ UNCHANGED <<now, loopVars, listening, refresh>>

\* A rebalance moves a job here, overdue perhaps; its NOTIFY is delivered with
\* the commit.
MoveIn(j) ==
  /\ \E t \in 0..(now + MaxLead) : Arrive(j, t)
  /\ notified' = (notified \/ listening)
  /\ UNCHANGED <<now, loopVars, listening, refresh>>

\* The jobs S are Scheduled here no longer.
Go(S, s) ==
  /\ state' = [j \in Jobs |-> IF j \in S THEN s ELSE state[j]]
  /\ runAt' = [j \in Jobs |-> IF j \in S THEN 0 ELSE runAt[j]]
  /\ arrived' = [j \in Jobs |-> IF j \in S THEN 0 ELSE arrived[j]]
  /\ heard' = heard \ S

\* A rebalance takes a job away.
MoveOut(j) ==
  /\ state[j] = "Scheduled"
  /\ Go({j}, "none")
  /\ UNCHANGED <<now, loopVars, notifyVars>>

-----------------------------------------------------------------------------
(* Listen.                                                                 *)

StartListen ==
  /\ ~listening
  /\ listening' = TRUE
  /\ UNCHANGED <<now, jobVars, loopVars, notified, refresh>>

\* The notification is sent on without waiting if there is room.
Send(room) ==
  /\ notified
  /\ notified' = FALSE
  /\ refresh' = (refresh \/ room)
  /\ UNCHANGED <<now, jobVars, loopVars, listening>>

\* Faulty variant: the channel has no slot, so a send succeeds only while the
\* loop waits.
Deliver_Unbuffered == Send(pc = "wait")

\* A notification for the partition; when the slot is full it is dropped.
Deliver == Send(TRUE)

\* It is lost with the connection.
Lose ==
  /\ notified
  /\ notified' = FALSE
  /\ heard' = {}
  /\ UNCHANGED <<now, runAt, state, arrived, loopVars, listening, refresh>>

-----------------------------------------------------------------------------
(* The loop.                                                               *)

\* The due jobs one select takes: the oldest, at most BuffSize.
Oldest(due) ==
  {S \in SUBSET due :
     /\ Cardinality(S) = IF Cardinality(due) < BuffSize THEN Cardinality(due)
                                                      ELSE BuffSize
     /\ \A j \in S, k \in due \ S : runAt[j] <= runAt[k]}

\* SelectJobsForExecution: the due jobs become Pending; next is the first of
\* those left with run_at >= that of the last selected one, or >= now when
\* none was selected.
SelectJobsForExecution ==
  LET due == {j \in ScheduledJobs : runAt[j] <= now} IN
  /\ pc = "select"
  /\ \E S \in Oldest(due) :
       LET rest == ScheduledJobs \ S
           later == {j \in rest : IF S = {} THEN runAt[j] >= now
                                  ELSE \A k \in S : runAt[j] >= runAt[k]} IN
       /\ Go(S, "Pending")
       /\ next' = IF later = {} THEN None ELSE Earliest(later)
  /\ pc' = "arm"
  /\ timer' = now
  /\ UNCHANGED <<now, notifyVars>>

Reset(t) ==
  /\ pc = "arm"
  /\ timer' = t
  /\ next' = None
  /\ pc' = "wait"
  /\ UNCHANGED <<now, jobVars, notifyVars>>

\* Faulty variant: a job that is already due is waited for by default.
ArmTimer_OverdueLater == Reset(IF next > now THEN next ELSE now + DefaultWait)

\* Faulty variant: the zero time of a missing next job is taken for a time.
ArmTimer_NoZeroCheck == Reset(next)

\* timer.Reset: until the next job, a nanosecond if that is overdue already,
\* DefaultWait if there is none.
ArmTimer == Reset(IF next = None THEN now + DefaultWait ELSE Latest(next, now))

WakeByTimer ==
  /\ pc = "wait" /\ timer <= now
  /\ pc' = "select"
  /\ UNCHANGED <<now, jobVars, next, timer, notifyVars>>

WakeByRefresh ==
  /\ pc = "wait" /\ refresh
  /\ refresh' = FALSE
  /\ pc' = "select"
  /\ UNCHANGED <<now, jobVars, next, timer, notified, listening>>

\* A minute passes when nothing is left to do at this one.
Tick ==
  /\ now < MaxTime
  /\ pc = "wait" /\ timer > now /\ ~refresh /\ ~notified
  /\ now' = now + 1
  /\ UNCHANGED <<jobVars, loopVars, notifyVars>>

-----------------------------------------------------------------------------
Next ==
  \/ \E j \in Jobs : Insert(j) \/ MoveIn(j) \/ MoveOut(j)
  \/ StartListen \/ Deliver \/ Lose
  \/ SelectJobsForExecution \/ ArmTimer \/ WakeByTimer \/ WakeByRefresh
  \/ Tick

Spec == Init /\ [][Next]_vars

-----------------------------------------------------------------------------
(* Properties.                                                             *)

\* Whatever notifications are lost, a job is selected when it is due or, if it
\* came in unheard, when the timer that was set by then fires: after the
\* default wait, or at the run_at of a job scheduled earlier, however far away
\* that is.
LatenessBounded ==
  \A j \in ScheduledJobs :
    now <= Latest(runAt[j], arrived[j] + Latest(DefaultWait, MaxLead))

\* A job that came in while Listen was listening, and whose notification was
\* not lost, is never late: the slot of the channel keeps a notification that
\* arrives between a select and the wait, and the jobs a full select leaves are
\* taken at once.
OnTimeWhenHeard ==
  \A j \in ScheduledJobs \cap heard : now <= Latest(runAt[j], arrived[j])
=============================================================================
