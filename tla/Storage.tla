------------------------------- MODULE Storage ------------------------------
(***************************************************************************)
(* The job tables, internal/storage/db.go: the statements by which the     *)
(* server and the workers share scheduled_jobs and executions under        *)
(* PostgreSQL's default isolation, READ COMMITTED.                         *)
(*                                                                         *)
(* The transaction of a rebalance is long and is modelled one statement at *)
(* a time: a statement reads the committed rows and the transaction's own  *)
(* uncommitted ones, and a row it wrote stays locked until the end.  The   *)
(* other transactions touch few rows and are one step each; a step that    *)
(* would wait for a locked row is disabled until the rebalance ends.       *)
(*                                                                         *)
(* Time is abstracted: any of a partition's Scheduled rows may be the ones *)
(* whose run_at has passed (WorkerMonitor has the clock).                  *)
(***************************************************************************)
EXTENDS Integers, FiniteSets

CONSTANTS
  Jobs,       \* job rows that may come to exist
  MaxPart,    \* bound: the largest partition number
  BuffSize,   \* jobs selected at a time (100 in the worker's monitor)
  MaxOut      \* bound: copies of one job that executors hold at a time

ASSUME StorageAssumption ==
  MaxPart \in Nat /\ BuffSize \in Nat /\ MaxOut \in Nat

VARIABLES
  rows,       \* scheduled_jobs: job -> [status, partition], committed
  executions, \* executions: job -> number of rows
  draft,      \* the rebalance's uncommitted rows; its domain is row-locked
  txPc,       \* the rebalance: "idle", "orphans", "count", "move", "commit"
  active,     \* the partitions it was given
  grps,       \* the live rows its counting query saw
  toAdd,      \* partition -> rows it has still to gain, or to lose if < 0
  last,       \* the partition that gained rows last, or 0
  out,        \* job -> copies in the hands of executors
  requeued    \* history: jobs a rebalance has put back to Scheduled

txVars == <<draft, txPc, active, grps, toAdd, last>>
execVars == <<out, requeued>>
vars == <<rows, executions, txVars, execVars>>

PartIds == 1..MaxPart
Finished == {"Success", "Fail"}
Live == {"Scheduled", "Pending"}
Rows == [status : {"none"} \cup Live \cup Finished, partition : 0..MaxPart]
NoRow == [status |-> "none", partition |-> 0]
NoneToAdd == [p \in PartIds |-> 0]

TypeOK ==
  /\ rows \in [Jobs -> Rows]
  /\ executions \in [Jobs -> 0..MaxOut]
  /\ DOMAIN draft \subseteq Jobs
  /\ \A j \in DOMAIN draft : draft[j] \in Rows
  /\ txPc \in {"idle", "orphans", "count", "move", "commit"}
  /\ active \in SUBSET PartIds
  /\ grps \in SUBSET Jobs
  /\ toAdd \in [PartIds -> Int]
  /\ last \in 0..MaxPart
  /\ out \in [Jobs -> 0..MaxOut]
  /\ requeued \in SUBSET Jobs

-----------------------------------------------------------------------------
\* The row as the rebalance's transaction sees it.
View(j) == IF j \in DOMAIN draft THEN draft[j] ELSE rows[j]

\* The rows the transaction sees in a partition, of any status.
InPartition(p) ==
  {j \in Jobs : View(j).status # "none" /\ View(j).partition = p}

\* UPDATE ... SET partition = p of the rows S.
MoveTo(S, p) ==
  draft' = [j \in DOMAIN draft \cup S |->
              IF j \in S THEN [View(j) EXCEPT !.partition = p] ELSE draft[j]]

\* LIMIT n: the database may return any n of the rows S.
Limited(S, n) ==
  {R \in SUBSET S : Cardinality(R) = IF n < Cardinality(S) THEN n
                                                          ELSE Cardinality(S)}

Init ==
  /\ rows = [j \in Jobs |-> NoRow]
  /\ executions = [j \in Jobs |-> 0]
  /\ draft = [j \in {} |-> NoRow]
  /\ txPc = "idle"
  /\ active = {}
  /\ grps = {}
  /\ toAdd = NoneToAdd
  /\ last = 0
  /\ out = [j \in Jobs |-> 0]
  /\ requeued = {}

-----------------------------------------------------------------------------
(* The server's and the workers' short transactions.                       *)

InsertRow(j, r) ==
  /\ rows[j].status = "none"
  /\ rows' = [rows EXCEPT ![j] = r]
  /\ UNCHANGED <<executions, txVars, execVars>>

\* Faulty variant: the status is left at its zero value, "undefined".
InsertScheduledJob_NoStatus(j, p) ==
  InsertRow(j, [status |-> "undefined", partition |-> p])

\* InsertScheduledJob, the INSERT.  Its NOTIFY is in WorkerMonitor.
InsertScheduledJob(j, p) ==
  InsertRow(j, [status |-> "Scheduled", partition |-> p])

\* The rows SelectJobsForExecution may return for a partition.
Selectable(p) ==
  {j \in Jobs : rows[j] = [status |-> "Scheduled", partition |-> p]}

\* The rows S are handed to the worker of their partition.
HandOver(p, S) ==
  /\ S \in SUBSET Selectable(p) /\ S # {}
  /\ Cardinality(S) <= BuffSize
  /\ \A j \in S : out[j] < MaxOut
  /\ out' = [j \in Jobs |-> IF j \in S THEN out[j] + 1 ELSE out[j]]
  /\ UNCHANGED <<executions, txVars, requeued>>

\* Faulty variant: selected without FOR UPDATE and not marked as Pending.
SelectJobsForExecution_Unmarked(p, S) == UNCHANGED rows /\ HandOver(p, S)

\* SelectJobsForExecution that returns the jobs S: they become Pending.
SelectJobsForExecution(p, S) ==
  /\ HandOver(p, S)
  /\ S \cap DOMAIN draft = {}
  /\ rows' = [j \in Jobs |-> IF j \in S THEN [rows[j] EXCEPT !.status = "Pending"]
                                        ELSE rows[j]]

\* UpdateJobStatus, whatever the status was, and n executions rows.
Record(j, outcome, n) ==
  /\ out[j] > 0
  /\ rows' = [rows EXCEPT ![j].status = outcome]
  /\ executions' = [executions EXCEPT ![j] = @ + n]
  /\ out' = [out EXCEPT ![j] = @ - 1]
  /\ UNCHANGED <<txVars, requeued>>

\* Faulty variant: the row is written without waiting for its lock.
FinishJob_NoRowLock(j, outcome) == Record(j, outcome, 1)

\* Faulty variant: UpdateJobStatus without InsertExecution.
FinishJob_StatusOnly(j, outcome) ==
  j \notin DOMAIN draft /\ Record(j, outcome, 0)

\* The transaction of an executor that has processed its copy of j.
FinishJob(j, outcome) == j \notin DOMAIN draft /\ Record(j, outcome, 1)

\* An executor ends without that transaction: its process stops, or the
\* transaction fails, which process() returns and start() only logs.
LoseCopy(j) ==
  /\ out[j] > 0
  /\ out' = [out EXCEPT ![j] = @ - 1]
  /\ UNCHANGED <<rows, executions, txVars, requeued>>

-----------------------------------------------------------------------------
(* ReBalance, one statement at a time.                                     *)

Begin(A) ==
  /\ txPc = "idle"
  /\ txPc' = "orphans"
  /\ active' = A
  /\ UNCHANGED <<rows, executions, draft, grps, toAdd, last, execVars>>

\* Those of the rows S that are outside the active partitions are Scheduled
\* again in partition 0.  Without active partitions that is all there is to do.
PutBack(S) ==
  /\ txPc = "orphans"
  /\ draft' = [j \in {k \in S : rows[k].partition \notin active} |->
                 [status |-> "Scheduled", partition |-> 0]]
  /\ txPc' = IF active = {} THEN "commit" ELSE "count"
  /\ UNCHANGED <<rows, executions, active, grps, toAdd, last, execVars>>

\* Faulty variant: without the condition on the status.
UpdateJobsPartitions_AnyStatus == PutBack({j \in Jobs : rows[j].status # "none"})

\* Faulty variant: WHERE status = Scheduled.
UpdateJobsPartitions_ScheduledOnly ==
  PutBack({j \in Jobs : rows[j].status = "Scheduled"})

\* UpdateJobsPartitions(active, 0).
UpdateJobsPartitions == PutBack({j \in Jobs : rows[j].status \in Live})

\* The live rows, and those of one partition, as the counting query sees them.
LiveRows == {j \in Jobs : View(j).status \in Live}
Count(p) == Cardinality({j \in LiveRows : View(j).partition = p})

\* Each active partition is to have perBucket rows, any other none.
Share(perBucket) ==
  /\ txPc = "count"
  /\ grps' = LiveRows
  /\ toAdd' = [p \in PartIds |-> IF p \in active THEN perBucket - Count(p)
                                                 ELSE -Count(p)]
  /\ txPc' = "move"
  /\ UNCHANGED <<rows, executions, draft, active, last, execVars>>

\* Faulty variant: the rows in partition 0 are left out of the total.
CountGroups_WithoutOrphans ==
  Share((Cardinality(LiveRows) - Count(0)) \div Cardinality(active))

\* Equal shares, rounded down.
CountGroups == Share(Cardinality(LiveRows) \div Cardinality(active))

\* RemovesJobsFromPartition of one group: that many of its rows, finished
\* ones among them.
RemovesJobsFromPartition(p) ==
  /\ txPc = "move"
  /\ toAdd[p] < 0
  /\ \E R \in Limited(InPartition(p), -toAdd[p]) : MoveTo(R, 0)
  /\ toAdd' = [toAdd EXCEPT ![p] = 0]
  /\ UNCHANGED <<rows, executions, txPc, active, grps, last, execVars>>

\* AssignJobsToPartition of one group, once every removal is done.
AssignJobsToPartition(p) ==
  /\ txPc = "move"
  /\ \A q \in PartIds : toAdd[q] >= 0
  /\ toAdd[p] > 0
  /\ \E R \in Limited(InPartition(0), toAdd[p]) : MoveTo(R, p)
  /\ toAdd' = [toAdd EXCEPT ![p] = 0]
  /\ last' = p
  /\ UNCHANGED <<rows, executions, txPc, active, grps, execVars>>

\* AssignJobsToPartition(last.Partition, 0): the rest of partition 0 goes to
\* the last partition that gained rows, and stays in 0 if there was none.
AssignRest ==
  /\ txPc = "move"
  /\ \A q \in PartIds : toAdd[q] = 0
  /\ MoveTo(InPartition(0), last)
  /\ txPc' = "commit"
  /\ UNCHANGED <<rows, executions, active, grps, toAdd, last, execVars>>

EndTx ==
  /\ draft' = [j \in {} |-> NoRow]
  /\ txPc' = "idle"
  /\ grps' = {}
  /\ toAdd' = NoneToAdd
  /\ last' = 0

Commit ==
  /\ txPc = "commit"
  /\ rows' = [j \in Jobs |-> View(j)]
  /\ requeued' = requeued \cup {j \in DOMAIN draft : /\ rows[j].status = "Pending"
                                                     /\ draft[j].status = "Scheduled"}
  /\ EndTx
  /\ UNCHANGED <<executions, active, out>>

\* A statement fails or the server process ends.
Rollback ==
  /\ txPc # "idle"
  /\ EndTx
  /\ UNCHANGED <<rows, executions, active, execVars>>

-----------------------------------------------------------------------------
ReBalanceStep ==
  \/ UpdateJobsPartitions \/ CountGroups \/ AssignRest
  \/ \E p \in PartIds : RemovesJobsFromPartition(p) \/ AssignJobsToPartition(p)

Next ==
  \/ \E j \in Jobs :
       \/ \E p \in 0..MaxPart : InsertScheduledJob(j, p)
       \/ \E o \in Finished : FinishJob(j, o)
       \/ LoseCopy(j)
  \/ \E p \in PartIds, S \in SUBSET Jobs : SelectJobsForExecution(p, S)
  \/ \E A \in SUBSET PartIds : Begin(A)
  \/ ReBalanceStep \/ Commit \/ Rollback

Spec == Init /\ [][Next]_vars

-----------------------------------------------------------------------------
(* Properties.                                                             *)

\* A finished job is never handed out or rebalanced back to life, whatever
\* the order of an executor's update and the statements of a rebalance.
FinishedNeverReopened ==
  [][\A j \in Jobs : rows[j].status \in Finished
                       => rows'[j].status \in Finished]_rows

\* A job has an execution row exactly when its status says that it ran.
ExecutedIffFinished ==
  \A j \in Jobs : executions[j] > 0 <=> rows[j].status \in Finished

\* A job that no rebalance put back is handed out once: the workers' selects
\* and the rebalance's statements never hand one job to two executors.
SingleDelivery ==
  \A j \in Jobs \ requeued : out[j] + executions[j] <= 1

\* Of the live rows a rebalance counted it leaves fewer in partition 0 than
\* there are active partitions: at most the remainder of the division.
StrandedFewerThanActive ==
  txPc = "commit" /\ active # {} =>
    Cardinality({j \in grps : View(j).status \in Live /\ View(j).partition = 0})
      < Cardinality(active)

\* The statements implement the one-step operations of JobTable.
Table == INSTANCE JobTable
ImplementsJobTable == Table!Spec
=============================================================================
