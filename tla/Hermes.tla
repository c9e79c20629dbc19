-------------------------------- MODULE Hermes -------------------------------
(***************************************************************************)
(* The system: one server (Membership), its database (Storage) and worker  *)
(* processes, internal/worker/.  A worker registers, selects jobs of its   *)
(* partition until it stops, and works on the copies it holds; the server  *)
(* may take it off the registry while it goes on working.                  *)
(*                                                                         *)
(* The rebalancer belongs to both: it takes the partitions from the        *)
(* registry and then runs its statements, during which workers join and    *)
(* leave, select and finish jobs, and clients schedule new ones.           *)
(***************************************************************************)
EXTENDS Integers, FiniteSets

CONSTANTS
  Names, Calls, MaxPnum,      \* Membership
  Jobs, BuffSize, MaxOut,     \* Storage
  MaxRestarts,                \* bound: server restarts
  Faults,                     \* processes stop, workers are evicted
  DbFaults                    \* an executor's transaction may fail

ASSUME HermesAssumption ==
  /\ MaxPnum \in Nat /\ BuffSize \in Nat /\ MaxOut \in Nat /\ MaxRestarts \in Nat
  /\ Faults \in BOOLEAN /\ DbFaults \in BOOLEAN

VARIABLES
  registry, pnum, owed, rbPc, active, readers, picked,      \* Membership
  rows, executions, draft, txPc, grps, toAdd, last, requeued, \* Storage
  proc,       \* worker process: "new", "up" or "gone"
  part,       \* the partition a worker was told when it registered
  held,       \* worker -> job -> copies its monitor and executors hold
  restarts    \* server restarts so far

memberVars == <<registry, pnum, owed, rbPc, active, readers, picked>>
tableVars == <<rows, executions, requeued>>
txVars == <<draft, txPc, grps, toAdd, last>>
workerVars == <<proc, part, held>>
vars == <<memberVars, tableVars, txVars, workerVars, restarts>>

\* Copies of a job in the hands of all workers.
Out == [j \in Jobs |->
          Cardinality({c \in Names \X (1..MaxOut) : c[2] <= held[c[1]][j]})]

Server == INSTANCE Membership
DB == INSTANCE Storage WITH MaxPart <- MaxPnum, out <- Out

Partitions == Server!Partitions
PartIds == 1..MaxPnum

TypeOK ==
  /\ DB!TypeOK
  /\ registry \in [Names -> 0..MaxPnum]
  /\ pnum \in 0..MaxPnum
  /\ owed \in BOOLEAN
  /\ rbPc \in {"begin", "tx", "idle"}
  /\ readers \in SUBSET Calls
  /\ picked \in [Calls -> 0..MaxPnum]
  /\ proc \in [Names -> {"new", "up", "gone"}]
  /\ part \in [Names -> 0..MaxPnum]
  /\ held \in [Names -> [Jobs -> 0..MaxOut]]
  /\ restarts \in 0..MaxRestarts

Init ==
  /\ Server!Init
  /\ rows = [j \in Jobs |-> DB!NoRow]
  /\ executions = [j \in Jobs |-> 0]
  /\ draft = [j \in {} |-> DB!NoRow]
  /\ txPc = "idle"
  /\ grps = {}
  /\ toAdd = DB!NoneToAdd
  /\ last = 0
  /\ requeued = {}
  /\ proc = [n \in Names |-> "new"]
  /\ part = [n \in Names |-> 0]
  /\ held = [n \in Names |-> [j \in Jobs |-> 0]]
  /\ restarts = 0

-----------------------------------------------------------------------------
(* The life of a worker process.                                           *)

\* Start: register tells the partition.  When none of RetryDo's three attempts
\* is answered, Start returns: a process that never came up, or, if the server
\* did register it, one that ends right after (Exit).  Another takes its place.
Register(n) ==
  /\ proc[n] = "new"
  /\ Server!Join(n)
  /\ proc' = [proc EXCEPT ![n] = "up"]
  /\ part' = [part EXCEPT ![n] = pnum']
  /\ UNCHANGED <<tableVars, txVars, held, restarts>>

\* The monitor selects jobs of the partition it was told, whether or not the
\* server still knows the worker, and queues them for the executors.
Select(n, S) ==
  /\ proc[n] = "up"
  /\ held' = [held EXCEPT ![n] = [j \in Jobs |-> IF j \in S THEN @[j] + 1
                                                           ELSE @[j]]]
  /\ DB!SelectJobsForExecution(part[n], S)
  /\ UNCHANGED <<memberVars, proc, part, restarts>>

\* An executor has called the webhook and records what came of it.
Finish(n, j, outcome) ==
  /\ proc[n] = "up"
  /\ held[n][j] > 0
  /\ held' = [held EXCEPT ![n][j] = @ - 1]
  /\ DB!FinishJob(j, outcome)
  /\ UNCHANGED <<memberVars, proc, part, restarts>>

\* The executor's transaction fails; process() returns and the copy is gone.
FinishFails(n, j) ==
  /\ DbFaults
  /\ proc[n] = "up"
  /\ held[n][j] > 0
  /\ held' = [held EXCEPT ![n][j] = @ - 1]
  /\ UNCHANGED <<memberVars, tableVars, txVars, proc, part, restarts>>

\* The process ends: killed (it handles no signal, so it does not unregister
\* then), or after Start's first error, a rejected ping among them.
Exit(n) ==
  /\ proc[n] = "up"
  /\ Faults \/ registry[n] # part[n]
  /\ proc' = [proc EXCEPT ![n] = "gone"]
  /\ held' = [held EXCEPT ![n] = [j \in Jobs |-> 0]]
  /\ UNCHANGED <<memberVars, tableVars, txVars, part, restarts>>

-----------------------------------------------------------------------------
(* The server.                                                             *)

\* The worker is taken off the registry because its pings stayed away or
\* because Start, on its way out, unregistered while its goroutines ran on.
Leave(n) ==
  /\ Faults \/ proc[n] = "gone"
  /\ Server!Leave(n)
  /\ UNCHANGED <<tableVars, txVars, workerVars, restarts>>

\* Service.Schedule: Pick under the read lock ...
SchedulePick(c) ==
  /\ \E j \in Jobs : rows[j].status = "none"
  /\ Server!SchedulePick(c)
  /\ UNCHANGED <<tableVars, txVars, workerVars, restarts>>

\* ... the insert, and the release of the lock.
ScheduleInsert(c, j) ==
  /\ UNCHANGED <<workerVars, restarts>>
  /\ DB!InsertScheduledJob(j, picked[c])
  /\ Server!ScheduleReturn(c)

\* The insert fails, or other calls took the last job of the model.
ScheduleFails(c) ==
  /\ Faults \/ \A j \in Jobs : rows[j].status # "none"
  /\ Server!ScheduleReturn(c)
  /\ UNCHANGED <<tableVars, txVars, workerVars, restarts>>

RebalanceWake ==
  /\ Server!Wake
  /\ UNCHANGED <<tableVars, txVars, workerVars, restarts>>

\* The registry is read, the lock released, the transaction begun.
RebalanceBegin ==
  /\ UNCHANGED <<workerVars, restarts>>
  /\ Server!Snapshot
  /\ DB!Begin(Partitions)

RebalanceStatement ==
  /\ UNCHANGED <<registry, pnum, owed, rbPc, readers, picked, workerVars,
                 restarts>>
  /\ DB!ReBalanceStep

RebalanceCommit ==
  /\ UNCHANGED <<workerVars, restarts>>
  /\ Server!Commit
  /\ DB!Commit

\* The server stops, by the panic that answers a failed statement or
\* otherwise, and starts anew; an open transaction is rolled back.
ServerRestart ==
  /\ restarts < MaxRestarts
  /\ restarts' = restarts + 1
  /\ Server!Restart
  /\ DB!EndTx
  /\ UNCHANGED <<tableVars, workerVars>>

-----------------------------------------------------------------------------
WorkerNext(n) ==
  \/ Register(n) \/ Exit(n)
  \/ \E S \in SUBSET Jobs : Select(n, S)
  \/ \E j \in Jobs : FinishFails(n, j) \/ \E o \in DB!Finished : Finish(n, j, o)

ServerNext ==
  \/ \E n \in Names : Leave(n)
  \/ \E c \in Calls : \/ SchedulePick(c) \/ ScheduleFails(c)
                      \/ \E j \in Jobs : ScheduleInsert(c, j)
  \/ RebalanceWake \/ RebalanceBegin \/ RebalanceStatement \/ RebalanceCommit
  \/ ServerRestart

Next == ServerNext \/ \E n \in Names : WorkerNext(n)

Spec == Init /\ [][Next]_vars

\* Workers start and work, a rejected ping ends one, the server notices that
\* one is gone, and the rebalancer runs.  A due job is among the oldest of its
\* partition at some time: each is eventually selected.  A waiting writer keeps
\* new readers out of a Go RWMutex: joins and removals are strongly fair.
Fairness ==
  /\ \A n \in Names :
       /\ SF_vars(Register(n))
       /\ WF_vars(Exit(n) /\ registry[n] # part[n])
       /\ SF_vars(Leave(n) /\ proc[n] = "gone")
       /\ \A j \in Jobs :
            /\ SF_vars(\E S \in SUBSET Jobs : j \in S /\ Select(n, S))
            /\ SF_vars(\E o \in DB!Finished : Finish(n, j, o))
  /\ \A c \in Calls : WF_vars(ScheduleFails(c) \/
                                \E j \in Jobs : ScheduleInsert(c, j))
  /\ WF_vars(RebalanceWake)
  /\ WF_vars(RebalanceBegin)
  /\ WF_vars(RebalanceStatement)
  /\ WF_vars(RebalanceCommit)

FairSpec == Spec /\ Fairness

-----------------------------------------------------------------------------
(* Properties.                                                             *)

IsLive(j) == rows[j].status \in DB!Live

\* The rebalancer waits, and has nothing left to do.
AtRest == rbPc = "idle" /\ ~owed

\* Once the rebalancer is at rest no job that is still to run sits in a
\* partition nobody owns: the snapshot taken before the transaction, the jobs
\* inserted and the workers that come and go during it, and partition numbers
\* given out again after a restart lose none.
NoOrphanAtRest ==
  AtRest => \A j \in Jobs : IsLive(j) => rows[j].partition \in Partitions \cup {0}

\* While there are workers, fewer jobs than workers are left in partition 0
\* at rest, however they came there: scheduled before the first worker, put
\* back, or taken from a partition that had too many.
StrandedFewerThanWorkers ==
  AtRest /\ Partitions # {} =>
    Cardinality({j \in Jobs : IsLive(j) /\ rows[j].partition = 0})
      < Cardinality(Partitions)

\* Two registered workers that work on copies of one job have it from
\* different hand-outs: a rebalance put the job back in between.
SharedOnlyAfterRequeue ==
  \A m, n \in Names, j \in Jobs :
    m # n /\ held[m][j] > 0 /\ held[n][j] > 0 => j \in requeued

\* "update db to reassign" (workers.go:131, for a worker that is gone): at
\* rest, when every worker the server knows is alive, some live worker holds
\* each Pending job.
PendingIsHeld ==
  AtRest /\ (\A n \in Names : registry[n] # 0 => proc[n] = "up") =>
    \A j \in Jobs : rows[j].status = "Pending" =>
      \E n \in Names : proc[n] = "up" /\ held[n][j] > 0

\* "first we put the orphan jobs to partition 0" (db.go:245): a job in work
\* is put back only when its partition has no registered worker.
OnlyOrphansArePutBack ==
  [][\A j \in Jobs :
       rows[j].status = "Pending" /\ rows'[j].status = "Scheduled"
         => rows[j].partition \notin Partitions]_vars

\* "schedule the execution of webhooks at a specified time" (README.md:7):
\* a job that was accepted is eventually executed.
ScheduledIsExecuted ==
  \A j \in Jobs : rows[j].status = "Scheduled" ~> rows[j].status \in DB!Finished

\* With one worker it is, unless that worker ends: a job scheduled before the
\* worker came, or in its partition, or while a rebalance ran.
ScheduledIsExecutedOrWorkerEnds ==
  \A j \in Jobs :
    rows[j].status = "Scheduled"
      ~> rows[j].status \in DB!Finished \/ \E n \in Names : proc[n] = "gone"

\* The partition of the job belongs to a registered worker that lives.
HasLiveOwner(j) ==
  \E n \in Names : proc[n] = "up" /\ registry[n] # 0 /\ registry[n] = rows[j].partition

\* A job whose worker stopped with it is put back by a rebalance whose active
\* workers do not include its own, unless an earlier one has moved it to the
\* partition of another worker that lives: that one is not told, and the job
\* is lost (PendingIsHeld).
AbandonedIsPutBack ==
  \A j \in Jobs :
    rows[j].status = "Pending" /\ (\A n \in Names : held[n][j] = 0)
      ~> rows[j].status # "Pending" \/ HasLiveOwner(j)
=============================================================================
