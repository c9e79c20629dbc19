# Hermeshooks: a TLA+ model

[hermeshooks](../src/README.md) schedules webhooks: a REST server stores jobs with a `run_at`, worker
processes execute them. This directory models how the jobs reach the workers and what happens to them
there, and how the server answers its clients, checks the model with TLC and proves its safety with TLAPS.

## The system

| component | state | operations | meets |
|---|---|---|---|
| worker service (`services/workers/workers.go`) | registry name → partition, `pnum`, one goroutine per registration, a one-slot channel, an RWMutex; all in memory | Register, UnRegister, Health, the ticker goroutine and its clean-up, the rebalance loop, Pick | handlers (calls), scheduling service (read lock), database |
| scheduling service (`services/scheduledjobs`) | none | Schedule: RLock, Pick, INSERT, NOTIFY, RUnlock; Get: one transaction | worker service, database |
| job storage (`storage/db.go`, `migrations/`) | tables `scheduled_jobs`, `executions`, `users` | insert + NOTIFY, select for execution, finish, the statements of a rebalance, LISTEN | everybody |
| worker process (`worker/worker.go`) | name (a uuid), partition (read once) | register, ping every 10 s, listen, Start, unregister on the way out | server (HTTP), database |
| monitor of a worker (`worker/monitor.go`) | timer, one-slot refresh channel, the channel of selected jobs | select, push, wait | database, executors |
| executor of a worker (`worker/executor.go`, `common.RetryDo`) | jobs in work | call the webhook with retries, record the outcome in one transaction | webhook, database |
| authentication (`services/auth/auth.go`) | table `users` | rapidApiAuth: look, then insert the user, in a transaction; localAuth: find the key's hash; Signup | handlers, database |
| REST handlers (`rest`) | none | middleware, validation, the call of a service, its error as a status code | clients, services |
| health endpoint (`rest/health_handler.go`) | a cached answer and its time, an RWMutex | read the cache, ask the services, write the cache | clients, worker service (read lock, ping) |
| command line (`cmd/hermeshooks`) | none | start of server and worker | all |

A job is `Scheduled` in a partition when inserted (partition 0 without workers), `Pending` when the
worker of the partition has selected it, `Success` or `Fail` when the execution is recorded. After each
change of the registry the server *rebalances* in one transaction: live jobs outside the active
partitions are put back to `Scheduled` in partition 0, then rows are moved until the partitions have
equal shares. Nothing but a rebalance recovers a job whose worker has stopped.

What is hard here: the rebalancer works from a snapshot of the registry while workers join, leave, select and
finish jobs; rebalance requests are dropped when one is buffered; workers are evicted but go on working;
the registry is lost in a restart while the tables are not; an executor may stop between the call and
its record; notifications are lost; a pusher may wait for a full channel, or find it closed; requests compete for
connections, for a user's row and for the health cache, and their answers get lost. `PROJECT.json` lists each of these with its line and the properties that cover it.

What makes each component correct: *worker service*: partitions are unique and stable, no registry
change is missed by the rebalancer, no silent worker stays; *scheduling service*: a job is never put
into a partition that has gone; *storage*: finished jobs stay finished, a job is handed out once per
put-back, status and executions row agree; *monitor*: jobs are selected on time; *executor*: calls stay within
the budget, the record says what happened, no selected job is dropped, doubled or left behind; *authentication and
handlers*: a client in good standing is served, an error without a fault of the database is explained and leaves nothing
behind, connections are given back; *health endpoint*: it ends up telling the truth; *together*: at rest no live job sits where nobody looks,
and every job is executed. The last one does not hold, see "What the runs show".

## Modules

| module | models | proved about in |
|---|---|---|
| `Membership` | abstract worker service: joins, leaves and owed rebalances, without goroutines, lock and channel | as part of `Hermes` |
| `WorkerRegistry` | `workers.go`, one action per critical section or channel operation; implements `Membership` | `WorkerRegistryProofs` |
| `JobTable` | abstract `scheduled_jobs`: every operation one step | `StorageProofs`, `HermesProofs` |
| `Storage` | `db.go`, the rebalance statement by statement under READ COMMITTED with row locks; implements `JobTable` | `StorageProofs` |
| `Hermes` | composition: `Membership`, `Storage` and worker processes with crashes, evictions and restarts; implements `JobTable` | `HermesProofs` |
| `Delivery` | one job in an executor: `process`, `RetryDo`, the recording transaction | `DeliveryProofs` |
| `Pipeline` | the goroutines of a worker: monitor and pushers, the channel, `executor.start` with its slots, the end of the process | `PipelineProofs` |
| `Worker` | composition: `Pipeline`, and `Delivery` for one of its jobs | `WorkerProofs` |
| `Accounts` | `auth.go` and the table `users`: a request finds or makes the user it acts for | as part of `Rest` |
| `HealthCache` | `health_handler.go` | as part of `Rest` |
| `Rest` | composition: the requests of clients on `Accounts`, `HealthCache`, the connections of the database, and the handlers of jobs | `RestProofs` |
| `WorkerMonitor` | the monitor's loop for one partition with timer, notifications and a clock | `WorkerMonitorProofs` |
| `MC...` | instances for TLC (symmetry sets) | |

`Hermes` instantiates the abstract `Membership` because `WorkerRegistry` is shown to implement it
(checked in `WorkerRegistry_safety`, proved as `MembershipIsImplemented`), and the detailed `Storage`
because its interleaved statements matter to the workers.

### How state and actions correspond to the code

* **WorkerRegistry.** `registry` is the map (0: no such key), `stale` abstracts `LastHealthCheck`,
  `monitor[p]`, `owner[p]` and `cancelled` are the goroutine of the registration that got partition
  `p` (its progress, its `WorkerMeta.Name`, its cancelled context), `ch` is the buffered channel,
  `rbPc` and `active` the rebalance loop and its snapshot, `readers` the scheduling calls that hold the
  read lock, `leaked` a lock that `Register` has not released. `Register` and `RegisterFinish` are the
  two halves of the method, before and after `Unlock`; likewise `CleanUp` and `CleanUpTrigger`.
* **Storage.** `rows` are the committed rows, `draft` the uncommitted ones of the rebalance (their
  domain is locked: a step that would wait for one is disabled). Each statement is an action; `Commit`
  publishes `draft`. Selects, inserts and the executors' transactions are one step each, since they
  hold few rows for a short time. `run_at` is abstracted: any `Scheduled` row of a partition may be due. 
  `LIMIT` without `ORDER BY` is any subset of that size.
* **Hermes.** `held` is what a worker's channel, pushers and executors hold. `Select` uses the
  partition the worker was told, registered or not. `Exit` is the end of the process: it handles no
  signals, so it does not unregister when it is killed; `Leave` covers the eviction and the unregistration
  that `Start` makes while its goroutines still run. `RebalanceBegin` joins the snapshot with the begin of
  the transaction: nothing of the code lies between them that the rest can see, and the
  interval that matters, from the snapshot to the first statement, is still there.
* **Pipeline.** `pushers` are the goroutines of `monitor.go:54`, each with the jobs it has still to send; `outc` is the
  channel, `hand` the job between `range e.iq` and `sem <- true`, `running` the slots. `monitor = "stopped"` means that the
  channel is closed, which happens when a select fails: a pusher that has jobs left then panics (`PusherPanics`) and the
  process ends in the middle of whatever it does. Jobs are numbered in the order of their `run_at`, and `Select` gives a new
  pusher the selected ones as an increasing sequence. `Start` returns on the first error and unregisters while the other goroutines go on.
* **Worker.** Deliveries share only slots and process, so one tracked job stands for each; the others end
  after any time. `ProcessEnds` cuts the tracked job off between two statements.
* **Accounts.** `locked` are the names that an uncommitted INSERT holds: another INSERT of the name waits, then fails or
  goes on. `auth[r]` is the statement that a request's middleware is at. A failed commit may have been carried out.
* **HealthCache.** `cache` is the answer last stored, or "old" once `elapsed <= 1*time.Minute` no longer holds, which may come at any
  time. Between the two critical sections, its own lock released, the handler waits for the read lock of the worker service
  (`ActiveWorkers`) and then pings the database.
* **Rest.** `free` counts the connections PostgreSQL still accepts or that are idle: the pool has no limit of its own
  (`SetMaxOpenConns` is never called), so with none left a statement fails. `step[r]` is where the handler is, `answer` its
  status code by `NewHTTPError`. The payload is read after authentication, as in the code; its `form` is what
  `Validate` and the columns would say of it. `misses` counts Gets that return before `defer tx.Rollback()`. `req[r].had` and
  `req[r].owns` keep what the tables said of the request's user when it came in. Of the worker service there is the read
  lock that `Schedule` takes before the INSERT and `ActiveWorkers` for GET /health: `leaked` says that a `Register` whose client
  gave up has left it locked (`RegisterCancelled`); other writers hold it for a moment only.
* **Delivery.** One action per call of the webhook and per statement. Error texts are "short" or
  "long" (over the 255 characters of `executions.msg`).
* **WorkerMonitor.** `refresh` is the channel between `Listen` and the loop, `notified` a notification on its way;
  the clock ticks only when nothing is left to do at the present minute.

## What is checked

`CHECK_DEADLOCK FALSE` in all but `Rest_safety`: the bounds on registrations, jobs, restarts and the clock let the
instances come to an end.

| run | instance | shows |
|---|---|---|
| `WorkerRegistry_safety` | 2 names, 2 calls, 2 registrations, cancellations | types, `UniquePartitions`, `EntryGuarded`, `NoLostRebalance`, `PickStaysRegistered`, `PartitionStable`, `ImplementsMembership`, `UnregisteredIsRebalanced`, `SilentIsEvicted`, `RegisteredIsRebalancedOrLeaked` |
| `WorkerRegistry_leak` | 1 name, 1 call, cancellation | `RegisteredIsRebalanced`, the same without regard to the lock, fails: the lock is leaked |
| `Storage_safety` | 3 jobs, 2 partitions, batches of 2 | types, `ExecutedIffFinished`, `SingleDelivery`, `StrandedFewerThanActive`, `FinishedNeverReopened`, `ImplementsJobTable` |
| `Hermes_safety` | 2 workers, 2 jobs, 1 restart, all faults | types, `NoOrphanAtRest`, `StrandedFewerThanWorkers`, `SharedOnlyAfterRequeue` |
| `Hermes_liveness` | 1 worker that registers once and may crash, 2 jobs, 1 restart | `ScheduledIsExecutedOrWorkerEnds`, `AbandonedIsPutBack` |
| `Hermes_lost` | 2 workers, 2 jobs, crashes | `PendingIsHeld` fails |
| `Hermes_putback` | 1 worker, 1 job, no faults | `OnlyOrphansArePutBack` fails |
| `Hermes_two_workers` | 2 workers, 1 job, no faults | `ScheduledIsExecuted` fails |
| `Worker_safety` | 3 jobs, batches of 1 and 2, channel of 1, 1 slot, up to 3 retries (and a negative number), a failing database, the end of the process at any point | `HeldInOnePlace`, `BatchOrder`, `DrainedBeforeReturn`, `RecordedTogether`, `CallsWithinBudget`, `SuccessIffAnswered`, `UnrecordedByFaultOnly`, `SelectedIsDelivered` |
| `Worker_retries` | the same | `RetriesComeOnTop` fails |
| `WorkerMonitor_safety` | 2 jobs, batches of 1, 6 time units | `LatenessBounded`, `OnTimeWhenHeard` |
| `Rest_safety` | 2 requests at a time, 1 RapidAPI user, 1 user with a key, 1 job, 2 connections, faults, lost answers, restarts, a leaked lock | types, `ConnectionsAccounted`, `ErrorsExplained`, `ServedAsDue`, `EveryRequestIsAnswered`, `HealthConverges` |

### What the runs show

Five runs end in a counterexample, each against a sentence of the repository:

1. *Leaked lock* (`WorkerRegistry_leak`, `workers.go:221-226`): `Register` returns `ctx.Err()` without
   `Unlock`. One client that disconnects while it waits stops the service.
2. *Lost job* (`Hermes_lost`, `db.go:207-241`): the equal shares are made by moving rows of any status.
   A `Pending` row moved to another worker's partition is no orphan when its own worker crashes.
   After a server restart partition numbers are given out again, and a worker of the earlier life that
   selects once more from its old number before its ping is rejected loses jobs of the new owner in the same way
   (`Hermes_lost` with `MaxPnum = 1`, `MaxRestarts = 1`, `Faults = FALSE`).
3. *Put back while in work* (`Hermes_putback`, `workers.go:158-166`): a worker that registers between
   the snapshot and the first statement has the jobs it selects put back, and they are executed twice.
4. *Stranded job* (`Hermes_two_workers`, `db.go:291-320`): with fewer jobs than workers the jobs in
   partition 0 stay there; nobody selects from partition 0. `StrandedFewerThanWorkers` bounds how many.
5. *Retries that are calls* (`Worker_retries`, `common.go:63`): the example client says of `"retries": 1` that it is
   "how many times to retry" (`examples/webhooksrv/main.go:46`), but `RetryDo` makes `max(1, Retries)` calls in all: with 1 a
   failed call is not repeated, just as with 0. `CallsWithinBudget` states what the code does.

What holds, and is not obvious: rebalance requests may be dropped freely (`NoLostRebalance`); a
clean-up that decides and deletes in separate critical sections never deletes a later registration of the
name (`EntryGuarded`), because a registered name is only refreshed until its own goroutine has deleted it; an
executor's late update and a rebalance never reopen a finished job, because of the row locks
(`FinishedNeverReopened`); no live job is left in a partition without an owner, over a restart
that hands out the numbers again either (`NoOrphanAtRest`). Lost notifications
delay a job by the wait that was set, which is up to 30 days when the next known job is that far away
(`LatenessBounded`), and not by the default of 5 minutes. A 5xx answer is recorded as `Success`
(`SuccessIffAnswered` states what the code does).

`AbandonedIsPutBack` holds of the instance it is checked on, and not of the system in general. There one worker registers
once, so that when its jobs are put back no worker is active. With a second worker a rebalance may move a `Pending` job
into that one's partition first; the property then lets go of it (`HasLiveOwner`), and the job may be lost, as in 2.

In a worker, pushers may pile up without bound, and batches overtake each other, but a batch stays in order
(`BatchOrder`), nothing is lost or doubled on the way (`HeldInOnePlace`), and each selected job is delivered as long as
the process lives (`SelectedIsDelivered`). The panic of a pusher loses the jobs the process holds, but never half a record
(`RecordedTogether`); they are `Pending` and wait for a rebalance.

On the server, the race of a RapidAPI user's first calls ends in one 500 and one account, never in a job without an
owner or a request that waits forever. A request waits forever for one reason only (`EveryRequestIsAnswered`): the lock that
a `Register` has leaked (1). Then creates stop before their INSERT, and calls of GET /health that find the cache
outdated before the ping, while signups, Gets and refusals are answered as before. A Get of a job that is not found costs a connection for good: `ConnectionsAccounted`
says that this is the only loss, and that after `MaxConns` of them nothing works until the restart; `ServedAsDue` then
holds only because each request counts as hit by a fault. A client whose create was answered with 500 may retry safely
unless the database failed: then the job may have been stored (`InsertScheduledJob` inserts and notifies in two
transactions). The answers of GET /health may go back and forth while calls overlap, but not for good (`HealthConverges`).

### Bounds

Two names and two registrations in a server's life give: a name that registers again while the goroutine of its first
registration is cleaning up, or two workers at once, not both together; the safety properties are theorems for every number of
registrations. Two calls hold the read lock in overlapping intervals. Two
jobs on two partitions give remainders (1 of 2), equal shares and moved rows; `Storage` has three, so that a removal
chooses which rows to move and a batch leaves some. `MaxOut = 2` copies of a job: the second exists only after a put-back.
One restart reuses partition numbers. In `WorkerMonitor` a batch of 1 of 2 jobs
stands for a full batch of 100; `DefaultWait`, `MinLead` and `MaxLead` keep the order of 3 and 5 minutes and
30 days apart from `MinLead < DefaultWait < MaxLead`, and `MaxTime` exceeds the largest lateness the bound allows. Symmetry is
used in safety runs only.

In `Worker_safety` a channel and a slot of one place make both a pusher and the executor wait; three jobs in batches of up
to two give two pushers that wait for the channel at once, with a job in the channel and one in work. In `Rest_safety` two requests are the least
that race for a user's row, overwrite each other's health answer and use up two connections; two lost connections leave none.
Once the only uid is used no further job is stored, and Gets go on.

### Fairness

* *WorkerRegistry*: goroutines run and inserts and transactions end (weak). A goroutine that waits for the write lock gets it
  again and again unless it stops waiting (`WaitsForLock`), although readers come and go: a waiting writer keeps new
  readers out of a Go `RWMutex`. After a leak nobody gets it, and the three liveness properties say so (`leaked`). Nothing is assumed of clients: a worker need not ping,
  register or unregister.
* *Hermes*: workers start, a rejected ping ends one (`doReq` fails on any status but 200), the server
  notices that a process is gone, transactions end. Selecting a given job is strongly fair: the oldest due
  jobs are taken first, and the model's bounded set of jobs is eventually the oldest. Crashes, evictions of live workers and restarts are never forced.
* *Worker*: goroutines run; the HTTP client has a timeout, sleeps end, and the database answers or fails. Sending is strongly
  fair for each job: a Go channel serves the senders that wait for it in the order they came. Selects and the end of the
  process are never forced, unless the channel is closed or `Start` has returned.
* *Rest*: each request is strongly fair, since PostgreSQL serves those that wait for a row in turn, and a writer that
  unlocks a Go `RWMutex` lets the waiting readers in; otherwise a handler is always able to go on. A cached answer grows old. Faults are never forced, nor are requests.

## What is proved

Every type invariant, safety invariant and action property that a passing run checks is also a theorem, for every value of
the constants that the named assumptions allow. Each module of proofs has one inductive invariant `IInv` (`Pipeline` has two);
its conjuncts are the properties and what they need to be inductive.

**`WorkerRegistryProofs`** holds for every finite or infinite set of names and calls, any `MaxPnum` and
both values of `Cancels`, from `RegistryAssumption` alone (`NoName` is not a name, `MaxPnum` is a
natural number, `Cancels` is Boolean).
`IInv` = `TypeOK` /\ `FreshAbove` /\ `EntryGuarded` /\ `NoLostRebalance` /\ `PickStaysRegistered` is inductive (`Invariance`).
`UniquePartitions` is not inductive, nor needed as a conjunct: it follows from `EntryGuarded`, since the goroutine of a
partition has one owner. `EntryGuarded` in turn needs `FreshAbove` (no goroutine has a number above `pnum`): a
registration must get a number that no goroutine on its way out still has. `PickStaysRegistered`
needs that every change of the registry happens under the write lock. From `IInv` follow the action
property `PartitionStable` and the refinement `MembershipIsImplemented`, by a step simulation with
`owed <- ch \/ TriggerPending`.

**`StorageProofs`** holds for every finite set of jobs and any number of partitions, copies and jobs per select.
The core of its `IInv` is `DraftSound`: while other transactions commit around a rebalance, each row it
has written is one that a rebalance may make (`Moves` of `JobTable`) of the row still committed. This is
inductive because a written row is locked: an insert finds no row, a select and an executor's transaction
wait. `TxSound` adds that rows go to active partitions only, and `FreshUntouched` that a job which is
Scheduled, and was not put back, has neither copies nor executions; without it `SingleDelivery` is not
inductive, since a select would add a second copy. `ExecutedIffFinished` and `SingleDelivery` are conjuncts;
`JobTableIsImplemented` follows by a step simulation, and `FinishedIsFinal` from the steps of `JobTable`.

`RemainderOnly` (`StrandedFewerThanActive`) is a counting argument, `CountSound`. As long as no partition has gained a row,
the counted rows that a partition has, and those it is still to gain, make up its share and the rows that a removal took in place of
counted ones (finished rows, or rows that came in between: `LIMIT` does not choose). Once every removal is done there are
two cases. Either some partition is to gain rows: then `AssignRest` moves the rest to the last of those. Or none is: then every
active partition has its share, and what is left of the counted rows is the remainder of the division, less than the number
of partitions. There is no sum over the partitions in it: rows and shares are compared partition by partition, and an injection
for each makes one of the whole (`FewerInEveryClass`). That the jobs are finite is needed here only: `Cardinality` says nothing about an infinite set.

**`HermesProofs`** holds for every finite set of jobs, any set of names and calls (`TypeCorrect` counts the copies and asks for finitely many
names), and any number of restarts, from `HermesAssumption` (bounds are natural numbers, switches Boolean). Its `IInv` takes
from `StorageProofs` what it says of the transaction (`TableInv`), and adds `Placed`, which is about the times when no change of
the registry waits for a rebalance: the snapshot is the registry (`SnapshotFresh`), a scheduling call under way has picked a registered
partition, or 0 when there is none (`PickFresh`), the transaction sees live rows only in active partitions and 0 once the
first statement is done (`TxPlaces`), those in 0 have been counted, since with workers nothing is inserted there
(`TxCounted`), and the same of the committed rows at rest (`RestPlaces`, `RestFew`). `NoOrphanAtRest` alone is not
inductive: an insert that began before the commit would break it, were the read lock not held from the pick to the insert, so that no
registration comes in between. `SharedOnlyAfterRequeue` needs `FreshUnheld`. `TheSystemKeepsTheTable` shows that the whole
system, with evicted workers and workers of the server's earlier life, implements `JobTable`; `FinishedIsFinal` follows.

**`WorkerMonitorProofs`**: for every finite set of jobs and any lead, wait and horizon of the clock no job is late.
`LatenessBounded` and `OnTimeWhenHeard` say nothing of the timer, and so are not inductive; `NextSound` says
that `next` is not after any job the select has seen, `TimerSound` that the armed timer is early enough for
every job of the partition, unless a notification is on its way. The clock stops at the timer. `RestIsLater`
is the argument for the limit of a select: the jobs a full select leaves are not older than those it took,
so that the next one is among the rows with `run_at` from the last one on.

**`DeliveryProofs` and `WorkerProofs`**: for every bound on the retries. The invariant of one delivery says what the open
transaction holds before each statement (`DraftIsOutcome`), that an answer and a text exclude each other
once `RetryDo` has returned, and that what is committed is nothing or the outcome. `StepMaps` shows that every step
of a worker, the ways it ends included, is a step of the tracked job's delivery or leaves it alone; thus the
four properties hold of the composition (`WorkerAssumption` only).

**`PipelineProofs`**: for any number of jobs, pushers, slots and places. `DrainedBeforeReturn` holds since the slots in use and those that
`start` has filled up never exceed `Threads` (`SlotsAccounted`), and nothing comes in after the range loop. For the places and the order
(`PlacesAndOrder`) the invariant `FInv` follows the jobs while the process lives: a job was selected exactly when it is in
a pusher, in the channel or with the executor, and in one of them (`Placed`); pushers have sorted, non-empty sequences of one select, and a
select has one pusher (`PushersSorted`, `PushersApart`); the channel repeats nothing and keeps the jobs of one select in order
(`ChannelSorted`); a select is named after one of its own jobs, so that a new one gets a new name (`Named`); and
of two jobs of one select the later is nowhere ahead of the earlier (`Ordered`, of which `BatchOrder` is a part: alone it is not
inductive, as the executor may receive a job whose predecessor is still with the pusher unless the channel keeps the order too). `WorkerProofs` carries all of it over to the composition.

**`RestProofs`**: for every finite set of requests, any users, jobs and number of connections, from `RestAssumption` (RapidAPI's users and those with
keys differ, the null values `NoUser` and `NoJob` are none of them, `MaxConns` is a natural number). `IInv` says of each request how far middleware and
handler may be together (`Progress`: a handler runs only after the middleware has passed the request), what the account table says of its
user (`Standing`: who has passed has an account; who had one when the request came in has it still, and never gets to the INSERT), and what
the job table says of its job (`Matter`); `Distinct` says that two creates have different jobs. `ErrorsExplained` and
`ServedAsDue` are then inductive (`Deserved`): a request of a RapidAPI user that did have an account when it came in is
not explained by the account's being there. `ConnectionsAccounted` is a count: each action of a request takes a
connection, returns its own, leaves it behind (a Get that finds nothing) or touches none, and changes no other request (`Elsewhere`).

Only model-checked: liveness, that is `UnregisteredIsRebalanced`, `SilentIsEvicted`, `RegisteredIsRebalancedOrLeaked`,
`ScheduledIsExecutedOrWorkerEnds`, `AbandonedIsPutBack`, `SelectedIsDelivered`, `EveryRequestIsAnswered` and `HealthConverges`: fairness
and ENABLED are beyond TLAPS. The five counterexamples are TLC's.

## Not modelled

* Clock time between pings and the eviction (`Expire` may happen at any time).
* A statement that the database carries out after the server process that sent it has ended: a restart comes
  before or after a statement.
* Lock order within one short transaction, hence PostgreSQL deadlocks; their effect, a failed statement, is modelled.
* Calls that are refused before they touch any state (a wrong secret or internal key, a payload of POST /users that is not
  valid), and which bound of `Validate` refuses a payload, but for `run_at` and `retries`.
* The context of a worker: `main` cancels it only when the process ends, so the monitor's `ctx.Done()` never comes first.
* Helpers without state: logging, routing, keys and hashes, the fixtures command, the example (of which only the comment on `retries` is checked); `UpdateScheduledJobsPartitions`, which nothing calls.

## Plan

Done, in this order: `Membership`, `WorkerRegistry` and its proofs; `JobTable`, `Storage`; `Hermes`; `Delivery`; `WorkerMonitor`;
`Pipeline` and `Worker`; `Accounts`, `HealthCache` and `Rest`; the proofs about `Storage`, `WorkerMonitor`, `Delivery`,
`Worker`, `Pipeline`, `Hermes` and `Rest`.

Next theorems: that a worker's copies in `Hermes` are what `Worker` holds (one `Delivery` per copy); a bound on the rows that a
rebalance moves for nothing; the absence of a waiting cycle in `Rest` as an invariant, from which `EveryRequestIsAnswered` follows
under its fairness.

Next module: a timed model of pings, their retries and the eviction.
