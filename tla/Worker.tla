------------------------------- MODULE Worker -------------------------------
(***************************************************************************)
(* A worker process with the jobs it has selected (Pipeline) and, for one  *)
(* of them, the call of its webhook and the record of the outcome          *)
(* (Delivery).  Deliveries of different jobs share nothing but the slots   *)
(* and the process, so the tracked job stands for each of them.            *)
(***************************************************************************)
EXTENDS Integers

CONSTANTS
  Jobs, BuffSize, Capacity, Threads,  \* Pipeline
  MaxRetries, DbFaults,               \* Delivery
  Tracked                             \* the job whose delivery is looked at

VARIABLES
  monitor, pushers, outc, exec, hand, running, drained, ended, process, batch,
  pc, retries, attempts, answer, text, status, execution, draft, dbFault

Flow == INSTANCE Pipeline
Job == INSTANCE Delivery

ASSUME WorkerAssumption ==
  Flow!PipelineAssumption /\ Job!DeliveryAssumption /\ Tracked \in Jobs

flow == <<monitor, pushers, outc, exec, hand, running, drained, ended, process,
          batch>>
job == <<pc, retries, attempts, answer, text, status, execution, draft, dbFault>>
vars == <<flow, job>>

TypeOK == Flow!TypeOK /\ Job!TypeOK

Init == Flow!Init /\ Job!Init

-----------------------------------------------------------------------------
\* Everything up to the slots, and the deliveries of the other jobs.
PipelineStep ==
  /\ UNCHANGED job
  /\ \/ \E S \in SUBSET Jobs : Flow!Select(S)
     \/ \E s \in pushers : Flow!Push(s)
     \/ Flow!SelectFails \/ Flow!Receive \/ Flow!TakeSlot
     \/ Flow!RangeEnds \/ Flow!Drain
     \/ Flow!StartReturns \/ Flow!ListenOrPingFails
     \/ \E j \in Jobs \ {Tracked} : Flow!Finish(j)

\* The goroutine of the tracked job runs process() ...
DeliveryStep ==
  /\ Flow!Alive /\ Tracked \in running
  /\ UNCHANGED flow
  /\ \/ Job!Prepare \/ Job!PrepareFails \/ Job!Attempt \/ Job!Backoff
     \/ Job!BeginTx \/ Job!UpdateJobStatus \/ Job!InsertExecution
     \/ Job!CommitTx \/ Job!DbFails

\* ... and frees its slot when that returns.
DeliveryReturns ==
  /\ pc \in Job!Ended
  /\ Flow!Finish(Tracked)
  /\ UNCHANGED job

\* The process ends, and whatever runs in it.
ProcessEnds ==
  /\ Flow!Unregistered \/ Flow!PusherPanics \/ Flow!Kill
  /\ IF Tracked \in running /\ pc \notin Job!Ended THEN Job!Crash
                                                   ELSE UNCHANGED job

Next == PipelineStep \/ DeliveryStep \/ DeliveryReturns \/ ProcessEnds

Spec == Init /\ [][Next]_vars

\* Goroutines run, a call of the webhook ends by an answer or the client's
\* timeout, a statement by an answer or a failure.  Senders that wait for a
\* channel are served in the order they came: strong fairness for each pusher.
Fairness ==
  /\ WF_vars(Flow!Receive /\ UNCHANGED job)
  /\ WF_vars(Flow!TakeSlot /\ UNCHANGED job)
  /\ \A j \in Jobs :
       SF_vars(UNCHANGED job /\ \E s \in pushers : s[1] = j /\ Flow!Push(s))
  /\ \A j \in Jobs \ {Tracked} : WF_vars(Flow!Finish(j) /\ UNCHANGED job)
  /\ WF_vars(DeliveryStep) /\ WF_vars(DeliveryReturns)
  /\ WF_vars(ProcessEnds /\ (monitor = "stopped" \/ process = "unregister"))

FairSpec == Spec /\ Fairness

-----------------------------------------------------------------------------
(* Properties.  Those of the parts hold of the whole.                      *)

\* A selected job is in one place on its way (monitor.go, executor.go).
HeldInOnePlace == Flow!HeldInOnePlace

\* Jobs of one select are executed in order of run_at.
BatchOrder == Flow!BatchOrder

\* executor.start leaves nothing behind.
DrainedBeforeReturn == Flow!DrainedBeforeReturn

\* The status of a job and its executions row change together, also when the
\* process ends, by a panic of a pusher among others, during the transaction.
RecordedTogether == Job!RecordedTogether

\* The webhook is called at most max(1, Retries) times in all: what RetryDo
\* does, not what the example client is told.
CallsWithinBudget == Job!CallsWithinBudget

\* What it is told: Retries is "how many times to retry"
\* (examples/webhooksrv/main.go:46), the first call not counted.
RetriesComeOnTop == Job!RetriesComeOnTop

\* The record shows what the last call brought.
SuccessIffAnswered == Job!SuccessIffAnswered

\* Only a fault of the database or a text too long for its column leaves a
\* job Pending behind an executor that lives.
UnrecordedByFaultOnly == Job!UnrecordedByFaultOnly

\* A selected job is Pending and out of reach for every other worker: its
\* delivery comes to an end unless the process does.  A full channel, busy
\* slots and pushers that wait for each other only delay it.
SelectedIsDelivered ==
  \A j \in Jobs : batch[j] # Flow!NoJob ~> j \in ended \/ process = "gone"
=============================================================================
