---------------------------- MODULE WorkerProofs ----------------------------
(***************************************************************************)
(* What a worker's delivery of a job promises holds of the whole process:  *)
(* every step of the worker is a step of the tracked job's delivery or     *)
(* leaves it alone, so the invariant of DeliveryProofs carries over, also  *)
(* over the ways in which the process ends.  Likewise for what start() of  *)
(* PipelineProofs promises.                                                *)
(***************************************************************************)
EXTENDS Worker, TLAPS

D == INSTANCE DeliveryProofs
P == INSTANCE PipelineProofs

-----------------------------------------------------------------------------
\* A delivery of the worker is one of DeliveryProofs: the calls of the webhook.
LEMMA SameCalls ==
  /\ Job!Prepare => D!Prepare
  /\ Job!PrepareFails => D!PrepareFails
  /\ Job!Attempt => D!Attempt
  /\ Job!Backoff => D!Backoff
  BY DEF Job!Prepare, D!Prepare, Job!PrepareFails, D!PrepareFails,
     Job!Attempt, D!Attempt, Job!Return, D!Return, Job!Backoff, D!Backoff,
     Job!callVars, D!callVars, Job!dbVars, D!dbVars, Job!Answers, D!Answers,
     Job!Budget, D!Budget

\* The transaction, and the end of the process.
LEMMA SameTransaction ==
  /\ Job!BeginTx => D!BeginTx
  /\ Job!UpdateJobStatus => D!UpdateJobStatus
  /\ Job!InsertExecution => D!InsertExecution
  /\ Job!CommitTx => D!CommitTx
  /\ Job!DbFails => D!DbFails
  /\ Job!Crash => D!Crash
  BY DEF Job!BeginTx, D!BeginTx, Job!UpdateJobStatus, D!UpdateJobStatus,
     Job!WriteStatus, D!WriteStatus, Job!InsertExecution, D!InsertExecution,
     Job!WriteExecution, D!WriteExecution, Job!CommitTx, D!CommitTx,
     Job!DbFails, D!DbFails, Job!Crash, D!Crash, Job!Outcome, D!Outcome,
     Job!callVars, D!callVars, Job!dbVars, D!dbVars, Job!NoDraft, D!NoDraft,
     Job!Pending, D!Pending, Job!Ended, D!Ended

-----------------------------------------------------------------------------
\* A worker starts with the delivery not begun.
LEMMA InitMaps == Init => D!Init
  BY DEF Init, Job!Init, D!Init, Job!Pending, D!Pending, Job!NoDraft, D!NoDraft

\* Whatever the worker does is a step of the delivery, or none.
LEMMA StepMaps == [Next]_vars => [D!Next]_(D!vars)
  <1> SUFFICES ASSUME [Next]_vars PROVE D!Next \/ UNCHANGED D!vars
    OBVIOUS
  <1>0. UNCHANGED job => UNCHANGED D!vars
    BY DEF job, D!vars, D!callVars, D!dbVars
  <1>1. CASE PipelineStep
    BY <1>0, <1>1 DEF PipelineStep
  <1>2. CASE DeliveryStep
    BY <1>2, SameCalls, SameTransaction DEF DeliveryStep, D!Next
  <1>3. CASE DeliveryReturns
    BY <1>0, <1>3 DEF DeliveryReturns
  <1>4. CASE ProcessEnds
    BY <1>0, <1>4, SameTransaction DEF ProcessEnds, D!Next
  <1>5. CASE UNCHANGED vars
    BY <1>0, <1>5 DEF vars
  <1> QED
    BY <1>1, <1>2, <1>3, <1>4, <1>5 DEF Next

\* The assumption a delivery needs is one of the worker's.
LEMMA Bounds == D!DeliveryAssumption
  BY WorkerAssumption DEF Job!DeliveryAssumption, D!DeliveryAssumption

\* A worker's delivery is one Delivery allows.
LEMMA DeliveryInvariant == Spec => []D!IInv
  <1>1. Init => D!IInv
    BY InitMaps, Bounds, D!InitIInv
  <1>2. D!IInv /\ [Next]_vars => D!IInv'
    BY StepMaps, Bounds, D!NextIInv
  <1> QED
    BY <1>1, <1>2, PTL DEF Spec

-----------------------------------------------------------------------------
\* In every worker the status of a job and its executions row are committed
\* together (process in executor.go).
THEOREM StatusAndExecutionGoTogether == Spec => []RecordedTogether
  <1>1. D!IInv => RecordedTogether
    BY D!Consequences DEF RecordedTogether, Job!RecordedTogether,
       D!RecordedTogether, Job!Pending, D!Pending
  <1> QED
    BY <1>1, DeliveryInvariant, PTL

\* In every worker, for every bound on the retries, RetryDo calls the webhook
\* at most max(1, Retries) times and never after an answer below 500.
THEOREM CallsAreBounded == Spec => []CallsWithinBudget
  <1>1. D!IInv => CallsWithinBudget
    BY D!Consequences DEF CallsWithinBudget, Job!CallsWithinBudget,
       D!CallsWithinBudget, Job!Budget, D!Budget
  <1> QED
    BY <1>1, DeliveryInvariant, PTL

\* In every worker the record of a job shows what its last call brought.
THEOREM RecordShowsTheLastCall == Spec => []SuccessIffAnswered
  <1>1. D!IInv => SuccessIffAnswered
    BY D!Consequences DEF SuccessIffAnswered, Job!SuccessIffAnswered,
       D!SuccessIffAnswered, Job!Pending, D!Pending
  <1> QED
    BY <1>1, DeliveryInvariant, PTL

\* In every worker only a fault of the database, or a text too long for its
\* column, leaves a job Pending behind an executor that lives.
THEOREM OnlyFaultsLeaveJobsPending == Spec => []UnrecordedByFaultOnly
  <1>1. D!IInv => UnrecordedByFaultOnly
    BY D!Consequences DEF UnrecordedByFaultOnly, Job!UnrecordedByFaultOnly,
       D!UnrecordedByFaultOnly, Job!Pending, D!Pending
  <1> QED
    BY <1>1, DeliveryInvariant, PTL

-----------------------------------------------------------------------------
(* The pipeline.                                                           *)

\* The definitions of its slots, reached by either instance.
LEMMA SameSlots == \A S : Flow!Cardinality(S) = P!Cardinality(S)
  BY Zenon DEF Flow!Cardinality, P!Cardinality

\* A pipeline of the worker is one of PipelineProofs: executor.start.
LEMMA SameStart ==
  /\ Flow!Receive => P!Receive
  /\ Flow!RangeEnds => P!RangeEnds
  /\ Flow!TakeSlot => P!TakeSlot
  /\ Flow!Drain => P!Drain
  /\ \A j : Flow!Finish(j) => P!Finish(j)
  BY SameSlots DEF Flow!Receive, P!Receive, Flow!RangeEnds, P!RangeEnds,
     Flow!TakeSlot, P!TakeSlot, Flow!Drain, P!Drain, Flow!Fill, P!Fill,
     Flow!Finish, P!Finish, Flow!Return, P!Return, Flow!Alive, P!Alive,
     Flow!NoJob, P!NoJob, Flow!flowVars, P!flowVars

\* The ends of the process.
LEMMA SameEnds ==
  /\ Flow!StartReturns => P!StartReturns
  /\ Flow!ListenOrPingFails => P!ListenOrPingFails
  /\ Flow!Unregistered => P!Unregistered
  /\ Flow!PusherPanics => P!PusherPanics
  /\ Flow!Kill => P!Kill
  BY DEF Flow!StartReturns, P!StartReturns, Flow!ListenOrPingFails, P!ListenOrPingFails,
     Flow!Unregistered, P!Unregistered, Flow!PusherPanics, P!PusherPanics,
     Flow!Kill, P!Kill, Flow!Stop, P!Stop, Flow!Alive, P!Alive, Flow!NoJob, P!NoJob,
     Flow!flowVars, P!flowVars

\* The monitor and its pushers.
LEMMA SameMonitor ==
  /\ \A S : Flow!Select(S) => P!Select(S)
  /\ \A s : Flow!Push(s) => P!Push(s)
  /\ Flow!SelectFails => P!SelectFails
  BY SameSlots DEF Flow!Select, P!Select, Flow!Take, P!Take, Flow!Range, P!Range,
     Flow!Taken, P!Taken, Flow!Alive, P!Alive, Flow!NoJob, P!NoJob,
     Flow!Push, P!Push, Flow!SendHead, P!SendHead,
     Flow!SelectFails, P!SelectFails, Flow!flowVars, P!flowVars

\* Whatever the worker does is a step of the pipeline, or none.
LEMMA FlowStepMaps == [Next]_vars => [P!Next]_(P!vars)
  <1> SUFFICES ASSUME [Next]_vars PROVE P!Next \/ UNCHANGED P!vars
    OBVIOUS
  <1>1. UNCHANGED flow => UNCHANGED P!vars
    BY DEF flow, P!vars, P!flowVars
  <1>2. CASE PipelineStep
    BY <1>2, SameMonitor, SameStart, SameEnds DEF PipelineStep, P!Next
  <1>3. CASE DeliveryStep
    BY <1>1, <1>3 DEF DeliveryStep
  <1>4. CASE DeliveryReturns
    BY <1>4, WorkerAssumption, SameStart DEF DeliveryReturns, P!Next
  <1>5. CASE ProcessEnds
    BY <1>5, SameEnds DEF ProcessEnds, P!Next
  <1>6. CASE UNCHANGED vars
    BY <1>1, <1>6 DEF vars
  <1> QED
    BY <1>2, <1>3, <1>4, <1>5, <1>6 DEF Next

\* A worker's pipeline is one Pipeline allows.
LEMMA PipelineInvariant == Spec => [](P!IInv /\ P!FInv)
  <1>0. P!PipelineAssumption
    BY WorkerAssumption DEF Flow!PipelineAssumption, P!PipelineAssumption
  <1>1. Init => P!IInv /\ P!FInv
    <2>1. Init => P!Init
      BY DEF Init, Flow!Init, P!Init, Flow!NoJob, P!NoJob
    <2> QED
      BY <1>0, <2>1, P!InitIInv, P!InitFInv
  <1>2. P!IInv /\ P!FInv /\ [Next]_vars => P!IInv' /\ P!FInv'
    BY <1>0, FlowStepMaps, P!NextIInv, P!NextFInv
  <1> QED
    BY <1>1, <1>2, PTL DEF Spec

\* For every size of the channel and number of slots executor.start returns
\* only when the channel is empty and no job is in hand or in work.
THEOREM NothingIsLeftBehind == Spec => []DrainedBeforeReturn
  <1>1. P!IInv => DrainedBeforeReturn
    BY P!NothingInWork DEF DrainedBeforeReturn, Flow!DrainedBeforeReturn, Flow!NoJob, P!NoJob
  <1> QED
    BY <1>1, PipelineInvariant, PTL

\* In every worker, with any number of pushers at a time, a selected job is in
\* exactly one place on its way to the end of its delivery: none is dropped
\* and none is delivered twice (monitor.go, executor.go).
THEOREM EachJobInOnePlace == Spec => []HeldInOnePlace
  <1>1. P!FInv => HeldInOnePlace
    <2>1. P!HeldInOnePlace => HeldInOnePlace
      BY DEF HeldInOnePlace, Flow!HeldInOnePlace, P!HeldInOnePlace, Flow!Places, P!Places,
         Flow!InPusher, P!InPusher, Flow!InChannel, P!InChannel, Flow!Taken, P!Taken,
         Flow!Alive, P!Alive, Flow!Range, P!Range, Flow!NoJob, P!NoJob
    <2> QED
      BY <2>1, P!OnePlace
  <1> QED
    BY <1>1, PipelineInvariant, PTL

\* In every worker the jobs of one select reach the executors in order of
\* run_at, whatever other selects bring meanwhile (monitor.go, executor.go).
THEOREM SelectsKeepTheirOrder == Spec => []BatchOrder
  <1>1. P!FInv => BatchOrder
    <2>1. P!BatchOrder => BatchOrder
      BY DEF BatchOrder, Flow!BatchOrder, P!BatchOrder, Flow!Received, P!Received,
         Flow!Taken, P!Taken, Flow!Alive, P!Alive, Flow!NoJob, P!NoJob
    <2> QED
      BY <2>1, P!InOrder
  <1> QED
    BY <1>1, PipelineInvariant, PTL

\* Every variable of a worker keeps its type, the slots in use and the places
\* of the channel included (TypeOK).
THEOREM TypeCorrect == Spec => []TypeOK
  <1>0. P!PipelineAssumption
    BY WorkerAssumption DEF Flow!PipelineAssumption, P!PipelineAssumption
  <1>1. P!IInv /\ P!FInv => Flow!TypeOK
    <2>1. P!TypeOK => Flow!TypeOK
      BY SameSlots DEF Flow!TypeOK, P!TypeOK, Flow!NoJob, P!NoJob
    <2> QED
      BY <1>0, <2>1, P!TypesTogether
  <1>2. D!IInv => Job!TypeOK
    <2>1. D!TypeOK => Job!TypeOK
      BY Zenon DEF Job!TypeOK, D!TypeOK, Job!Answers, D!Answers, Job!Pending, D!Pending,
         Job!Ended, D!Ended
    <2> QED
      BY <2>1, D!TypeSplit DEF D!IInv
  <1> QED
    BY <1>1, <1>2, PipelineInvariant, DeliveryInvariant, PTL DEF TypeOK
=============================================================================
