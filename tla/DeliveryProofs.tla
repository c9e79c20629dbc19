--------------------------- MODULE DeliveryProofs ---------------------------
(***************************************************************************)
(* The safety properties of Delivery for every bound on the retries.  What *)
(* makes them inductive is what the open transaction has written at each   *)
(* of its statements, and how an answer and the error's text go together   *)
(* once RetryDo has returned.                                              *)
(***************************************************************************)
EXTENDS Delivery, TLAPS

InTx == {"begin", "update", "insert", "commit"}

\* Calls are counted up to the budget, and go on only while it is not used up.
Counted ==
  /\ attempts <= Budget
  /\ pc = "prepare" => attempts = 0
  /\ pc \in {"prepare", "attempt", "backoff"} => attempts < Budget

\* From the return of RetryDo on there is a text exactly without an answer.
TextIffNoAnswer ==
  /\ pc = "prepare" => answer = "none"
  /\ pc \in InTx => (text = "" <=> answer = "ok" \/ answer = "5xx")

\* What the transaction has written.
DraftIsOutcome ==
  /\ pc \in {"insert", "commit"} => draft.status = Outcome
  /\ pc \in {"update", "insert"} => draft.execution = "absent"
  /\ pc = "commit" => draft.execution = answer

\* What is committed: nothing before the end, then the outcome.
CommittedIsOutcome ==
  \/ status = Pending /\ execution = "absent"
  \/ /\ pc \in {"recorded", "failed"}
     /\ status = Outcome /\ execution = answer
     /\ text = "" <=> answer = "ok" \/ answer = "5xx"

\* The type invariant in parts: the numbers, the rest but for dbFault.
Numbers == retries \in -1..MaxRetries /\ attempts \in 0..MaxRetries
DraftType == [status : {Pending, "Success", "Fail"},
              execution : Answers \cup {"absent"}]
Texts ==
  /\ pc \in {"prepare", "attempt", "backoff"} \cup InTx \cup Ended
  /\ answer \in Answers
  /\ text \in {"", "short", "long"}
  /\ status \in {Pending, "Success", "Fail"}
  /\ execution \in Answers \cup {"absent"}
  /\ draft \in DraftType

IInv ==
  /\ Numbers /\ Texts /\ dbFault \in BOOLEAN
  /\ Counted
  /\ CallsWithinBudget
  /\ TextIffNoAnswer
  /\ DraftIsOutcome
  /\ CommittedIsOutcome
  /\ UnrecordedByFaultOnly

-----------------------------------------------------------------------------
\* The budget is a number the type of the counter allows.
LEMMA BudgetRange ==
  ASSUME DeliveryAssumption, retries \in -1..MaxRetries
  PROVE  Budget \in 1..MaxRetries
  BY DEF DeliveryAssumption, Budget

\* The parts of the type invariant are the type invariant.
LEMMA TypeSplit == TypeOK <=> Numbers /\ Texts /\ dbFault \in BOOLEAN
  BY Zenon DEF TypeOK, Numbers, Texts, DraftType, InTx

\* A fresh job satisfies the invariant.
LEMMA InitIInv == DeliveryAssumption /\ Init => IInv
  <1> SUFFICES ASSUME DeliveryAssumption, Init PROVE IInv
    OBVIOUS
  <1>1. Budget \in 1..MaxRetries /\ MaxRetries \in Nat
    BY BudgetRange DEF Init, DeliveryAssumption
  <1>2. /\ pc = "prepare" /\ attempts = 0 /\ answer = "none"
        /\ status = Pending /\ execution = "absent"
    BY DEF Init
  <1>3. Numbers /\ Texts /\ dbFault \in BOOLEAN
    <2>1. 0 \in 0..MaxRetries
      BY <1>1
    <2> QED
      BY <2>1, Zenon DEF Init, Numbers, Texts, DraftType, NoDraft, Pending, Answers, Ended
  <1>4. Counted /\ CallsWithinBudget
    BY <1>1, <1>2 DEF Counted, CallsWithinBudget
  <1>5. TextIffNoAnswer /\ DraftIsOutcome /\ CommittedIsOutcome
    BY <1>2 DEF TextIffNoAnswer, DraftIsOutcome, CommittedIsOutcome, InTx, Pending
  <1>6. UnrecordedByFaultOnly
    BY <1>2 DEF UnrecordedByFaultOnly
  <1> QED
    BY <1>3, <1>4, <1>5, <1>6 DEF IInv

-----------------------------------------------------------------------------
\* A call of the webhook.
LEMMA AttemptStep == ASSUME DeliveryAssumption, IInv, Attempt PROVE IInv'
  <1>1. /\ pc = "attempt"
        /\ attempts' = attempts + 1 /\ retries' = retries
        /\ pc' = IF answer' = "ok" \/ attempts' = Budget THEN "begin" ELSE "backoff"
        /\ UNCHANGED dbVars
    BY DEF Attempt, Return
  <1>2. /\ answer' \in Answers /\ text' \in {"", "short", "long"}
        /\ text' = "" <=> answer' # "none"
    BY DEF Attempt, Return, Answers
  <1>3. Numbers' /\ Counted' /\ CallsWithinBudget'
    <2>1. Numbers /\ Counted /\ Budget \in 1..MaxRetries /\ MaxRetries \in Nat
      BY BudgetRange DEF IInv, Numbers, DeliveryAssumption
    <2>2. Budget' = Budget
      BY <1>1 DEF Budget
    <2>3. attempts' \in 1..Budget
      BY <1>1, <2>1 DEF Numbers, Counted
    <2>4. pc' \in {"attempt", "backoff", "prepare"} =>
            /\ pc' = "backoff" /\ answer' # "ok" /\ attempts' # Budget
      BY <1>1
    <2> QED
      BY <1>1, <2>1, <2>2, <2>3, <2>4 DEF Numbers, Counted, CallsWithinBudget
  <1>4. pc' \in {"begin", "backoff"}
    BY <1>1
  <1>5. Texts'
    BY <1>1, <1>2, <1>4 DEF IInv, Texts, dbVars, InTx
  <1>6. TextIffNoAnswer' /\ DraftIsOutcome' /\ CommittedIsOutcome'
    <2>1. status = Pending /\ execution = "absent"
      BY <1>1 DEF IInv, CommittedIsOutcome
    <2> QED
      BY <1>1, <1>2, <1>4, <2>1 DEF dbVars, Answers, InTx, TextIffNoAnswer,
         DraftIsOutcome, CommittedIsOutcome
  <1>7. dbFault' \in BOOLEAN /\ UnrecordedByFaultOnly'
    BY <1>1, <1>4 DEF IInv, dbVars, UnrecordedByFaultOnly
  <1> QED
    BY <1>3, <1>5, <1>6, <1>7 DEF IInv

\* Outside of RetryDo nothing is counted.
LEMMA CountKept ==
  ASSUME Numbers, Counted, CallsWithinBudget, UNCHANGED callVars,
         pc' \notin {"prepare", "attempt", "backoff"}
  PROVE  Numbers' /\ Counted' /\ CallsWithinBudget'
  BY DEF Numbers, Counted, CallsWithinBudget, Budget, callVars

\* The steps around the calls.
LEMMA AroundCalls ==
  ASSUME IInv, Prepare \/ PrepareFails \/ Backoff
  PROVE  IInv'
  <1>1. /\ UNCHANGED <<retries, attempts, answer, dbVars>>
        /\ text' \in {"", "short", "long"}
        /\ \/ pc \in {"prepare", "backoff"} /\ pc' = "attempt"
           \/ pc = "prepare" /\ pc' = "begin" /\ text' # ""
    BY DEF Prepare, PrepareFails, Backoff, callVars, IInv, Texts
  <1>2. /\ Numbers /\ Texts /\ Counted /\ CallsWithinBudget
        /\ TextIffNoAnswer /\ CommittedIsOutcome
    BY DEF IInv
  <1>3. Numbers' /\ Counted' /\ CallsWithinBudget'
    BY <1>1, <1>2 DEF Numbers, Counted, CallsWithinBudget, TextIffNoAnswer, Budget
  <1>4. Texts'
    BY <1>1, <1>2 DEF Texts, dbVars, InTx
  <1>5. TextIffNoAnswer' /\ DraftIsOutcome' /\ CommittedIsOutcome'
    BY <1>1, <1>2 DEF dbVars, InTx, TextIffNoAnswer, DraftIsOutcome, CommittedIsOutcome
  <1>6. dbFault' \in BOOLEAN /\ UnrecordedByFaultOnly'
    BY <1>1 DEF IInv, dbVars, UnrecordedByFaultOnly
  <1> QED
    BY <1>3, <1>4, <1>5, <1>6 DEF IInv

\* The statements before the commit: only the draft grows.
LEMMA DraftStep ==
  ASSUME IInv, BeginTx \/ UpdateJobStatus \/ InsertExecution
  PROVE  IInv'
  <1>1. /\ UNCHANGED <<callVars, status, execution, dbFault>>
        /\ \/ pc = "begin" /\ pc' = "update" /\ draft' = NoDraft
           \/ pc = "update" /\ pc' = "insert" /\ draft' = [draft EXCEPT !.status = Outcome]
           \/ pc = "insert" /\ pc' = "commit" /\ draft' = [draft EXCEPT !.execution = answer]
           \/ pc = "insert" /\ pc' = "failed" /\ draft' = NoDraft /\ text = "long"
    BY DEF BeginTx, UpdateJobStatus, WriteStatus, InsertExecution, WriteExecution
  <1>2. /\ Numbers /\ Texts /\ Counted /\ CallsWithinBudget
        /\ TextIffNoAnswer /\ DraftIsOutcome /\ CommittedIsOutcome
    BY DEF IInv
  <1>3. Numbers' /\ Counted' /\ CallsWithinBudget'
    BY <1>1, <1>2, CountKept
  <1>3a. /\ draft' \in DraftType
         /\ pc' = "update" => draft'.execution = "absent"
         /\ pc' = "insert" => draft'.status = Outcome /\ draft'.execution = "absent"
         /\ pc' = "commit" => draft'.status = Outcome /\ draft'.execution = answer
    <2>1. /\ draft \in DraftType /\ answer \in Answers
          /\ Outcome \in {Pending, "Success", "Fail"}
      BY <1>2 DEF Texts, Outcome
    <2>2. pc = "update" => draft.execution = "absent"
      BY <1>2 DEF DraftIsOutcome
    <2>3. pc = "insert" => draft.status = Outcome
      BY <1>2 DEF DraftIsOutcome
    <2>4. CASE draft' = NoDraft /\ pc' \in {"update", "failed"}
      BY <2>4 DEF DraftType, NoDraft, Pending
    <2>5. CASE pc = "update" /\ pc' = "insert" /\ draft' = [draft EXCEPT !.status = Outcome]
      BY <2>1, <2>2, <2>5 DEF DraftType
    <2>6. CASE pc = "insert" /\ pc' = "commit" /\ draft' = [draft EXCEPT !.execution = answer]
      BY <2>1, <2>3, <2>6 DEF DraftType
    <2> QED
      BY <1>1, <2>4, <2>5, <2>6
  <1>3b. /\ UNCHANGED <<callVars, status, execution>>
         /\ pc' \in {"update", "insert", "commit", "failed"}
    BY <1>1
  <1>4. Texts'
    BY <1>2, <1>3a, <1>3b DEF Texts, callVars, InTx, Ended
  <1>5. DraftIsOutcome'
    BY <1>3a, <1>3b DEF Outcome, callVars, DraftIsOutcome
  <1>6. TextIffNoAnswer' /\ CommittedIsOutcome'
    BY <1>1, <1>2 DEF callVars, InTx, TextIffNoAnswer, CommittedIsOutcome
  <1>7. dbFault' \in BOOLEAN /\ UnrecordedByFaultOnly'
    BY <1>1 DEF IInv, callVars, UnrecordedByFaultOnly
  <1> QED
    BY <1>3, <1>4, <1>5, <1>6, <1>7 DEF IInv

\* The end of process(), or of the worker: the draft is committed or gone.
LEMMA EndStep ==
  ASSUME IInv, CommitTx \/ DbFails \/ Crash
  PROVE  IInv'
  <1>1. /\ UNCHANGED callVars
        /\ draft' = NoDraft
        /\ pc \notin Ended /\ pc' \in Ended
        /\ \/ UNCHANGED <<status, execution>>
           \/ pc = "commit" /\ pc' # "dead"
              /\ status' = draft.status /\ execution' = draft.execution
    BY DEF CommitTx, DbFails, Crash, Ended
  <1>2. /\ Numbers /\ Texts /\ Counted /\ CallsWithinBudget
        /\ TextIffNoAnswer /\ DraftIsOutcome /\ CommittedIsOutcome
    BY DEF IInv
  <1>3. Numbers' /\ Counted' /\ CallsWithinBudget'
    BY <1>1, <1>2, CountKept DEF Ended
  <1>4. Texts'
    <2>1. NoDraft \in DraftType
      BY DEF DraftType, NoDraft, Pending
    <2>2. draft.status \in {Pending, "Success", "Fail"} /\ draft.execution \in Answers \cup {"absent"}
      BY <1>2 DEF Texts, DraftType
    <2> QED
      BY <1>1, <1>2, <2>1, <2>2 DEF Texts, callVars
  <1>5. TextIffNoAnswer' /\ DraftIsOutcome' /\ CommittedIsOutcome'
    <2>1. status = Pending /\ execution = "absent"
      BY <1>1, <1>2 DEF CommittedIsOutcome, Ended
    <2> QED
      BY <1>1, <1>2, <2>1 DEF callVars, InTx, Ended, Outcome, TextIffNoAnswer,
         DraftIsOutcome, CommittedIsOutcome
  <1>6. dbFault' \in BOOLEAN /\ UnrecordedByFaultOnly'
    <2>1. dbFault' \in BOOLEAN /\ (pc' = "failed" => dbFault')
      BY DEF IInv, CommitTx, DbFails, Crash
    <2> QED
      BY <2>1 DEF UnrecordedByFaultOnly
  <1> QED
    BY <1>3, <1>4, <1>5, <1>6 DEF IInv

\* Every step keeps the invariant.
LEMMA NextIInv == DeliveryAssumption /\ IInv /\ [Next]_vars => IInv'
  <1> SUFFICES ASSUME DeliveryAssumption, IInv, [Next]_vars PROVE IInv'
    OBVIOUS
  <1>1. CASE UNCHANGED vars
    <2>1. UNCHANGED <<pc, retries, attempts, answer, text, status, execution, draft, dbFault>>
      BY <1>1 DEF vars, callVars, dbVars
    <2>2. Numbers' /\ Counted' /\ CallsWithinBudget'
      <3>1. Numbers /\ Counted /\ CallsWithinBudget
        BY DEF IInv
      <3> QED
        BY <2>1, <3>1 DEF Numbers, Counted, Budget, CallsWithinBudget
    <2>3. Texts' /\ dbFault' \in BOOLEAN /\ UnrecordedByFaultOnly'
      BY <2>1, Zenon DEF IInv, Texts, UnrecordedByFaultOnly
    <2>4. TextIffNoAnswer' /\ DraftIsOutcome' /\ CommittedIsOutcome'
      BY <2>1, Zenon DEF IInv, TextIffNoAnswer, DraftIsOutcome, CommittedIsOutcome, Outcome
    <2> QED
      BY <2>2, <2>3, <2>4 DEF IInv
  <1> QED
    BY <1>1, AttemptStep, AroundCalls, DraftStep, EndStep DEF Next

\* The invariant gives what Worker_safety checks of a delivery.
LEMMA Consequences ==
  IInv => TypeOK /\ RecordedTogether /\ CallsWithinBudget /\ SuccessIffAnswered
          /\ UnrecordedByFaultOnly
  <1> SUFFICES ASSUME IInv PROVE /\ TypeOK /\ RecordedTogether /\ SuccessIffAnswered
                                 /\ CallsWithinBudget /\ UnrecordedByFaultOnly
    OBVIOUS
  <1>1. TypeOK /\ CallsWithinBudget /\ UnrecordedByFaultOnly
    BY TypeSplit DEF IInv
  <1>2. CommittedIsOutcome /\ answer \in Answers
    BY DEF IInv, Texts
  <1>3. RecordedTogether /\ SuccessIffAnswered
    BY <1>2 DEF CommittedIsOutcome, Outcome, Answers, Pending, RecordedTogether,
       SuccessIffAnswered
  <1> QED
    BY <1>1, <1>3

-----------------------------------------------------------------------------
\* The inductive invariant holds throughout a delivery.
THEOREM Invariance == ASSUME DeliveryAssumption PROVE Spec => []IInv
  <1>1. Init => IInv
    BY InitIInv
  <1>2. IInv /\ [Next]_vars => IInv'
    BY NextIInv
  <1> QED
    BY <1>1, <1>2, PTL DEF Spec
=============================================================================
