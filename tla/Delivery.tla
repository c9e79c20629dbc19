------------------------------ MODULE Delivery ------------------------------
(***************************************************************************)
(* One job in the hands of an executor: process of internal/worker/        *)
(* executor.go and RetryDo of internal/common/common.go.  The webhook is   *)
(* called until it gives an answer below 500 or the attempts are used up,  *)
(* then the outcome is recorded in one transaction.                        *)
(*                                                                         *)
(* An answer is "ok" (a status below 500), "5xx" or "none" (client.Do      *)
(* failed; the endpoint may have got the request all the same).  Of an     *)
(* error's text only its length matters: executions.msg holds 255          *)
(* characters, and the text quotes the job's url.                          *)
(***************************************************************************)
EXTENDS Integers

CONSTANTS
  MaxRetries, \* the largest number of retries the REST API accepts: 3
  DbFaults    \* whether a statement of the transaction may fail by itself

DeliveryAssumption == MaxRetries \in Nat \ {0} /\ DbFaults \in BOOLEAN

VARIABLES
  pc,         \* "prepare", "attempt", "backoff", "begin", "update", "insert",
              \* "commit", "recorded", "failed" (process returned an error) or
              \* "dead" (the worker stopped)
  retries,    \* the job's Retries
  attempts,   \* calls of client.Do so far
  answer,     \* what the last call returned
  text,       \* the error text: "", "short" or "long" (over 255 characters)
  status,     \* the committed status of the job
  execution,  \* the committed executions row: the answer recorded, or "absent"
  draft,      \* the status and the row the open transaction has written
  dbFault     \* history: the database refused a statement

callVars == <<retries, attempts, answer, text>>
dbVars == <<status, execution, draft, dbFault>>
vars == <<pc, callVars, dbVars>>

Answers == {"ok", "5xx", "none"}
Pending == "Pending"
NoDraft == [status |-> Pending, execution |-> "absent"]
Ended == {"recorded", "failed", "dead"}

TypeOK ==
  /\ pc \in {"prepare", "attempt", "backoff", "begin", "update", "insert",
             "commit"} \cup Ended
  /\ retries \in -1..MaxRetries
  /\ attempts \in 0..MaxRetries
  /\ answer \in Answers
  /\ text \in {"", "short", "long"}
  /\ status \in {Pending, "Success", "Fail"}
  /\ execution \in Answers \cup {"absent"}
  /\ draft \in [status : {Pending, "Success", "Fail"},
                execution : Answers \cup {"absent"}]
  /\ dbFault \in BOOLEAN

\* Validate bounds Retries from above only.
Init ==
  /\ pc = "prepare"
  /\ retries \in -1..MaxRetries
  /\ attempts = 0
  /\ answer = "none"
  /\ text = ""
  /\ status = Pending
  /\ execution = "absent"
  /\ draft = NoDraft
  /\ dbFault = FALSE

-----------------------------------------------------------------------------
(* prepareReq and RetryDo.                                                 *)

\* RetryDo makes at least one attempt.
Budget == IF retries <= 0 THEN 1 ELSE retries

Prepare ==
  /\ pc = "prepare"
  /\ pc' = "attempt"
  /\ UNCHANGED <<callVars, dbVars>>

\* The url is not one http.NewRequest takes: a failed job without a call.
PrepareFails ==
  /\ pc = "prepare"
  /\ text' \in {"short", "long"}
  /\ pc' = "begin"
  /\ UNCHANGED <<retries, attempts, answer, dbVars>>

\* client.Do returns: an answer, or an error with its text.
Return(a) ==
  /\ answer' = a
  /\ text' \in IF a = "none" THEN {"short", "long"} ELSE {""}
  /\ UNCHANGED <<retries, dbVars>>

\* Faulty variant: the answer does not end the loop.
Attempt_NoEarlyReturn ==
  /\ pc = "attempt"
  /\ attempts' = attempts + 1
  /\ \E a \in Answers : Return(a)
  /\ pc' = IF attempts' = Budget THEN "begin" ELSE "backoff"

\* Faulty variant: the loop runs while i <= maxRetries, from 0.
Attempt_OneMore ==
  /\ pc = "attempt"
  /\ attempts' = attempts + 1
  /\ \E a \in Answers : Return(a)
  /\ pc' = IF answer' = "ok" \/ attempts' = Budget + 1 THEN "begin" ELSE "backoff"

\* One call of client.Do.  An answer below 500 is returned at once; after the
\* last attempt whatever came is returned, a 5xx answer without an error.
Attempt ==
  /\ pc = "attempt"
  /\ attempts' = attempts + 1
  /\ \E a \in Answers : Return(a)
  /\ pc' = IF answer' = "ok" \/ attempts' = Budget THEN "begin" ELSE "backoff"

\* The sleep between two attempts.
Backoff ==
  /\ pc = "backoff"
  /\ pc' = "attempt"
  /\ UNCHANGED <<callVars, dbVars>>

-----------------------------------------------------------------------------
(* The transaction of process().                                           *)

BeginTx ==
  /\ pc = "begin"
  /\ pc' = "update"
  /\ draft' = NoDraft
  /\ UNCHANGED <<callVars, status, execution, dbFault>>

Outcome == IF text = "" THEN "Success" ELSE "Fail"

\* UpdateJobStatus within the transaction, with the status st.
WriteStatus(st) ==
  /\ pc = "update"
  /\ draft' = [draft EXCEPT !.status = st]
  /\ pc' = "insert"
  /\ UNCHANGED <<callVars, execution, dbFault>>

\* Faulty variant: the statement runs on the database, outside the
\* transaction.
UpdateJobStatus_OutsideTx == WriteStatus(Outcome) /\ status' = Outcome

\* Faulty variant: a 5xx answer makes the job a failed one.
UpdateJobStatus_AnswerChecked ==
  /\ WriteStatus(IF answer = "ok" THEN "Success" ELSE "Fail")
  /\ UNCHANGED status

\* Any error makes a failed job, and only an error does.
UpdateJobStatus == WriteStatus(Outcome) /\ UNCHANGED status

\* The row is inserted, or refused and the transaction rolled back.
WriteExecution(fits) ==
  /\ pc = "insert"
  /\ pc' = IF fits THEN "commit" ELSE "failed"
  /\ draft' = IF fits THEN [draft EXCEPT !.execution = answer] ELSE NoDraft
  /\ UNCHANGED <<callVars, status, execution, dbFault>>

\* Faulty variant: the column is shorter than any error text.
InsertExecution_ShortColumn == WriteExecution(text = "")

\* The column cannot hold a long text.
InsertExecution == WriteExecution(text # "long")

CommitTx ==
  /\ pc = "commit"
  /\ status' = draft.status
  /\ execution' = draft.execution
  /\ draft' = NoDraft
  /\ pc' = "recorded"
  /\ UNCHANGED <<callVars, dbFault>>

\* A statement fails and process() returns; a failed commit may have been
\* carried out before its answer was lost.
DbFails ==
  /\ DbFaults
  /\ pc \in {"begin", "update", "insert", "commit"}
  /\ \/ UNCHANGED <<status, execution>>
     \/ /\ pc = "commit"
        /\ status' = draft.status
        /\ execution' = draft.execution
  /\ dbFault' = TRUE
  /\ draft' = NoDraft
  /\ pc' = "failed"
  /\ UNCHANGED callVars

\* The worker process stops; an open transaction is rolled back.
Crash ==
  /\ pc \notin Ended
  /\ pc' = "dead"
  /\ draft' = NoDraft
  /\ UNCHANGED <<callVars, status, execution, dbFault>>

-----------------------------------------------------------------------------
Next ==
  \/ Prepare \/ PrepareFails \/ Attempt \/ Backoff
  \/ BeginTx \/ UpdateJobStatus \/ InsertExecution \/ CommitTx
  \/ DbFails \/ Crash

Spec == Init /\ [][Next]_vars

-----------------------------------------------------------------------------
(* Properties.                                                             *)

\* The status of the job and its executions row change together, whatever
\* statement of the transaction fails and whenever the worker stops.
RecordedTogether == status # Pending <=> execution # "absent"

\* The webhook that answered below 500 is not called again, and the one that
\* never does is called at most max(1, Retries) times in all: Retries counts
\* calls, as RetryDo takes it (RetriesComeOnTop is how its user is told to).
CallsWithinBudget ==
  /\ attempts <= Budget
  /\ pc \in {"attempt", "backoff"} => attempts = 0 \/ answer # "ok"

\* "how many times to retry" (examples/webhooksrv/main.go:46, of Retries): a
\* webhook that never answered below 500 was called once and as many times
\* again before the executor goes on to record the outcome.
RetriesComeOnTop ==
  /\ pc \notin {"prepare", "attempt", "backoff", "dead"}
  /\ attempts > 0 /\ answer # "ok" /\ retries >= 0
  => attempts = retries + 1

\* A job is recorded as Success exactly when the last call got an answer, be
\* it a 5xx, and then the row shows that answer; an earlier answer or an
\* earlier failure leaves no trace.
SuccessIffAnswered ==
  status # Pending => /\ execution = answer
                      /\ (status = "Success" <=> answer # "none")

\* A job is left Pending by an executor that lives only when the database
\* refused a statement, or when the text of the error was too long for the
\* column: then nothing is wrong but the webhook's url.
UnrecordedByFaultOnly ==
  pc = "failed" /\ status = Pending => dbFault \/ text = "long"
=============================================================================
