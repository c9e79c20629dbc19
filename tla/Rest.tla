-------------------------------- MODULE Rest --------------------------------
(***************************************************************************)
(* The HTTP server: requests for scheduled jobs, for an account and for    *)
(* the server's health, each in a goroutine of its own; internal/rest with *)
(* internal/services/scheduledjobs.  Accounts says who a request acts for, *)
(* HealthCache what GET /health answers.                                   *)
(*                                                                         *)
(* The requests share the database's connections.  A transaction holds one *)
(* until it ends, another statement needs one while it runs.  Service.Get  *)
(* defers its Rollback after its first early return, so a job that is not  *)
(* found costs a connection for good.                                      *)
(*                                                                         *)
(* Schedule and GET /health take the read lock of the worker service.  The *)
(* workers' calls hold its write lock for a moment, but for a Register     *)
(* whose client gave up: it never unlocks (WorkerRegistry), and from then  *)
(* on these requests wait.  The partition of a job is Hermes's matter.     *)
(* GET /meta has no state.                                                 *)
(***************************************************************************)
EXTENDS Integers, FiniteSets

CONSTANTS
  Requests, RapidUsers, LocalUsers, MaxConns,  \* Accounts
  Jobs                                         \* uids of jobs

VARIABLES
  users, locked, known, free, auth, who, sound,
  cache, asking, reply,
  step,   \* request -> where its handler is
  req,    \* request -> what is asked for: kind of request, form of what it
          \* sends, job, whether its user had an account, and whether the job
          \* was the user's, when it came in
  answer, \* request -> the status code of its answer, or 0
  owner,  \* the table scheduled_jobs: uid -> user_id, or NoUser
  leaked, \* the worker service's lock was left locked
  misses  \* history: Gets that have left a connection behind

A == INSTANCE Accounts
H == INSTANCE HealthCache WITH dbUp <- free > 0, canRLock <- ~leaked

NoJob == "no job"

ASSUME RestAssumption == A!AccountsAssumption /\ NoJob \notin Jobs

accounts == <<users, locked, known, free, auth, who, sound>>
health == <<cache, asking, reply>>
jobVars == <<owner, misses>>
vars == <<accounts, health, step, req, answer, leaked, jobVars>>

NoRequest ==
  [kind |-> "none", form |-> "unread", job |-> NoJob, had |-> FALSE, owns |-> FALSE]
InTx == {"select", "executions", "commit"}

\* form: "bad" if the validation refuses it, "unfit" if only its columns do (a
\* url of more than 256 characters, a zero character in a text).
RequestType ==
  [kind : {"none", "signup", "create", "get", "health"},
   form : {"unread", "good", "unfit", "bad"}, job : Jobs \cup {NoJob},
   had : BOOLEAN, owns : BOOLEAN]

TypeOK ==
  /\ A!TypeOK /\ H!TypeOK
  /\ step \in [Requests -> {"idle", "auth", "health", "schedule", "insert", "notify",
                            "done"} \cup InTx]
  /\ req \in [Requests -> RequestType]
  /\ answer \in [Requests -> {0, 200, 201, 400, 401, 404, 500}]
  /\ leaked \in BOOLEAN
  /\ owner \in [Jobs -> A!Users \cup {A!NoUser}]
  /\ misses \in 0..MaxConns

Init ==
  /\ A!Init /\ H!Init
  /\ step = [r \in Requests |-> "idle"]
  /\ req = [r \in Requests |-> NoRequest]
  /\ answer = [r \in Requests |-> 0]
  /\ leaked = FALSE
  /\ owner = [b \in Jobs |-> A!NoUser]
  /\ misses = 0

-----------------------------------------------------------------------------
(* Requests come in.                                                       *)

Goto(r, s) == step' = [step EXCEPT ![r] = s] /\ UNCHANGED <<req, answer, leaked>>

Answer(r, code) ==
  /\ step' = [step EXCEPT ![r] = "done"]
  /\ answer' = [answer EXCEPT ![r] = code]
  /\ UNCHANGED <<req, leaked>>

Request(r, kind, job, had, owns) ==
  /\ step[r] = "idle"
  /\ req' = [req EXCEPT ![r] =
               [kind |-> kind, form |-> "unread", job |-> job, had |-> had, owns |-> owns]]
  /\ step' = [step EXCEPT ![r] = IF kind = "health" THEN "health" ELSE "auth"]
  /\ UNCHANGED <<answer, leaked, jobVars>>

HasAccount(u) == u \in known \/ u \in RapidUsers \cap users

PostScheduledJob(r, u) ==
  /\ Request(r, "create", NoJob, HasAccount(u), FALSE)
  /\ A!AuthMiddleware(r, u)
  /\ UNCHANGED health

GetScheduledJobs(r, u, b) ==
  /\ Request(r, "get", b, HasAccount(u), owner[b] = u)
  /\ A!AuthMiddleware(r, u)
  /\ UNCHANGED health

\* A payload Validate refuses is answered at once and leaves no trace.
PostUsers(r, u) ==
  /\ Request(r, "signup", NoJob, FALSE, FALSE)
  /\ A!Enter(r, u, "signup")
  /\ UNCHANGED health

GetHealth(r) ==
  /\ Request(r, "health", NoJob, FALSE, FALSE)
  /\ H!Enter(r)
  /\ UNCHANGED accounts

Arrives(r) ==
  \/ \E u \in A!Users :
       PostScheduledJob(r, u) \/ \E b \in Jobs : GetScheduledJobs(r, u, b)
  \/ \E u \in LocalUsers : PostUsers(r, u)
  \/ GetHealth(r)

-----------------------------------------------------------------------------
(* Authentication, signup, health.                                         *)

\* A refusal or an error of the middleware is the answer; so is a signup.
Verdict(r) ==
  CASE auth'[r] = "refused" -> Answer(r, 401)
    [] auth'[r] = "failed" -> Answer(r, 500)
    [] auth'[r] = "signedup" -> Answer(r, 201)
    [] OTHER -> UNCHANGED <<step, req, answer, leaked>>

Authenticating(r) ==
  /\ step[r] = "auth"
  /\ A!Step(r)
  /\ Verdict(r)
  /\ UNCHANGED <<health, jobVars>>

AuthTxFails(r) ==
  /\ A!TxFails(r)
  /\ Verdict(r)
  /\ UNCHANGED <<health, jobVars>>

\* uuid.New() gives an uid nobody has heard of.
New(b) == owner[b] = A!NoUser /\ \A r \in Requests : req[r].job # b

\* The handler has read the payload or the uid: refused, or as asked.
Read(r, form, job, s) ==
  /\ step[r] = "auth" /\ auth[r] = "passed"
  /\ req' = [req EXCEPT ![r].form = form, ![r].job = job]
  /\ step' = [step EXCEPT ![r] = s]
  /\ answer' = IF s = "done" THEN [answer EXCEPT ![r] = 400] ELSE answer
  /\ UNCHANGED <<accounts, health, leaked, jobVars>>

\* Whoever owns a job asks with the uid of it, which parses.
Validate(r) ==
  \/ ~req[r].owns /\ Read(r, "bad", req[r].job, "done")
  \/ /\ req[r].kind = "create"
     /\ \E f \in {"good", "unfit"}, b \in Jobs : New(b) /\ Read(r, f, b, "schedule")

AskingHealth(r) ==
  /\ step[r] = "health"
  /\ H!Step(r)
  /\ IF asking'[r] = "answer" THEN Answer(r, 200)
                           ELSE UNCHANGED <<step, req, answer, leaked>>
  /\ UNCHANGED <<accounts, jobVars>>

-----------------------------------------------------------------------------
(* Create.                                                                 *)

\* A statement of r outside of a transaction fails, or a commit; any error of
\* Schedule is answered with 500, of Get with 404.
Fault(r, code) ==
  /\ A!Fault(r)
  /\ Answer(r, code)
  /\ UNCHANGED <<users, locked, known, auth, who>>

\* Schedule gets the read lock of the worker service and picks a partition; the
\* lock is its own until it returns, with the answer.
Schedule(r) ==
  /\ step[r] = "schedule"
  /\ ~leaked
  /\ Goto(r, "insert")
  /\ UNCHANGED <<accounts, health, jobVars>>

Stored(r) == [owner EXCEPT ![req[r].job] = who[r]]

\* The row fits its columns and its foreign key.
Acceptable(r) == req[r].form = "good" /\ who[r] \in users

\* The INSERT of InsertScheduledJob commits by itself; a failed one may have
\* been carried out.
Insert(r) ==
  /\ step[r] = "insert"
  /\ \/ /\ free > 0
        /\ IF Acceptable(r) THEN owner' = Stored(r) /\ Goto(r, "notify")
                            ELSE Answer(r, 500) /\ UNCHANGED owner
        /\ UNCHANGED accounts
     \/ /\ Fault(r, 500)
        /\ owner' \in {owner, IF free > 0 /\ Acceptable(r) THEN Stored(r) ELSE owner}
        /\ UNCHANGED free
  /\ UNCHANGED <<health, misses>>

\* NOTIFY, after it.
Notify(r) ==
  /\ step[r] = "notify"
  /\ \/ free > 0 /\ Answer(r, 201) /\ UNCHANGED accounts
     \/ Fault(r, 500) /\ UNCHANGED free
  /\ UNCHANGED <<health, jobVars>>

-----------------------------------------------------------------------------
(* Get.                                                                    *)

\* The uid parses, and BEGIN.
Begin(r) ==
  /\ step[r] = "auth" /\ auth[r] = "passed"
  /\ req[r].kind = "get"
  /\ \/ /\ free > 0 /\ free' = free - 1
        /\ Goto(r, "select")
        /\ UNCHANGED <<users, locked, known, auth, who, sound>>
     \/ Fault(r, 404) /\ UNCHANGED free
  /\ UNCHANGED <<health, jobVars>>

\* Faulty variant: WHERE uid = ? only.
Found_AnyUser(r) == owner[req[r].job] # A!NoUser

\* WHERE uid = ? AND user_id = ?
Found(r) == owner[req[r].job] = who[r]

\* GetScheduledJob.  Its error returns before the Rollback is deferred.
GetScheduledJob(r) ==
  /\ step[r] = "select"
  /\ \/ Found(r) /\ Goto(r, "executions") /\ UNCHANGED <<accounts, misses>>
     \/ ~Found(r) /\ Answer(r, 404) /\ misses' = misses + 1 /\ UNCHANGED accounts
     \/ Fault(r, 404) /\ misses' = misses + 1 /\ UNCHANGED free
  /\ UNCHANGED <<health, owner>>

Selected(r, left) ==
  /\ step[r] = "executions"
  /\ \/ Goto(r, "commit") /\ UNCHANGED accounts
     \/ Fault(r, 404) /\ free' = left
  /\ UNCHANGED <<health, jobVars>>

\* Faulty variant: this error, too, returns without a Rollback.
SelectExecutions_NoRollback(r) == Selected(r, free)

SelectExecutions(r) == Selected(r, free + 1)

\* tx.Commit() ends the transaction, failed or not.
Commit(r) ==
  /\ step[r] = "commit"
  /\ free' = free + 1
  /\ \/ Answer(r, 200) /\ UNCHANGED <<users, locked, known, auth, who, sound>>
     \/ Fault(r, 404)
  /\ UNCHANGED <<health, jobVars>>

-----------------------------------------------------------------------------
\* The answer is sent; the client gets it, or does not.
Reply(r) ==
  /\ step[r] = "done"
  /\ \E got \in BOOLEAN : A!Leave(r, got)
  /\ H!Leave(r)
  /\ step' = [step EXCEPT ![r] = "idle"]
  /\ req' = [req EXCEPT ![r] = NoRequest]
  /\ answer' = [answer EXCEPT ![r] = 0]
  /\ UNCHANGED <<leaked, jobVars>>

Outdate == H!Outdate /\ UNCHANGED <<accounts, step, req, answer, leaked, jobVars>>

\* A worker gave up its POST while it waited for the lock: Register gets the
\* lock when no reader holds it, and returns without Unlock.
RegisterCancelled ==
  /\ ~leaked
  /\ \A r \in Requests : step[r] \notin {"insert", "notify"}
  /\ leaked' = TRUE
  /\ UNCHANGED <<accounts, health, step, req, answer, jobVars>>

\* The server ends (a rebalance that gets no connection panics, for one) and
\* is started anew.
Restart ==
  /\ A!Restart /\ H!Reset
  /\ step' = [r \in Requests |-> "idle"]
  /\ req' = [r \in Requests |-> NoRequest]
  /\ answer' = [r \in Requests |-> 0]
  /\ leaked' = FALSE
  /\ misses' = 0
  /\ UNCHANGED owner

\* What the handler of r does next, a failure of the database included only
\* where the alternative is open, too.
Handle(r) ==
  \/ Authenticating(r) \/ Validate(r)
  \/ AskingHealth(r)
  \/ Schedule(r) \/ Insert(r) \/ Notify(r)
  \/ Begin(r) \/ GetScheduledJob(r) \/ SelectExecutions(r) \/ Commit(r)

Next ==
  \/ \E r \in Requests : Arrives(r) \/ Handle(r) \/ AuthTxFails(r) \/ Reply(r)
  \/ Outdate \/ RegisterCancelled \/ Restart

Spec == Init /\ [][Next]_vars

\* Goroutines run and statements end.  A transaction that waits for the row of
\* another is served in turn by PostgreSQL, so a request that can go on again
\* and again does: strong fairness.  So does one that waits for the read lock:
\* the writers that come and go let the waiting readers in when they unlock.
Fairness ==
  /\ \A r \in Requests : SF_vars(Handle(r) \/ Reply(r))
  /\ WF_vars(Outdate)

FairSpec == Spec /\ Fairness

-----------------------------------------------------------------------------
(* Properties.                                                             *)

\* Each of the database's connections is free, held by one open transaction,
\* or was left behind by a Get that found no job: no other way through the
\* handlers loses one or gives one back twice (scheduled_jobs.go, auth.go).
ConnectionsAccounted ==
  LET holders == {r \in Requests : auth[r] \in A!InTx \/ step[r] \in InTx}
  IN free + Cardinality(holders) + misses = MaxConns

\* What an error may be due to, when the database is not to blame: columns
\* that do not take the job, a name that is taken, or the race of the first
\* calls of a RapidAPI user, who had no account when the request came in and
\* has one now.
Explained(r) ==
  \/ req[r].form = "unfit"
  \/ req[r].kind = "signup" /\ who[r] \in users
  \/ who[r] \in RapidUsers \cap users /\ ~req[r].had

\* A request that met no fault of the database is answered with 500 for one of
\* these reasons only, never when its user had an account; and it has stored
\* no job: the client may safely retry (Create, rapidApiAuth, Signup).
ErrorsExplained ==
  \A r \in Requests :
    answer[r] = 500 /\ sound[r] =>
      /\ Explained(r)
      /\ req[r].kind = "create" /\ req[r].job \in Jobs => owner[req[r].job] = A!NoUser

\* A client may count on success: it asks for the server's health, or has an
\* account and sends a valid job, or asks for a job of its own.
Due(r) ==
  \/ req[r].kind = "health" \/ req[r].owns
  \/ req[r].kind = "create" /\ req[r].had /\ req[r].form \notin {"bad", "unfit"}

\* A client that may count on success has it, unless a fault of the database
\* hits the request, whatever other requests do meanwhile.  And a job is shown
\* to its owner only.
ServedAsDue ==
  \A r \in Requests :
    /\ step[r] = "done" /\ Due(r) /\ sound[r] => answer[r] \in {200, 201}
    /\ answer[r] = 200 /\ req[r].kind = "get" => owner[req[r].job] = who[r]

\* A request that needs the read lock of the worker service to go on.
AwaitsLock(r) == step[r] = "schedule" \/ asking[r] = "count"

\* Every request is answered, so a goroutine for requests is idle again and
\* again: none waits forever for the row of another's transaction, for a
\* connection or for the cache.  Only when the lock of the worker service was
\* leaked (workers.go:223), the requests that come to the point where they need
\* it wait, and no others.
EveryRequestIsAnswered ==
  \A r \in Requests :
    []<>(step[r] = "idle" \/ (leaked /\ AwaitsLock(r)))

\* However the calls of GET /health overwrite each other's answers, they end
\* up telling the truth about a database that stays reachable, or unreachable.
Tells(b) ==
  \A r \in Requests : step[r] = "done" /\ req[r].kind = "health" => reply[r] = b
HealthConverges ==
  /\ <>[](free = 0) => <>[]Tells(FALSE)
  /\ <>[](free > 0) => <>[]Tells(TRUE)
=============================================================================
