----------------------------- MODULE RestProofs -----------------------------
(***************************************************************************)
(* What holds of the HTTP server for every set of requests, users and jobs *)
(* and every number of connections, proved with TLAPS.                     *)
(*                                                                         *)
(* The inductive invariant says, of each request, how far the middleware   *)
(* and the handler may be at the same time (Progress), what the account    *)
(* table says of its user (Standing), and what the job table says of its   *)
(* job (Matter); the connections are counted on top of that.               *)
(***************************************************************************)
EXTENDS Rest, FiniteSetTheorems, TLAPS

\* The handler has been entered: the middleware is through with the request.
Creating == {"schedule", "insert", "notify"}
Getting == InTx

\* TypeOK without the bounds that only the count of the connections gives.
Types ==
  /\ users \in SUBSET A!Users /\ locked \in SUBSET A!Users /\ known \in SUBSET A!Users
  /\ free \in Nat
  /\ auth \in [Requests -> {"none", "begin", "key", "signup", "passed", "refused",
                            "failed", "signedup"} \cup A!InTx]
  /\ who \in [Requests -> A!Users \cup {A!NoUser}]
  /\ sound \in [Requests -> BOOLEAN]
  /\ H!TypeOK
  /\ step \in [Requests -> {"idle", "auth", "health", "schedule", "insert", "notify",
                            "done"} \cup InTx]
  /\ req \in [Requests -> RequestType]
  /\ answer \in [Requests -> {0, 200, 201, 400, 401, 404, 500}]
  /\ owner \in [Jobs -> A!Users \cup {A!NoUser}]
  /\ leaked \in BOOLEAN
  /\ misses \in Nat

\* A request is with the middleware, with a handler, or answered; the handler
\* is the one of its kind and has been told the job.
Progress(r) ==
  /\ auth[r] \in {"begin", "key", "signup"} \cup A!InTx => step[r] = "auth"
  /\ step[r] = "auth" => req[r].kind \in {"signup", "create", "get"}
  /\ auth[r] = "signup" => req[r].kind = "signup"
  /\ step[r] = "health" => req[r].kind = "health"
  /\ step[r] \in Creating \cup Getting => auth[r] = "passed"
  /\ step[r] \in Creating => req[r].kind = "create" /\ req[r].job \in Jobs
  /\ step[r] \in Getting => req[r].kind = "get"
  /\ step[r] = "auth" /\ req[r].kind = "create" => req[r].job = NoJob
  /\ req[r].kind = "get" => req[r].job \in Jobs
  /\ answer[r] # 0 => step[r] = "done"
  /\ answer[r] = 200 /\ req[r].kind = "get" => auth[r] = "passed"
  /\ answer[r] = 201 /\ req[r].kind = "create" => req[r].job \in Jobs

\* Who has passed the middleware has an account, and who had one still has it;
\* rapidApiAuth looks after RapidAPI's users only.
Standing(r) ==
  /\ auth[r] \in {"begin"} \cup A!InTx => who[r] \in RapidUsers
  /\ auth[r] \in {"key", "signup"} => who[r] \in LocalUsers
  /\ auth[r] \in {"load", "signedup"} => who[r] \in users
  /\ auth[r] = "passed" => HasAccount(who[r])
  /\ auth[r] \in {"insert", "commit"} => ~req[r].had
  /\ req[r].had => req[r].kind \in {"create", "get"} /\ HasAccount(who[r])
  /\ req[r].owns => req[r].kind = "get" /\ req[r].had

\* The job of a request: not yet stored, still its user's, or not found.
Matter(r) ==
  /\ step[r] \in {"schedule", "insert"} => owner[req[r].job] = A!NoUser
  /\ step[r] \in {"schedule", "insert"} => req[r].form \in {"good", "unfit"}
  /\ req[r].owns => owner[req[r].job] = who[r]
  /\ step[r] \in {"executions", "commit"} => owner[req[r].job] = who[r]

\* Two requests never create the same job.
Distinct ==
  \A r, q \in Requests :
    r # q /\ req[r].kind = "create" /\ req[q].kind = "create"
          /\ req[r].job \in Jobs => req[r].job # req[q].job

Accountable ==
  /\ known \subseteq users
  /\ \A b \in Jobs : owner[b] # A!NoUser => HasAccount(owner[b])

\* ErrorsExplained and ServedAsDue, of one request.
Deserved(r) ==
  /\ answer[r] = 500 /\ sound[r] =>
       /\ Explained(r)
       /\ req[r].kind = "create" /\ req[r].job \in Jobs => owner[req[r].job] = A!NoUser
  /\ step[r] = "done" /\ Due(r) /\ sound[r] => answer[r] \in {200, 201}
  /\ answer[r] = 200 /\ req[r].kind = "get" => owner[req[r].job] = who[r]

Own(r) == Progress(r) /\ Standing(r) /\ Matter(r) /\ Deserved(r)

Core == Types /\ Accountable /\ Distinct /\ \A r \in Requests : Own(r)

IInv == Core /\ ConnectionsAccounted

-----------------------------------------------------------------------------
(* A step of one request.                                                  *)

\* What a step of r leaves alone: the other requests, the accounts there are,
\* and all jobs but one that r stores; the job it names for creation is new.
Elsewhere(r) ==
  /\ \A q \in Requests : q # r =>
       /\ step'[q] = step[q] /\ req'[q] = req[q] /\ answer'[q] = answer[q]
       /\ auth'[q] = auth[q] /\ who'[q] = who[q] /\ sound'[q] = sound[q]
  /\ users \subseteq users' /\ known \subseteq known' /\ known' \subseteq users'
  /\ req'[r].kind = "create" /\ req'[r].job \in Jobs =>
       (req[r].kind = "create" /\ req[r].job = req'[r].job) \/ New(req'[r].job)
  /\ owner' = owner \/ (step[r] = "insert" /\ who[r] \in users /\ owner' = Stored(r))

\* A user keeps the account.
LEMMA AccountsStay ==
  ASSUME users \subseteq users', known \subseteq known', NEW u, HasAccount(u)
  PROVE  HasAccount(u)'
BY DEF HasAccount

\* Another request is not disturbed.
LEMMA OthersUndisturbed ==
  ASSUME Core, NEW r \in Requests, Elsewhere(r), NEW q \in Requests, q # r
  PROVE  Own(q)'
<1> DEFINE Same == /\ step'[q] = step[q] /\ req'[q] = req[q] /\ answer'[q] = answer[q]
                   /\ auth'[q] = auth[q] /\ who'[q] = who[q] /\ sound'[q] = sound[q]
<1>1. Same /\ users \subseteq users' /\ known \subseteq known'
  BY DEF Elsewhere
<1>2. Own(q) /\ Own(r)
  BY DEF Core
<1>3. HasAccount(who[q]) => HasAccount(who[q])'
  BY <1>1, AccountsStay DEF HasAccount
<1>4. Progress(q)'
  BY <1>1, <1>2 DEF Own, Progress
<1>5. Standing(q)'
  BY <1>1, <1>2, <1>3 DEF Own, Standing
<1>6. HasAccount(who[q]) => who[q] # A!NoUser
  BY RestAssumption DEF Core, Types, Accountable, HasAccount, A!AccountsAssumption, A!Users
<1>7. ASSUME req[q].job \in Jobs
      PROVE  \/ owner'[req[q].job] = owner[req[q].job]
             \/ owner[req[q].job] = A!NoUser /\ req[q].kind # "create"
  <2>1. CASE owner' # owner /\ req[q].job = req[r].job
    <3>1. step[r] = "insert" /\ req[r].kind = "create" /\ req[r].job \in Jobs
      BY <1>2, <2>1 DEF Elsewhere, Own, Progress, Creating
    <3>2. owner[req[r].job] = A!NoUser
      BY <1>2, <3>1 DEF Own, Matter
    <3> QED  BY <1>7, <3>1, <3>2, <2>1 DEF Core, Distinct
  <2>2. CASE req[q].job # req[r].job
    BY <1>7, <2>2 DEF Elsewhere, Stored, Core, Types
  <2>3. CASE owner' = owner
    BY <2>3
  <2> QED  BY <2>1, <2>2, <2>3
<1>8. ASSUME req[q].job \in Jobs, owner[req[q].job] = who[q], HasAccount(who[q])
      PROVE  owner'[req[q].job] = who[q]
  BY <1>6, <1>7, <1>8
<1>9. Matter(q)'
  <2>1. step[q] \in {"executions", "commit"} => HasAccount(who[q]) /\ req[q].job \in Jobs
    BY <1>2 DEF Own, Progress, Standing, Getting, InTx
  <2>2. req[q].owns => HasAccount(who[q]) /\ req[q].job \in Jobs
    BY <1>2 DEF Own, Progress, Standing
  <2>3. step[q] \in {"schedule", "insert"} => req[q].kind = "create" /\ req[q].job \in Jobs
    BY <1>2 DEF Own, Progress, Creating
  <2> QED  BY <1>1, <1>2, <1>7, <1>8, <2>1, <2>2, <2>3 DEF Own, Matter
<1>10. Deserved(q)'
  <2>1. answer[q] = 200 /\ req[q].kind = "get" => HasAccount(who[q]) /\ req[q].job \in Jobs
    BY <1>2 DEF Own, Progress, Standing
  <2>2. answer[q] = 200 /\ req[q].kind = "get" => owner'[req[q].job] = who[q]
    BY <1>2, <1>8, <2>1 DEF Own, Deserved
  <2>3. answer[q] = 500 /\ sound[q] /\ req[q].kind = "create" /\ req[q].job \in Jobs
          => owner'[req[q].job] = A!NoUser
    BY <1>2, <1>7 DEF Own, Deserved
  <2>4. answer[q] = 500 /\ sound[q] => Explained(q)'
    BY <1>1, <1>2 DEF Own, Deserved, Explained
  <2>5. step[q] = "done" /\ Due(q)' /\ sound[q] => answer[q] \in {200, 201}
    BY <1>1, <1>2 DEF Own, Deserved, Due
  <2> QED  BY <1>1, <2>2, <2>3, <2>4, <2>5 DEF Deserved
<1> QED  BY <1>4, <1>5, <1>9, <1>10 DEF Own

\* Accounts are added before anything is stored for them.
LEMMA AccountableStep ==
  ASSUME Core, NEW r \in Requests, Elsewhere(r)
  PROVE  Accountable'
<1>1. ASSUME NEW b \in Jobs, owner'[b] # A!NoUser
      PROVE  HasAccount(owner[b])'
  <2>1. CASE owner'[b] = owner[b]
    BY <1>1, <2>1 DEF Core, Accountable, Elsewhere, HasAccount
  <2>2. CASE owner'[b] # owner[b]
    <3>1. owner'[b] = who[r] /\ step[r] = "insert"
      BY <1>1, <2>2 DEF Core, Types, Elsewhere, Stored
    <3>2. HasAccount(who[r])
      BY <3>1 DEF Core, Own, Progress, Standing, Creating
    <3> QED  BY <3>1, <3>2 DEF Elsewhere, HasAccount
  <2> QED  BY <2>1, <2>2
<1> QED  BY <1>1 DEF Accountable, Elsewhere

\* The uid of a new job is nobody else's.
LEMMA DistinctStep ==
  ASSUME Core, NEW r \in Requests, Elsewhere(r)
  PROVE  Distinct'
<1>1. ASSUME NEW q \in Requests, q # r, req'[r].kind = "create", req'[q].kind = "create",
             req'[r].job \in Jobs
      PROVE  req'[r].job # req'[q].job
  BY <1>1 DEF Core, Distinct, Elsewhere, New
<1>2. ASSUME NEW p \in Requests, NEW q \in Requests, p # q, p # r, q # r,
             req'[p].kind = "create", req'[q].kind = "create", req'[p].job \in Jobs
      PROVE  req'[p].job # req'[q].job
  BY <1>2 DEF Core, Distinct, Elsewhere
<1> QED  BY <1>1, <1>2 DEF Distinct

\* It is left to show, of each action, what it does to its own request.
LEMMA CoreStep ==
  ASSUME Core, NEW r \in Requests, Types', Elsewhere(r), Own(r)'
  PROVE  Core'
<1>1. \A q \in Requests : Own(q)'
  BY OthersUndisturbed
<1> QED  BY <1>1, AccountableStep, DistinctStep DEF Core

-----------------------------------------------------------------------------
(* The actions.                                                            *)

\* A request that the middleware will look at comes in.
LEMMA EnterStep ==
  ASSUME Core, NEW r \in Requests, NEW u \in A!Users, NEW a \in {"begin", "key", "signup"},
         NEW kind \in {"signup", "create", "get"}, NEW job \in Jobs \cup {NoJob},
         NEW had \in BOOLEAN, NEW owns \in BOOLEAN,
         Request(r, kind, job, had, owns), A!Enter(r, u, a), UNCHANGED health,
         a = "begin" => u \in RapidUsers,
         a \in {"key", "signup"} => u \in LocalUsers,
         a = "signup" => kind = "signup",
         kind = "get" <=> job \in Jobs,
         had => HasAccount(u) /\ kind # "signup",
         owns => kind = "get" /\ had /\ owner[job] = u
  PROVE  Types' /\ Elsewhere(r) /\ Own(r)'
<1>1. /\ step[r] = "idle"
      /\ step' = [step EXCEPT ![r] = "auth"]
      /\ req' = [req EXCEPT ![r] = [kind |-> kind, form |-> "unread",
                                    job |-> job, had |-> had, owns |-> owns]]
      /\ auth' = [auth EXCEPT ![r] = a]
      /\ who' = [who EXCEPT ![r] = u]
      /\ UNCHANGED <<users, locked, known, free, sound>>
      /\ UNCHANGED <<cache, asking, reply, answer, leaked, owner, misses>>
  BY DEF Request, A!Enter, A!Goto, A!tableVars, health, jobVars
<1>2. Types'
  BY <1>1 DEF Core, Types, RequestType, H!TypeOK
<1>3. Elsewhere(r)
  BY <1>1, RestAssumption DEF Core, Types, Elsewhere, Accountable
<1>4. /\ step'[r] = "auth" /\ auth'[r] = a /\ who'[r] = u /\ answer'[r] = answer[r]
      /\ req'[r].kind = kind /\ req'[r].job = job
      /\ req'[r].had = had /\ req'[r].owns = owns
  BY <1>1 DEF Core, Types
<1>5. answer'[r] = 0
  BY <1>1, <1>4 DEF Core, Own, Progress
<1>6. Progress(r)'
  BY <1>4, <1>5, RestAssumption DEF Progress, Creating, Getting, InTx, A!InTx
<1>7. had => HasAccount(u)'
  BY <1>1 DEF HasAccount
<1>8. Standing(r)'
  BY <1>4, <1>7 DEF Standing, A!InTx, HasAccount
<1>9. Matter(r)'
  BY <1>1, <1>4 DEF Matter, InTx
<1>10. Deserved(r)'
  BY <1>4, <1>5 DEF Deserved
<1> QED  BY <1>2, <1>3, <1>6, <1>8, <1>9, <1>10 DEF Own

\* A request comes in.
LEMMA ArrivesStep ==
  ASSUME Core, NEW r \in Requests, Arrives(r)
  PROVE  Types' /\ Elsewhere(r) /\ Own(r)'
<1>1. ASSUME NEW u \in A!Users, PostScheduledJob(r, u)
      PROVE  Types' /\ Elsewhere(r) /\ Own(r)'
  <2>1. HasAccount(u) \in BOOLEAN
    BY DEF HasAccount
  <2> QED
    BY <1>1, <2>1, EnterStep, RestAssumption DEF PostScheduledJob, A!AuthMiddleware, A!Users
<1>2. ASSUME NEW u \in A!Users, NEW b \in Jobs, GetScheduledJobs(r, u, b)
      PROVE  Types' /\ Elsewhere(r) /\ Own(r)'
  <2> DEFINE owns == owner[b] = u
  <2>1. owns => HasAccount(u)
    BY RestAssumption DEF Core, Accountable, A!AccountsAssumption, A!Users
  <2>2. owns \in BOOLEAN /\ (owns => owner[b] = u) /\ HasAccount(u) \in BOOLEAN
    BY Zenon DEF HasAccount
  <2>3. /\ Request(r, "get", b, HasAccount(u), owns)
        /\ A!AuthMiddleware(r, u) /\ UNCHANGED health
    BY <1>2 DEF GetScheduledJobs
  <2> HIDE DEF owns
  <2> QED
    BY <2>1, <2>2, <2>3, EnterStep DEF A!AuthMiddleware, A!Users
<1>3. ASSUME NEW u \in LocalUsers, PostUsers(r, u)
      PROVE  Types' /\ Elsewhere(r) /\ Own(r)'
  BY <1>3, EnterStep, RestAssumption DEF PostUsers, A!Users
<1>4. ASSUME GetHealth(r)
      PROVE  Types' /\ Elsewhere(r) /\ Own(r)'
  <2>1. /\ step[r] = "idle"
        /\ step' = [step EXCEPT ![r] = "health"]
        /\ req' = [req EXCEPT ![r] = [kind |-> "health", form |-> "unread",
                                      job |-> NoJob, had |-> FALSE, owns |-> FALSE]]
        /\ asking' = [asking EXCEPT ![r] = "read"]
        /\ UNCHANGED <<users, locked, known, free, auth, who, sound>>
        /\ UNCHANGED <<cache, reply, answer, leaked, owner, misses>>
    BY <1>4 DEF GetHealth, Request, H!Enter, H!Goto, accounts, jobVars
  <2>2. Types'
    BY <2>1 DEF Core, Types, RequestType, H!TypeOK
  <2>3. Elsewhere(r)
    BY <2>1, RestAssumption DEF Core, Types, Elsewhere, Accountable
  <2>4. /\ step'[r] = "health" /\ req'[r].kind = "health" /\ ~req'[r].had /\ ~req'[r].owns
        /\ auth'[r] = auth[r] /\ who'[r] = who[r] /\ answer'[r] = answer[r]
    BY <2>1 DEF Core, Types
  <2>5. auth[r] \notin {"begin", "key", "signup"} \cup A!InTx /\ answer[r] = 0
    BY <2>1 DEF Core, Own, Progress
  <2>6. Progress(r)'
    BY <2>4, <2>5 DEF Progress, Creating, Getting, InTx
  <2>7. HasAccount(who[r]) => HasAccount(who[r])'
    BY <2>1 DEF HasAccount
  <2>8. Standing(r)'
    BY <2>1, <2>4, <2>5, <2>7 DEF Core, Own, Standing, A!InTx, HasAccount
  <2>9. Matter(r)'
    BY <2>4 DEF Matter, InTx
  <2>10. Deserved(r)'
    BY <2>4, <2>5 DEF Deserved
  <2> QED  BY <2>2, <2>3, <2>6, <2>8, <2>9, <2>10 DEF Own
<1> QED  BY <1>1, <1>2, <1>3, <1>4 DEF Arrives

\* At most one request is hit by a fault.
LEMMA SoundStep ==
  ASSUME Types, NEW r \in Requests,
         sound' = sound \/ sound' = [sound EXCEPT ![r] = FALSE]
  PROVE  sound' \in [Requests -> BOOLEAN]
<1>1. sound \in [Requests -> BOOLEAN]
  BY DEF Types
<1>2. CASE sound' = sound
  BY <1>1, <1>2
<1>3. CASE sound' = [sound EXCEPT ![r] = FALSE]
  BY <1>1, <1>3
<1> QED  BY <1>2, <1>3

\* The middleware moves a request on, or answers it.
LEMMA VerdictStep ==
  ASSUME Core, NEW r \in Requests, step[r] = "auth", Verdict(r), UNCHANGED <<health, jobVars>>,
         NEW a \in {"passed", "refused", "failed", "signedup"} \cup A!InTx,
         auth' = [auth EXCEPT ![r] = a], UNCHANGED <<known, who>>,
         users' \in SUBSET A!Users, users \subseteq users',
         locked' \in SUBSET A!Users, free' \in Nat,
         sound' = sound \/ sound' = [sound EXCEPT ![r] = FALSE],
         a \in A!InTx => who[r] \in RapidUsers,
         a \in {"load", "signedup"} => who[r] \in users',
         a = "signedup" => req[r].kind = "signup",
         a = "passed" => HasAccount(who[r])',
         a \in {"insert", "commit"} => ~req[r].had,
         a = "failed" => \/ ~sound'[r]
                         \/ /\ who[r] \in users' /\ ~req[r].had
                            /\ req[r].kind = "signup" \/ who[r] \in RapidUsers,
         a = "refused" => ~sound'[r] \/ ~req[r].had
  PROVE  Types' /\ Elsewhere(r) /\ Own(r)'
<1>1. /\ auth'[r] = a /\ who'[r] = who[r] /\ req' = req /\ leaked' = leaked
      /\ answer[r] = 0
  BY DEF Core, Types, Own, Progress, Verdict, Answer
<1>2. \/ a = "refused" /\ step' = [step EXCEPT ![r] = "done"]
                       /\ answer' = [answer EXCEPT ![r] = 401]
      \/ a = "failed" /\ step' = [step EXCEPT ![r] = "done"]
                      /\ answer' = [answer EXCEPT ![r] = 500]
      \/ a = "signedup" /\ step' = [step EXCEPT ![r] = "done"]
                        /\ answer' = [answer EXCEPT ![r] = 201]
      \/ a \in {"passed"} \cup A!InTx /\ UNCHANGED <<step, answer>>
  BY <1>1 DEF Verdict, Answer, A!InTx
<1>3. Types'
  <2>1. /\ auth' \in [Requests -> {"none", "begin", "key", "signup", "passed", "refused",
                                  "failed", "signedup"} \cup A!InTx]
    BY DEF Core, Types
  <2>3. sound' \in [Requests -> BOOLEAN]
    BY SoundStep DEF Core
  <2>2. /\ step' \in [Requests -> {"idle", "auth", "health", "schedule", "insert", "notify",
                                  "done"} \cup InTx]
        /\ answer' \in [Requests -> {0, 200, 201, 400, 401, 404, 500}]
    BY <1>2 DEF Core, Types
  <2> QED  BY <1>1, <2>1, <2>2, <2>3 DEF Core, Types, H!TypeOK, health, jobVars
<1>4. Elsewhere(r)
  BY <1>1, <1>2 DEF Core, Types, Elsewhere, Accountable, jobVars
<1>5. \/ a = "refused" /\ step'[r] = "done" /\ answer'[r] = 401
      \/ a = "failed" /\ step'[r] = "done" /\ answer'[r] = 500
      \/ a = "signedup" /\ step'[r] = "done" /\ answer'[r] = 201
      \/ a \in {"passed"} \cup A!InTx /\ step'[r] = "auth" /\ answer'[r] = 0
  BY <1>1, <1>2 DEF Core, Types
<1>6. /\ req[r].kind \in {"signup", "create", "get"}
      /\ req[r].kind = "create" => req[r].job = NoJob
      /\ req[r].kind = "get" => req[r].job \in Jobs
  BY DEF Core, Own, Progress
<1>7. Progress(r)'
  BY <1>1, <1>5, <1>6 DEF Progress, Creating, Getting, InTx, A!InTx
<1>8. Standing(r)'
  <2>1. /\ req[r].had => req[r].kind \in {"create", "get"} /\ HasAccount(who[r])
        /\ req[r].owns => req[r].kind = "get" /\ req[r].had
    BY <1>6 DEF Core, Own, Standing
  <2>2. HasAccount(who[r]) => HasAccount(who[r])'
    BY DEF HasAccount
  <2> QED  BY <1>1, <2>1, <2>2 DEF Standing, HasAccount, A!InTx
<1>9. Matter(r)'
  BY <1>1, <1>5 DEF Core, Own, Matter, Creating, jobVars
<1>10. Deserved(r)'
  <2>1. req[r].owns => req[r].had
    BY DEF Core, Own, Standing
  <2> QED  BY <1>1, <1>5, <1>6, <2>1, RestAssumption DEF Deserved, Explained, Due
<1> QED  BY <1>3, <1>4, <1>7, <1>8, <1>9, <1>10 DEF Own

\* The middleware: rapidApiAuth, localAuth and Signup, statement by statement.
LEMMA AuthenticatingStep ==
  ASSUME Core, NEW r \in Requests, Authenticating(r)
  PROVE  Types' /\ Elsewhere(r) /\ Own(r)'
<1>1. step[r] = "auth" /\ Verdict(r) /\ UNCHANGED <<health, jobVars>> /\ A!Step(r)
  BY DEF Authenticating
<1>2. /\ users \in SUBSET A!Users /\ locked \in SUBSET A!Users /\ known \subseteq users
      /\ free \in Nat /\ who[r] \in A!Users \cup {A!NoUser} /\ Standing(r)
  BY DEF Core, Types, Accountable, Own
<1>3. req[r].had => HasAccount(who[r])
  BY <1>1, <1>2 DEF Core, Own, Progress, Standing
<1>4. \A u \in RapidUsers : u \in A!Users
  BY DEF A!Users
<1>5. CASE A!Begin(r)
  <2>1. CASE free > 0 /\ A!TxStarts(r)
    <3>1. /\ auth[r] = "begin" /\ auth' = [auth EXCEPT ![r] = "exists"]
          /\ free' = free - 1 /\ UNCHANGED <<users, locked, known, who, sound>>
      BY <2>1 DEF A!TxStarts, A!Goto, A!tableVars
    <3>2. free' \in Nat
      BY <1>2, <2>1, <3>1
    <3> QED  BY <1>1, <1>2, <3>1, <3>2, VerdictStep DEF Standing, A!InTx
  <2>2. CASE ~(free > 0 /\ A!TxStarts(r))
    <3>1. /\ auth' = [auth EXCEPT ![r] = "failed"] /\ sound' = [sound EXCEPT ![r] = FALSE]
          /\ UNCHANGED <<users, locked, known, free, who>>
      BY <1>5, <2>2 DEF A!Begin, A!Goto, A!Fault, A!tableVars
    <3>2. ~sound'[r]
      BY <3>1 DEF Core, Types
    <3> QED  BY <1>1, <1>2, <3>1, <3>2, VerdictStep DEF A!InTx
  <2> QED  BY <2>1, <2>2
<1>6. CASE A!UserExists(r)
  <2>1. /\ auth[r] = "exists" /\ UNCHANGED <<users, locked, known, free, who, sound>>
        /\ auth' = [auth EXCEPT ![r] = IF who[r] \in users THEN "load" ELSE "insert"]
    BY <1>6 DEF A!UserExists, A!Goto, A!tableVars
  <2>2. HasAccount(who[r]) => who[r] \in users
    BY <1>2 DEF HasAccount
  <2> QED  BY <1>1, <1>2, <1>3, <2>1, <2>2, VerdictStep DEF Standing, A!InTx
<1>7. CASE A!GetUser(r)
  <2>1. /\ auth[r] = "load" /\ auth' = [auth EXCEPT ![r] = "passed"]
        /\ free' = free + 1 /\ UNCHANGED <<users, locked, known, who, sound>>
    BY <1>7 DEF A!GetUser, A!Goto, A!Release
  <2>2. free' \in Nat
    BY <1>2, <2>1
  <2>3. HasAccount(who[r])'
    BY <1>2, <2>1 DEF Standing, HasAccount, A!InTx
  <2> QED  BY <1>1, <1>2, <2>1, <2>2, <2>3, VerdictStep DEF A!InTx
<1>8. CASE A!InsertUser(r)
  <2>1. auth[r] = "insert" /\ UNCHANGED <<users, known, who, sound>>
    BY <1>8 DEF A!InsertUser
  <2>2. ~req[r].had /\ who[r] \in A!Users /\ who[r] \in RapidUsers
    BY <1>2, <1>4, <2>1 DEF Standing, A!InTx
  <2>3. CASE who[r] \in users
    <3>1. auth' = [auth EXCEPT ![r] = "failed"] /\ free' = free + 1 /\ UNCHANGED locked
      BY <1>8, <2>1, <2>3 DEF A!InsertUser, A!Goto, A!Release
    <3>2. free' \in Nat
      BY <1>2, <3>1
    <3> QED  BY <1>1, <1>2, <2>1, <2>2, <2>3, <3>1, <3>2, VerdictStep DEF A!InTx
  <2>4. CASE who[r] \notin users
    <3>1. /\ auth' = [auth EXCEPT ![r] = "commit"] /\ UNCHANGED free
          /\ locked' \in SUBSET A!Users
      BY <1>2, <1>8, <2>2, <2>4 DEF A!InsertUser, A!Goto
    <3> QED  BY <1>1, <1>2, <2>1, <2>2, <3>1, VerdictStep DEF A!InTx, Standing
  <2> QED  BY <2>3, <2>4
<1>9. CASE A!Commit(r)
  <2>1. /\ auth[r] = "commit" /\ auth' = [auth EXCEPT ![r] = "passed"]
        /\ users' = users \cup {who[r]} /\ locked' = locked \ {who[r]}
        /\ free' = free + 1 /\ UNCHANGED <<known, who, sound>>
    BY <1>9 DEF A!Commit, A!End, A!Goto, A!Release
  <2>2. free' \in Nat
    BY <1>2, <2>1
  <2>3. who[r] \in RapidUsers
    BY <1>2, <2>1 DEF Standing, A!InTx
  <2>4. HasAccount(who[r])'
    BY <2>1, <2>3 DEF HasAccount
  <2> QED  BY <1>1, <1>2, <1>4, <2>1, <2>2, <2>3, <2>4, VerdictStep DEF A!InTx
<1>10. CASE A!LocalAuth(r)
  <2>1. auth[r] = "key" /\ UNCHANGED <<users, locked, known, free, who>>
    BY <1>10 DEF A!LocalAuth, A!tableVars
  <2>2. req[r].had => who[r] \in known
    BY <1>2, <1>3, <2>1, RestAssumption DEF Standing, HasAccount, A!AccountsAssumption
  <2>3. \/ /\ auth' = [auth EXCEPT ![r] = IF who[r] \in known THEN "passed" ELSE "refused"]
           /\ UNCHANGED sound
        \/ /\ auth' = [auth EXCEPT ![r] = "refused"] /\ sound' = [sound EXCEPT ![r] = FALSE]
    BY <1>10 DEF A!LocalAuth, A!Goto, A!Fault
  <2>4. who[r] \in known => HasAccount(who[r])'
    BY <2>1 DEF HasAccount
  <2>5. sound' = [sound EXCEPT ![r] = FALSE] => ~sound'[r]
    BY DEF Core, Types
  <2>6. CASE auth' = [auth EXCEPT ![r] = "passed"] /\ who[r] \in known /\ UNCHANGED sound
    BY <1>1, <1>2, <2>1, <2>4, <2>6, VerdictStep DEF A!InTx
  <2>7. CASE auth' = [auth EXCEPT ![r] = "refused"] /\ who[r] \notin known /\ UNCHANGED sound
    BY <1>1, <1>2, <2>1, <2>2, <2>7, VerdictStep DEF A!InTx
  <2>8. CASE auth' = [auth EXCEPT ![r] = "refused"] /\ sound' = [sound EXCEPT ![r] = FALSE]
    BY <1>1, <1>2, <2>1, <2>5, <2>8, VerdictStep DEF A!InTx
  <2> QED  BY <2>3, <2>6, <2>7, <2>8
<1>11. CASE A!Signup(r)
  <2>1. auth[r] = "signup" /\ UNCHANGED <<locked, known, free, who>>
    BY <1>11 DEF A!Signup
  <2>6. req[r].kind = "signup"
    BY <2>1 DEF Core, Own, Progress
  <2>2. ~req[r].had /\ who[r] \in A!Users
    BY <1>2, <2>1, <2>6 DEF Core, Own, Standing, A!Users
  <2>3. \/ /\ auth' = [auth EXCEPT ![r] = "signedup"] /\ UNCHANGED sound
           /\ users' = users \cup {who[r]}
        \/ /\ auth' = [auth EXCEPT ![r] = "failed"] /\ UNCHANGED <<users, sound>>
           /\ who[r] \in users
        \/ /\ auth' = [auth EXCEPT ![r] = "failed"] /\ sound' = [sound EXCEPT ![r] = FALSE]
           /\ users' \in {users, users \cup {who[r]}}
    BY <1>11 DEF A!Signup, A!Goto, A!Fault
  <2>4. sound' = [sound EXCEPT ![r] = FALSE] => ~sound'[r]
    BY DEF Core, Types
  <2>5. users' \in SUBSET A!Users /\ users \subseteq users'
    BY <1>2, <2>2, <2>3
  <2> QED  BY <1>1, <1>2, <2>1, <2>2, <2>3, <2>4, <2>5, <2>6, VerdictStep DEF A!InTx
<1> QED  BY <1>1, <1>5, <1>6, <1>7, <1>8, <1>9, <1>10, <1>11 DEF A!Step

\* A statement of rapidApiAuth's transaction fails.
LEMMA AuthTxFailsStep ==
  ASSUME Core, NEW r \in Requests, AuthTxFails(r)
  PROVE  Types' /\ Elsewhere(r) /\ Own(r)'
<1>1. /\ auth[r] \in A!InTx /\ auth' = [auth EXCEPT ![r] = "failed"]
      /\ sound' = [sound EXCEPT ![r] = FALSE]
      /\ users' \in {users, users \cup {who[r]}}
      /\ free' = free + 1 /\ locked' \in {locked, locked \ {who[r]}}
      /\ UNCHANGED <<known, who>>
  BY DEF AuthTxFails, A!TxFails, A!Goto, A!Fault, A!Release
<1>2. step[r] = "auth" /\ who[r] \in A!Users
  BY <1>1 DEF Core, Own, Progress, Standing, A!Users
<1>3. /\ users' \in SUBSET A!Users /\ locked' \in SUBSET A!Users
      /\ users \subseteq users' /\ ~sound'[r]
  BY <1>1, <1>2 DEF Core, Types
<1>4. free' \in Nat
  BY <1>1 DEF Core, Types
<1> QED  BY <1>1, <1>2, <1>3, <1>4, VerdictStep DEF AuthTxFails, A!InTx

\* A handler goes on, or answers, and may store its job.
LEMMA HandlerStep ==
  ASSUME Core, NEW r \in Requests, auth[r] = "passed",
         step[r] \in {"auth"} \cup Creating \cup Getting,
         step[r] = "auth" => req[r].kind = "get",
         NEW s \in {"insert", "notify", "done"} \cup InTx, NEW c \in {0, 200, 201, 404, 500},
         \/ s # "done" /\ c = 0 /\ Goto(r, s)
         \/ s = "done" /\ c # 0 /\ Answer(r, c),
         UNCHANGED <<users, locked, known, auth, who, health>>,
         free' \in Nat, misses' \in Nat,
         sound' = sound \/ sound' = [sound EXCEPT ![r] = FALSE],
         owner' = owner \/ (step[r] = "insert" /\ who[r] \in users /\ owner' = Stored(r)),
         s = "insert" => step[r] = "schedule",
         s = "notify" => req[r].kind = "create",
         s \in InTx => req[r].kind = "get",
         s \in {"executions", "commit"} \/ c = 200 => owner[req[r].job] = who[r],
         c = 500 => \/ ~sound'[r]
                    \/ /\ step[r] = "insert" /\ owner' = owner
                       /\ (req[r].form # "good" \/ who[r] \notin users),
         c = 404 => ~sound'[r] \/ owner[req[r].job] # who[r],
         c = 404 => req[r].kind = "get"
  PROVE  Types' /\ Elsewhere(r) /\ Own(r)'
<1>1. /\ step' = [step EXCEPT ![r] = s] /\ req' = req /\ leaked' = leaked
      /\ (answer' = answer /\ c = 0) \/ answer' = [answer EXCEPT ![r] = c]
  BY DEF Goto, Answer
<1>2. Types'
  <2>1. /\ step' \in [Requests -> {"idle", "auth", "health", "schedule", "insert", "notify",
                                  "done"} \cup InTx]
        /\ answer' \in [Requests -> {0, 200, 201, 400, 401, 404, 500}]
    BY <1>1 DEF Core, Types
  <2>3. sound' \in [Requests -> BOOLEAN]
    BY SoundStep DEF Core
  <2>2. owner' \in [Jobs -> A!Users \cup {A!NoUser}]
    <3>1. owner \in [Jobs -> A!Users \cup {A!NoUser}] /\ who[r] \in A!Users \cup {A!NoUser}
      BY DEF Core, Types
    <3> QED  BY <3>1 DEF Stored
  <2> QED  BY <1>1, <2>1, <2>2, <2>3 DEF Core, Types, H!TypeOK, health
<1>3. Elsewhere(r)
  BY <1>1 DEF Core, Types, Elsewhere, Accountable
<1>4. step'[r] = s /\ req'[r] = req[r] /\ auth'[r] = "passed" /\ who'[r] = who[r]
  BY <1>1 DEF Core, Types, Own, Progress
<1>5. answer'[r] = c
  <2>1. answer[r] = 0
    BY DEF Core, Own, Progress, Creating, Getting, InTx
  <2> QED  BY <1>1, <2>1 DEF Core, Types
<1>6. /\ HasAccount(who[r]) /\ who[r] \in users
      /\ s = "done" <=> c # 0
  BY DEF Core, Own, Progress, Standing, HasAccount, Accountable, Goto, Answer
<1>7. /\ step[r] \in Creating => req[r].kind = "create" /\ req[r].job \in Jobs
      /\ step[r] \notin Creating => req[r].kind = "get" /\ req[r].job \in Jobs
      /\ req[r].kind = "get" => owner' = owner
      /\ req[r].owns => req[r].kind = "get" /\ owner[req[r].job] = who[r]
      /\ req[r].kind = "get" \/ req[r].kind = "create"
  <2>1. Progress(r) /\ Standing(r) /\ Matter(r)
    BY DEF Core, Own
  <2>2. step[r] \in Creating => req[r].kind = "create" /\ req[r].job \in Jobs
    BY <2>1 DEF Progress
  <2>3. step[r] \notin Creating => req[r].kind = "get" /\ req[r].job \in Jobs
    BY <2>1 DEF Progress
  <2>4. req[r].kind = "get" => owner' = owner
    BY <2>2 DEF Creating
  <2>5. req[r].owns => req[r].kind = "get" /\ owner[req[r].job] = who[r]
    BY <2>1 DEF Standing, Matter
  <2> QED  BY <2>2, <2>3, <2>4, <2>5
<1>8. Progress(r)'
  BY <1>4, <1>5, <1>6, <1>7 DEF Progress, Creating, Getting, InTx, A!InTx
<1>9. Standing(r)'
  BY <1>4, <1>6 DEF Core, Own, Standing, A!InTx, HasAccount
<1>10. Matter(r)'
  <2>1. step'[r] \in {"schedule", "insert"} =>
          /\ s = "insert" /\ step[r] = "schedule" /\ owner' = owner
          /\ owner[req[r].job] = A!NoUser /\ req[r].form \in {"good", "unfit"}
    BY <1>4 DEF Core, Own, Matter, InTx
  <2> QED  BY <1>4, <1>7, <2>1 DEF Matter
<1>11. Deserved(r)'
  BY <1>4, <1>5, <1>6, <1>7 DEF Core, Own, Matter, Deserved, Creating, Explained, Due
<1> QED  BY <1>2, <1>3, <1>8, <1>9, <1>10, <1>11 DEF Own

\* A fault leaves the request unsound.
LEMMA FaultStep ==
  ASSUME Core, NEW r \in Requests, NEW c, Fault(r, c)
  PROVE  /\ Answer(r, c) /\ UNCHANGED <<users, locked, known, auth, who>>
         /\ sound' = [sound EXCEPT ![r] = FALSE] /\ ~sound'[r]
BY DEF Fault, A!Fault, Core, Types

\* Create: the pick of a partition, the INSERT and the NOTIFY.
LEMMA CreateStep ==
  ASSUME Core, NEW r \in Requests, Schedule(r) \/ Insert(r) \/ Notify(r)
  PROVE  Types' /\ Elsewhere(r) /\ Own(r)'
<1>1. /\ step[r] \in Creating /\ free' = free /\ misses' = misses
      /\ UNCHANGED <<users, locked, known, auth, who, health>>
  BY FaultStep DEF Schedule, Insert, Notify, Fault, Creating, accounts, jobVars
<1>2. /\ free' \in Nat /\ misses' \in Nat
      /\ req[r].kind = "create" /\ auth[r] = "passed" /\ step[r] # "auth"
  BY <1>1 DEF Core, Types, Own, Progress, Creating
<1>3. CASE Insert(r)
  <2>1. step[r] = "insert"
    BY <1>3 DEF Insert
  <2>2. CASE Acceptable(r) /\ owner' = Stored(r) /\ Goto(r, "notify") /\ UNCHANGED sound
    BY <1>1, <1>2, <2>1, <2>2, HandlerStep DEF Acceptable, InTx
  <2>3. CASE ~Acceptable(r) /\ Answer(r, 500) /\ UNCHANGED <<owner, sound>>
    BY <1>1, <1>2, <2>1, <2>3, HandlerStep DEF Acceptable, InTx
  <2>4. CASE Fault(r, 500) /\ owner' \in {owner, IF Acceptable(r) THEN Stored(r) ELSE owner}
    BY <1>1, <1>2, <2>1, <2>4, FaultStep, HandlerStep DEF Acceptable, InTx
  <2> QED  BY <1>3, <2>2, <2>3, <2>4 DEF Insert, accounts
<1>4. CASE Notify(r)
  <2>1. CASE Answer(r, 201) /\ UNCHANGED <<owner, sound>>
    BY <1>1, <1>2, <2>1, HandlerStep DEF InTx
  <2>2. CASE Fault(r, 500) /\ UNCHANGED owner
    BY <1>1, <1>2, <2>2, FaultStep, HandlerStep DEF InTx
  <2> QED  BY <1>4, <2>1, <2>2 DEF Notify, accounts, jobVars
<1>5. CASE Schedule(r)
  <2>1. step[r] = "schedule" /\ Goto(r, "insert") /\ UNCHANGED <<owner, sound>>
    BY <1>5 DEF Schedule, accounts, jobVars
  <2> QED  BY <1>1, <1>2, <2>1, HandlerStep DEF InTx
<1> QED  BY <1>3, <1>4, <1>5

\* Get: a transaction of two SELECTs.
LEMMA GetStep ==
  ASSUME Core, NEW r \in Requests,
         Begin(r) \/ GetScheduledJob(r) \/ SelectExecutions(r) \/ Commit(r)
  PROVE  Types' /\ Elsewhere(r) /\ Own(r)'
<1>1. /\ step[r] \in {"auth"} \cup Getting
      /\ step[r] = "auth" => auth[r] = "passed" /\ req[r].kind = "get"
      /\ UNCHANGED <<users, locked, known, auth, who, health, owner>>
  BY FaultStep DEF Begin, GetScheduledJob, SelectExecutions, Selected, Commit, Fault,
                   Getting, InTx, accounts, jobVars
<1>2. req[r].kind = "get" /\ auth[r] = "passed"
  BY <1>1 DEF Core, Own, Progress
<1>3. free \in Nat /\ misses \in Nat
  BY DEF Core, Types
<1>4. free' \in Nat /\ misses' \in Nat
  BY <1>3 DEF Begin, GetScheduledJob, SelectExecutions, Selected, Commit, accounts, jobVars
<1>5. CASE \E s \in InTx : /\ Goto(r, s) /\ UNCHANGED sound
                           /\ s # "select" => owner[req[r].job] = who[r]
  BY <1>1, <1>2, <1>4, <1>5, HandlerStep DEF InTx
<1>6. CASE Fault(r, 404)
  BY <1>1, <1>2, <1>4, <1>6, FaultStep, HandlerStep
<1>7. CASE Answer(r, 404) /\ owner[req[r].job] # who[r] /\ UNCHANGED sound
  BY <1>1, <1>2, <1>4, <1>7, HandlerStep
<1>8. CASE Answer(r, 200) /\ owner[req[r].job] = who[r] /\ UNCHANGED sound
  BY <1>1, <1>2, <1>4, <1>8, HandlerStep
<1>9. CASE Begin(r)
  BY <1>5, <1>6, <1>9 DEF Begin, InTx
<1>10. CASE GetScheduledJob(r)
  BY <1>5, <1>6, <1>7, <1>10 DEF GetScheduledJob, Found, InTx, accounts
<1>11. step[r] \in {"executions", "commit"} => owner[req[r].job] = who[r]
  BY DEF Core, Own, Matter
<1>12. CASE SelectExecutions(r)
  BY <1>5, <1>6, <1>11, <1>12 DEF SelectExecutions, Selected, InTx, accounts
<1>13. CASE Commit(r)
  BY <1>6, <1>8, <1>11, <1>13 DEF Commit
<1> QED  BY <1>9, <1>10, <1>12, <1>13

\* The handler reads what the request sends, and refuses it or goes on.
LEMMA ValidateStep ==
  ASSUME Core, NEW r \in Requests, Validate(r)
  PROVE  Types' /\ Elsewhere(r) /\ Own(r)'
<1>1. PICK form \in {"good", "unfit", "bad"}, job \in Jobs \cup {NoJob},
           s \in {"schedule", "done"} :
        /\ Read(r, form, job, s)
        /\ s = "schedule" => /\ req[r].kind = "create" /\ form # "bad"
                             /\ job \in Jobs /\ New(job)
        /\ s = "done" => form = "bad" /\ job = req[r].job /\ ~req[r].owns
  <2>1. req[r].job \in Jobs \cup {NoJob}
    BY DEF Core, Types, RequestType
  <2> QED  BY <2>1 DEF Validate
<1>2. /\ req' \in [Requests -> RequestType]
      /\ \A q \in Requests : q # r => req'[q] = req[q]
      /\ req'[r].kind = req[r].kind /\ req'[r].form = form
      /\ req'[r].job = job /\ req'[r].had = req[r].had /\ req'[r].owns = req[r].owns
  <2>1. req' = [req EXCEPT ![r].form = form, ![r].job = job]
    BY <1>1 DEF Read
  <2>2. req \in [Requests -> RequestType]
    BY DEF Core, Types
  <2> QED  BY <2>1, <2>2 DEF RequestType
<1>3. /\ step[r] = "auth" /\ auth[r] = "passed"
      /\ step' = [step EXCEPT ![r] = s]
      /\ answer' = IF s = "done" THEN [answer EXCEPT ![r] = 400] ELSE answer
      /\ UNCHANGED <<users, locked, known, free, auth, who, sound, health,
                     leaked, owner, misses>>
  BY <1>1 DEF Read, accounts, jobVars
<1>4. req[r].kind = "create" => ~req[r].owns
  BY DEF Core, Own, Standing
<1>5. Types'
  <2>1. /\ step' \in [Requests -> {"idle", "auth", "health", "schedule", "insert", "notify",
                                  "done"} \cup InTx]
        /\ answer' \in [Requests -> {0, 200, 201, 400, 401, 404, 500}]
    BY <1>3 DEF Core, Types
  <2> QED  BY <1>2, <1>3, <2>1 DEF Core, Types, H!TypeOK, health
<1>6. Elsewhere(r)
  BY <1>1, <1>2, <1>3 DEF Core, Types, Elsewhere, Accountable
<1>7. /\ step'[r] = s /\ auth'[r] = "passed" /\ who'[r] = who[r] /\ sound' = sound
      /\ req'[r].kind = req[r].kind /\ req'[r].form = form
      /\ req'[r].job = job /\ req'[r].had = req[r].had /\ req'[r].owns = req[r].owns
  BY <1>2, <1>3 DEF Core, Types
<1>8. IF s = "done" THEN answer'[r] = 400 ELSE answer'[r] = 0
  <2>1. answer[r] = 0
    BY <1>3 DEF Core, Own, Progress
  <2> QED  BY <1>3, <2>1 DEF Core, Types
<1>9. Progress(r)'
  BY <1>1, <1>7, <1>8 DEF Core, Own, Progress, Creating, Getting, InTx, A!InTx
<1>10. Standing(r)'
  BY <1>3, <1>7 DEF Core, Own, Standing, HasAccount, A!InTx
<1>11. Matter(r)'
  BY <1>1, <1>3, <1>4, <1>7 DEF Core, Own, Matter, InTx, New
<1>12. Deserved(r)'
  <2>1. s = "done" => ~Due(r)'
    BY <1>1, <1>3, <1>7 DEF Due, Core, Own, Progress
  <2> QED  BY <1>7, <1>8, <2>1 DEF Deserved
<1> QED  BY <1>5, <1>6, <1>9, <1>10, <1>11, <1>12 DEF Own

\* GET /health asks, and answers with 200 whatever it learns.
LEMMA AskingHealthStep ==
  ASSUME Core, NEW r \in Requests, AskingHealth(r)
  PROVE  Types' /\ Elsewhere(r) /\ Own(r)'
<1>1. /\ step[r] = "health" /\ req' = req /\ leaked' = leaked
      /\ UNCHANGED <<users, locked, known, free, auth, who, sound, owner, misses>>
      /\ \/ step' = [step EXCEPT ![r] = "done"] /\ answer' = [answer EXCEPT ![r] = 200]
         \/ step' = step /\ answer' = answer
  BY DEF AskingHealth, Answer, accounts, jobVars
<1>2. H!TypeOK'
  <2> DEFINE up == free > 0
  <2>1. up \in BOOLEAN
    BY DEF Core, Types
  <2>2. \/ reply' = [reply EXCEPT ![r] = up] \/ reply' = [reply EXCEPT ![r] = cache = "up"]
        \/ reply' = reply
    BY DEF AskingHealth, H!Step, H!Get, H!ActiveWorkers, H!DbOk, H!Store
  <2>3. asking' \in [Requests -> {"no", "read", "count", "ping", "store", "answer"}]
    BY DEF AskingHealth, H!Step, H!Get, H!ActiveWorkers, H!DbOk, H!Store, H!Goto, Core,
           Types, H!TypeOK
  <2>4. cache' = cache \/ cache' \in {"up", "down"}
    BY DEF AskingHealth, H!Step, H!Get, H!ActiveWorkers, H!DbOk, H!Store
  <2>5. H!TypeOK
    BY DEF Core, Types
  <2> HIDE DEF up
  <2>6. reply' \in [Requests -> BOOLEAN]
    BY <2>1, <2>2, <2>5 DEF H!TypeOK
  <2>7. cache' \in {"old", "up", "down"}
    BY <2>4, <2>5 DEF H!TypeOK
  <2> QED  BY <2>3, <2>6, <2>7 DEF H!TypeOK
<1>3. Types'
  <2>1. /\ step' \in [Requests -> {"idle", "auth", "health", "schedule", "insert", "notify",
                                  "done"} \cup InTx]
        /\ answer' \in [Requests -> {0, 200, 201, 400, 401, 404, 500}]
    BY <1>1 DEF Core, Types
  <2> QED  BY <1>1, <1>2, <2>1 DEF Core, Types
<1>4. Elsewhere(r)
  BY <1>1 DEF Core, Types, Elsewhere, Accountable
<1>5. /\ req[r].kind = "health" /\ answer[r] = 0
      /\ auth[r] \notin {"begin", "key", "signup"} \cup A!InTx
  BY <1>1 DEF Core, Own, Progress
<1>6. \/ step'[r] = "done" /\ answer'[r] = 200
      \/ step'[r] = "health" /\ answer'[r] = 0
  BY <1>1, <1>5 DEF Core, Types
<1>7. Progress(r)'
  BY <1>1, <1>5, <1>6 DEF Progress, Creating, Getting, InTx
<1>8. Standing(r)'
  BY <1>1 DEF Core, Own, Standing, HasAccount
<1>9. Matter(r)'
  BY <1>1, <1>5, <1>6 DEF Core, Own, Matter
<1>10. Deserved(r)'
  BY <1>1, <1>5, <1>6 DEF Deserved
<1> QED  BY <1>3, <1>4, <1>7, <1>8, <1>9, <1>10 DEF Own

\* The request is over.
LEMMA ReplyStep ==
  ASSUME Core, NEW r \in Requests, Reply(r)
  PROVE  Types' /\ Elsewhere(r) /\ Own(r)'
<1>1. PICK got \in BOOLEAN : A!Leave(r, got)
  BY DEF Reply
<1>2. /\ step[r] = "done" /\ step' = [step EXCEPT ![r] = "idle"]
      /\ req' = [req EXCEPT ![r] = NoRequest] /\ answer' = [answer EXCEPT ![r] = 0]
      /\ auth' = [auth EXCEPT ![r] = "none"] /\ who' = [who EXCEPT ![r] = A!NoUser]
      /\ sound' = [sound EXCEPT ![r] = TRUE]
      /\ asking' = [asking EXCEPT ![r] = "no"] /\ reply' = [reply EXCEPT ![r] = FALSE]
      /\ UNCHANGED <<users, locked, free, cache, leaked, owner, misses>>
  BY <1>1 DEF Reply, A!Leave, H!Leave, H!Goto, jobVars
<1>3. known' = known \/ (auth[r] = "signedup" /\ known' = known \cup {who[r]})
  BY <1>1 DEF A!Leave
<1>4. known' \in SUBSET A!Users /\ known \subseteq known' /\ known' \subseteq users
  BY <1>3 DEF Core, Types, Own, Standing, Accountable
<1>5. Types'
  <2>1. sound' \in [Requests -> BOOLEAN] /\ H!TypeOK'
    BY <1>2 DEF Core, Types, H!TypeOK
  <2>2. req' \in [Requests -> RequestType]
    BY <1>2 DEF Core, Types, RequestType, NoRequest
  <2> QED  BY <1>2, <1>4, <2>1, <2>2 DEF Core, Types
<1>6. /\ step'[r] = "idle" /\ req'[r] = NoRequest /\ answer'[r] = 0
      /\ auth'[r] = "none" /\ who'[r] = A!NoUser
  BY <1>2 DEF Core, Types
<1>7. Elsewhere(r)
  BY <1>2, <1>4, <1>6 DEF Core, Types, Elsewhere, NoRequest
<1>8. Progress(r)' /\ Standing(r)' /\ Matter(r)' /\ Deserved(r)'
  BY <1>6 DEF Progress, Standing, Matter, Deserved, NoRequest, Creating, Getting, InTx, A!InTx
<1> QED  BY <1>5, <1>7, <1>8 DEF Own

\* A restart drops all requests and keeps the tables.
LEMMA RestartStep ==
  ASSUME Core, Restart
  PROVE  Core'
<1>1. /\ step' = [r \in Requests |-> "idle"]
      /\ req' = [r \in Requests |-> NoRequest]
      /\ answer' = [r \in Requests |-> 0]
      /\ auth' = [r \in Requests |-> "none"]
      /\ who' = [r \in Requests |-> A!NoUser]
      /\ locked' = {} /\ free' = MaxConns /\ leaked' = FALSE /\ misses' = 0
      /\ UNCHANGED <<users, known, owner>>
  BY DEF Restart, A!Restart
<1>2. sound' \in [Requests -> BOOLEAN] /\ H!TypeOK'
  BY DEF Restart, A!Restart, H!Reset, H!TypeOK
<1>3. req' \in [Requests -> RequestType]
  BY <1>1 DEF RequestType, NoRequest
<1>4. Types'
  BY <1>1, <1>2, <1>3, RestAssumption DEF Core, Types, A!AccountsAssumption
<1>5. Accountable'
  BY <1>1 DEF Core, Accountable, HasAccount
<1>6. Distinct'
  BY <1>1 DEF Distinct, NoRequest
<1>7. \A r \in Requests : Own(r)'
  BY <1>1 DEF Own, Progress, Standing, Matter, Deserved, NoRequest, Creating, Getting,
              InTx, A!InTx
<1> QED  BY <1>4, <1>5, <1>6, <1>7 DEF Core

\* Time passes for the cache, the lock is leaked, or nothing happens.
LEMMA IdleStep ==
  ASSUME Core, Outdate \/ RegisterCancelled \/ UNCHANGED vars
  PROVE  Core'
<1>1. /\ UNCHANGED <<users, locked, known, free, auth, who, sound>>
      /\ UNCHANGED <<step, req, answer, owner, misses>>
      /\ leaked' = TRUE \/ leaked' = leaked
  BY DEF Outdate, RegisterCancelled, vars, accounts, health, jobVars
<1>2. H!TypeOK'
  <2>1. (cache' = "old" \/ cache' = cache) /\ UNCHANGED <<asking, reply>>
    BY DEF Outdate, RegisterCancelled, H!Outdate, H!Expire, H!callVars, vars, health
  <2>2. H!TypeOK
    BY DEF Core, Types
  <2> QED  BY <2>1, <2>2 DEF H!TypeOK
<1>3. Types'
  BY <1>1, <1>2 DEF Core, Types
<1>4. Accountable' /\ Distinct'
  BY <1>1 DEF Core, Accountable, Distinct, HasAccount
<1>5. \A r \in Requests : Own(r)'
  BY <1>1 DEF Core, Own, Progress, Standing, Matter, Deserved, Explained, Due, HasAccount
<1> QED  BY <1>3, <1>4, <1>5 DEF Core

\* Core holds from the start and is kept by every step.
LEMMA CoreInit ==
  Init => Core
<1> SUFFICES ASSUME Init PROVE Core
  OBVIOUS
<1>1. Types
  BY RestAssumption DEF Init, A!Init, H!Init, Types, H!TypeOK, RequestType, NoRequest,
                        A!AccountsAssumption
<1>2. Accountable /\ Distinct
  BY DEF Init, A!Init, Accountable, Distinct, NoRequest
<1>3. \A r \in Requests : Own(r)
  BY DEF Init, A!Init, Own, Progress, Standing, Matter, Deserved, NoRequest, Creating,
         Getting, InTx, A!InTx
<1> QED  BY <1>1, <1>2, <1>3 DEF Core

\* Every step keeps the core: a request's own action by CoreStep, the others by
\* touching no request.
LEMMA CoreNext ==
  Core /\ [Next]_vars => Core'
<1> SUFFICES ASSUME Core, [Next]_vars PROVE Core'
  OBVIOUS
<1>1. ASSUME NEW r \in Requests, Arrives(r) \/ Handle(r) \/ AuthTxFails(r) \/ Reply(r)
      PROVE  Core'
  <2>1. Types' /\ Elsewhere(r) /\ Own(r)'
    BY <1>1, ArrivesStep, AuthenticatingStep, AuthTxFailsStep, ValidateStep,
       AskingHealthStep, CreateStep, GetStep, ReplyStep DEF Handle
  <2> QED  BY <2>1, CoreStep
<1> QED  BY <1>1, RestartStep, IdleStep DEF Next

-----------------------------------------------------------------------------
(* The connections.                                                        *)

Holds(r) == auth[r] \in A!InTx \/ step[r] \in InTx

Holders == {r \in Requests : Holds(r)}

Keeps(r) == (Holds(r)' <=> Holds(r)) /\ free' = free /\ misses' = misses
Takes(r) == ~Holds(r) /\ Holds(r)' /\ free' = free - 1 /\ misses' = misses
Returns(r) == Holds(r) /\ ~Holds(r)' /\ free' = free + 1 /\ misses' = misses
Leaks(r) == Holds(r) /\ ~Holds(r)' /\ free' = free /\ misses' = misses + 1

\* An action of a request takes one connection, gives its own back, leaves it
\* behind, or does not touch any.
LEMMA ArrivesBalance ==
  ASSUME Core, NEW r \in Requests, Arrives(r)
  PROVE  Keeps(r)
<1>1. /\ step[r] = "idle" /\ free' = free /\ misses' = misses
      /\ \E s \in {"auth", "health"} : step' = [step EXCEPT ![r] = s]
      /\ auth' = auth \/ \E a \in {"begin", "key", "signup"} : auth' = [auth EXCEPT ![r] = a]
  BY DEF Arrives, PostScheduledJob, GetScheduledJobs, PostUsers, GetHealth, Request,
         A!AuthMiddleware, A!Enter, A!Goto, accounts, jobVars
<1>2. ~Holds(r)
  BY <1>1 DEF Core, Own, Progress, Holds, InTx
<1>3. step'[r] \in {"auth", "health"} /\ (auth'[r] = auth[r] \/ auth'[r] \in {"begin", "key", "signup"})
  BY <1>1 DEF Core, Types
<1>4. ~Holds(r)'
  BY <1>2, <1>3 DEF Holds, InTx, A!InTx
<1> QED  BY <1>1, <1>2, <1>4 DEF Keeps

\* The middleware has a connection from BEGIN to COMMIT or rollback.
LEMMA AuthBalance ==
  ASSUME Core, NEW r \in Requests, Authenticating(r) \/ AuthTxFails(r)
  PROVE  Keeps(r) \/ Takes(r) \/ Returns(r)
<1>1. misses' = misses /\ step[r] = "auth" /\ (step' = step \/ step' = [step EXCEPT ![r] = "done"])
  BY DEF Authenticating, AuthTxFails, Verdict, Answer, jobVars, A!TxFails, Core, Own, Progress
<1>2. step[r] \notin InTx /\ step'[r] \notin InTx
  BY <1>1 DEF Core, Types, InTx
<1>3. Holds(r) <=> auth[r] \in A!InTx
  BY <1>2 DEF Holds
<1>4. Holds(r)' <=> auth'[r] \in A!InTx
  BY <1>2 DEF Holds
<1>5. CASE A!Begin(r)
  <2>1. \/ auth[r] = "begin" /\ auth' = [auth EXCEPT ![r] = "exists"] /\ free' = free - 1
        \/ auth[r] = "begin" /\ auth' = [auth EXCEPT ![r] = "failed"] /\ free' = free
    BY <1>5 DEF A!Begin, A!TxStarts, A!Goto
  <2>2. \/ auth[r] = "begin" /\ auth'[r] = "exists" /\ free' = free - 1
        \/ auth[r] = "begin" /\ auth'[r] = "failed" /\ free' = free
    BY <2>1 DEF Core, Types
  <2> QED  BY <1>1, <1>3, <1>4, <2>2 DEF Keeps, Takes, A!InTx
<1>6. CASE A!UserExists(r) \/ A!LocalAuth(r) \/ A!Signup(r)
  <2>1. /\ free' = free
        /\ \/ auth[r] = "exists" /\ \E a \in {"load", "insert"} : auth' = [auth EXCEPT ![r] = a]
           \/ /\ auth[r] \in {"key", "signup"}
              /\ \E a \in {"passed", "refused", "failed", "signedup"} : auth' = [auth EXCEPT ![r] = a]
    BY <1>6 DEF A!UserExists, A!LocalAuth, A!Signup, A!Goto
  <2>2. Holds(r)' <=> Holds(r)
    BY <1>3, <1>4, <2>1 DEF Core, Types, A!InTx
  <2> QED  BY <1>1, <2>1, <2>2 DEF Keeps
<1>7. CASE A!InsertUser(r)
  <2>1. /\ auth[r] = "insert"
        /\ \/ auth' = [auth EXCEPT ![r] = "commit"] /\ free' = free
           \/ auth' = [auth EXCEPT ![r] = "failed"] /\ free' = free + 1
    BY <1>7 DEF A!InsertUser, A!Goto, A!Release
  <2>2. \/ auth'[r] = "commit" /\ free' = free
        \/ auth'[r] = "failed" /\ free' = free + 1
    BY <2>1 DEF Core, Types
  <2> QED  BY <1>1, <1>3, <1>4, <2>1, <2>2 DEF Keeps, Returns, A!InTx
<1>8. CASE A!GetUser(r) \/ A!Commit(r) \/ A!TxFails(r)
  <2>1. /\ auth[r] \in A!InTx /\ free' = free + 1
        /\ \E a \in {"passed", "failed"} : auth' = [auth EXCEPT ![r] = a]
    BY <1>8 DEF A!GetUser, A!Commit, A!End, A!TxFails, A!Goto, A!Release, A!InTx
  <2>2. ~Holds(r)' /\ Holds(r)
    BY <1>3, <1>4, <2>1 DEF Core, Types, A!InTx
  <2> QED  BY <1>1, <2>1, <2>2 DEF Returns
<1> QED  BY <1>5, <1>6, <1>7, <1>8 DEF Authenticating, AuthTxFails, A!Step

\* Of the handlers, only Get has a transaction.
LEMMA HandlerBalance ==
  ASSUME Core, NEW r \in Requests,
         \/ Validate(r) \/ AskingHealth(r) \/ Schedule(r) \/ Insert(r) \/ Notify(r)
         \/ Begin(r) \/ GetScheduledJob(r) \/ SelectExecutions(r) \/ Commit(r) \/ Reply(r)
  PROVE  Keeps(r) \/ Takes(r) \/ Returns(r) \/ Leaks(r)
<1>1. auth[r] \notin A!InTx
  BY DEF Core, Own, Progress, Validate, Read, AskingHealth, Schedule, Insert, Notify, Begin,
         GetScheduledJob, SelectExecutions, Selected, Commit, Reply, A!InTx, InTx
<1>2. auth'[r] \notin A!InTx
  <2>1. auth' = auth \/ auth' = [auth EXCEPT ![r] = "none"]
    BY DEF Validate, Read, AskingHealth, Schedule, Insert, Notify, Begin, GetScheduledJob,
           SelectExecutions, Selected, Commit, Reply, Fault, A!Leave, accounts
  <2> QED  BY <1>1, <2>1 DEF Core, Types, A!InTx
<1>3. (Holds(r) <=> step[r] \in InTx) /\ (Holds(r)' <=> step'[r] \in InTx)
  BY <1>1, <1>2 DEF Holds
<1>4. CASE Validate(r) \/ AskingHealth(r) \/ Schedule(r) \/ Insert(r) \/ Notify(r) \/ Reply(r)
  <2>1. /\ step[r] \notin InTx /\ free' = free /\ misses' = misses
        /\ \/ step' = step
           \/ \E s \in {"schedule", "insert", "notify", "done", "idle"} :
                 step' = [step EXCEPT ![r] = s]
    BY <1>4 DEF Validate, Read, AskingHealth, Schedule, Insert, Notify, Reply, A!Leave, Fault, Goto,
                Answer, accounts, jobVars, InTx
  <2>2. step'[r] \notin InTx
    BY <2>1 DEF Core, Types, InTx
  <2> QED  BY <1>3, <2>1, <2>2 DEF Keeps
<1>5. CASE Begin(r)
  <2>1. /\ step[r] = "auth" /\ misses' = misses
        /\ \/ step' = [step EXCEPT ![r] = "select"] /\ free' = free - 1
           \/ step' = [step EXCEPT ![r] = "done"] /\ free' = free
    BY <1>5 DEF Begin, Fault, Goto, Answer, jobVars
  <2>2. \/ step'[r] = "select" /\ free' = free - 1
        \/ step'[r] = "done" /\ free' = free
    BY <2>1 DEF Core, Types
  <2> QED  BY <1>3, <2>1, <2>2 DEF Keeps, Takes, InTx
<1>6. CASE GetScheduledJob(r)
  <2>1. /\ step[r] = "select" /\ free' = free
        /\ \/ step' = [step EXCEPT ![r] = "executions"] /\ misses' = misses
           \/ step' = [step EXCEPT ![r] = "done"] /\ misses' = misses + 1
    BY <1>6 DEF GetScheduledJob, Fault, Goto, Answer, accounts
  <2>2. \/ step'[r] = "executions" /\ misses' = misses
        \/ step'[r] = "done" /\ misses' = misses + 1
    BY <2>1 DEF Core, Types
  <2> QED  BY <1>3, <2>1, <2>2 DEF Keeps, Leaks, InTx
<1>7. CASE SelectExecutions(r)
  <2>1. /\ step[r] = "executions" /\ misses' = misses
        /\ \/ step' = [step EXCEPT ![r] = "commit"] /\ free' = free
           \/ step' = [step EXCEPT ![r] = "done"] /\ free' = free + 1
    BY <1>7 DEF SelectExecutions, Selected, Fault, Goto, Answer, accounts, jobVars
  <2>2. \/ step'[r] = "commit" /\ free' = free
        \/ step'[r] = "done" /\ free' = free + 1
    BY <2>1 DEF Core, Types
  <2> QED  BY <1>3, <2>1, <2>2 DEF Keeps, Returns, InTx
<1>8. CASE Commit(r)
  <2>1. /\ step[r] = "commit" /\ misses' = misses /\ free' = free + 1
        /\ step' = [step EXCEPT ![r] = "done"]
    BY <1>8 DEF Commit, Fault, Answer, jobVars
  <2>2. step'[r] = "done"
    BY <2>1 DEF Core, Types
  <2> QED  BY <1>3, <2>1, <2>2 DEF Returns, InTx
<1> QED  BY <1>4, <1>5, <1>6, <1>7, <1>8

\* The holders change with the connections.
LEMMA HoldersStep ==
  ASSUME IsFiniteSet(Requests), NEW r \in Requests, Elsewhere(r)
  PROVE  /\ (Holds(r)' <=> Holds(r)) => Holders' = Holders
         /\ ~Holds(r) /\ Holds(r)' => Cardinality(Holders') = Cardinality(Holders) + 1
         /\ Holds(r) /\ ~Holds(r)' => Cardinality(Holders') = Cardinality(Holders) - 1
<1>1. \A q \in Requests : q # r => (Holds(q)' <=> Holds(q))
  BY DEF Elsewhere, Holds
<1>2. IsFiniteSet(Holders)
  BY FS_Subset DEF Holders
<1>3. (Holds(r)' <=> Holds(r)) => Holders' = Holders
  BY <1>1 DEF Holders
<1>4. ~Holds(r) /\ Holds(r)' => r \notin Holders /\ Holders' = Holders \cup {r}
  BY <1>1 DEF Holders
<1>5. Holds(r) /\ ~Holds(r)' => r \in Holders /\ Holders' = Holders \ {r}
  BY <1>1 DEF Holders
<1>6. r \notin Holders => Cardinality(Holders \cup {r}) = Cardinality(Holders) + 1
  BY <1>2, FS_AddElement
<1>7. r \in Holders => Cardinality(Holders \ {r}) = Cardinality(Holders) - 1
  BY <1>2, FS_RemoveElement
<1> QED  BY <1>3, <1>4, <1>5, <1>6, <1>7

\* ConnectionsAccounted, with the holders named.
LEMMA Accounted ==
  ConnectionsAccounted <=> free + Cardinality(Holders) + misses = MaxConns
BY DEF ConnectionsAccounted, Holders, Holds

\* The number of connections is kept by every step.
LEMMA CountNext ==
  ASSUME IsFiniteSet(Requests), Core, ConnectionsAccounted, [Next]_vars
  PROVE  ConnectionsAccounted'
<1> DEFINE n == Cardinality(Holders)
<1>1. free \in Nat /\ misses \in Nat /\ n \in Nat
  BY FS_Subset, FS_CardinalityType DEF Core, Types, Holders
<1>2. free + n + misses = MaxConns
  BY Accounted
<1>3. ASSUME free' + n' + misses' = MaxConns
      PROVE  ConnectionsAccounted'
  BY <1>3 DEF ConnectionsAccounted, Holders, Holds
<1>4. ASSUME NEW r \in Requests, Arrives(r) \/ Handle(r) \/ AuthTxFails(r) \/ Reply(r)
      PROVE  ConnectionsAccounted'
  <2>1. Keeps(r) \/ Takes(r) \/ Returns(r) \/ Leaks(r)
    BY <1>4, ArrivesBalance, AuthBalance, HandlerBalance DEF Handle
  <2>2. Elsewhere(r)
    BY <1>4, ArrivesStep, AuthenticatingStep, AuthTxFailsStep, ValidateStep,
       AskingHealthStep, CreateStep, GetStep, ReplyStep DEF Handle
  <2>3. \/ n' = n /\ free' = free /\ misses' = misses
        \/ n' = n + 1 /\ free' = free - 1 /\ misses' = misses
        \/ n' = n - 1 /\ free' = free + 1 /\ misses' = misses
        \/ n' = n - 1 /\ free' = free /\ misses' = misses + 1
    BY <2>1, <2>2, HoldersStep DEF Keeps, Takes, Returns, Leaks
  <2> HIDE DEF n
  <2>4. free' + n' + misses' = MaxConns
    BY <1>1, <1>2, <2>3
  <2> QED  BY <1>3, <2>4
<1>5. CASE Restart
  <2>1. /\ Holders' = {} /\ free' = MaxConns /\ misses' = 0
    BY <1>5 DEF Restart, A!Restart, Holders, Holds, InTx, A!InTx
  <2>2. n' = 0
    BY <2>1, FS_EmptySet
  <2> HIDE DEF n
  <2>3. free' + n' + misses' = MaxConns
    BY <2>1, <2>2, RestAssumption DEF A!AccountsAssumption
  <2> QED  BY <1>3, <2>3
<1>6. CASE Outdate \/ RegisterCancelled \/ UNCHANGED vars
  <2>1. n' = n /\ free' = free /\ misses' = misses
    BY <1>6 DEF Outdate, RegisterCancelled, vars, accounts, jobVars, Holders, Holds
  <2> HIDE DEF n
  <2>2. free' + n' + misses' = MaxConns
    BY <1>2, <2>1
  <2> QED  BY <1>3, <2>2
<1> QED  BY <1>4, <1>5, <1>6 DEF Next

\* A server that starts has all its connections.
LEMMA IInvInit ==
  Init => IInv
<1> SUFFICES ASSUME Init PROVE IInv
  OBVIOUS
<1>1. Holders = {} /\ free = MaxConns /\ misses = 0
  BY DEF Init, A!Init, Holders, Holds, InTx, A!InTx
<1>2. Cardinality(Holders) = 0
  BY <1>1, FS_EmptySet
<1>3. free + Cardinality(Holders) + misses = MaxConns
  BY <1>1, <1>2, RestAssumption DEF A!AccountsAssumption
<1> QED  BY <1>3, Accounted, CoreInit DEF IInv

-----------------------------------------------------------------------------
(* The theorems.                                                           *)

\* The invariant is inductive.
THEOREM Invariance ==
  ASSUME IsFiniteSet(Requests)
  PROVE  Spec => []IInv
<1>1. IInv /\ [Next]_vars => IInv'
  BY CoreNext, CountNext DEF IInv
<1> QED  BY <1>1, IInvInit, PTL DEF Spec

\* However requests interleave and whatever fails, no path through the
\* handlers and the middleware loses a connection or gives one back twice, a
\* Get that finds no job excepted (ConnectionsAccounted).
THEOREM NoConnectionIsLost ==
  ASSUME IsFiniteSet(Requests)
  PROVE  Spec => []ConnectionsAccounted
<1>1. IInv => ConnectionsAccounted
  BY DEF IInv
<1> QED  BY <1>1, Invariance, PTL

\* An error of a request that met no fault is due to columns that do not take
\* the job, to a signup for a name that is taken, or to the race of the first
\* calls of a RapidAPI user, who had no account when the request came in and
\* has one now; never to anything else.  And the request stored no job
\* (ErrorsExplained).
THEOREM ErrorsAreExplained ==
  ASSUME IsFiniteSet(Requests)
  PROVE  Spec => []ErrorsExplained
<1>1. IInv => ErrorsExplained
  BY DEF IInv, Core, Own, Deserved, ErrorsExplained
<1> QED  BY <1>1, Invariance, PTL

\* Who has an account, asks for what is valid and meets no fault is served,
\* and a job is shown to its owner only (ServedAsDue).
THEOREM RequestsAreServedAsDue ==
  ASSUME IsFiniteSet(Requests)
  PROVE  Spec => []ServedAsDue
<1>1. IInv => ServedAsDue
  BY DEF IInv, Core, Own, Deserved, ServedAsDue
<1> QED  BY <1>1, Invariance, PTL

\* Every variable keeps its type; that there are never fewer than no and never
\* more than MaxConns free connections follows from their count (TypeOK).
THEOREM TypeCorrect ==
  ASSUME IsFiniteSet(Requests)
  PROVE  Spec => []TypeOK
<1>1. IInv => TypeOK
  <2> SUFFICES ASSUME IInv PROVE TypeOK
    OBVIOUS
  <2> DEFINE n == Cardinality(Holders)
  <2>1. free \in Nat /\ misses \in Nat /\ n \in Nat
    BY FS_Subset, FS_CardinalityType DEF IInv, Core, Types, Holders
  <2>2. free + n + misses = MaxConns
    BY Accounted DEF IInv
  <2> HIDE DEF n
  <2>3. free \in 0..MaxConns /\ misses \in 0..MaxConns
    BY <2>1, <2>2
  <2> QED  BY <2>3 DEF IInv, Core, Types, TypeOK, A!TypeOK
<1> QED  BY <1>1, Invariance, PTL
=============================================================================
