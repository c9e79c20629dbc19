---------------------------- MODULE HealthCache -----------------------------
(***************************************************************************)
(* The cached answer of GET /health, internal/rest/health_handler.go.  The *)
(* cache is read in one critical section and written in another; in        *)
(* between, without the lock, the handler asks the services.  Calls that   *)
(* find the cache outdated at the same time overwrite each other's answer, *)
(* the later with what it may have learnt before the earlier.              *)
(*                                                                         *)
(* Of the answer the model keeps dbHealthy; workersHealthy is learnt and   *)
(* cached in the same way.                                                 *)
(***************************************************************************)

CONSTANT Requests

VARIABLES
  dbUp,     \* whether the database answers a ping
  canRLock, \* whether the worker service lets readers in
  cache,    \* lastResponse: "up" or "down"; "old" once lastCache is more than
            \* a minute ago: then it is not looked at any more
  asking,   \* request -> "no", "read", "count", "ping", "store" or "answer"
  reply     \* request -> whether the database is up, as far as it knows

callVars == <<asking, reply>>
vars == <<dbUp, canRLock, cache, callVars>>

TypeOK ==
  /\ cache \in {"old", "up", "down"}
  /\ asking \in [Requests -> {"no", "read", "count", "ping", "store", "answer"}]
  /\ reply \in [Requests -> BOOLEAN]

\* lastCache is zero.
Init ==
  /\ cache = "old"
  /\ asking = [r \in Requests |-> "no"]
  /\ reply = [r \in Requests |-> FALSE]

\* A new process has a new handler.
Reset ==
  /\ cache' = "old"
  /\ asking' = [r \in Requests |-> "no"]
  /\ reply' = [r \in Requests |-> FALSE]

-----------------------------------------------------------------------------
Goto(r, a) == asking' = [asking EXCEPT ![r] = a]

Enter(r) ==
  /\ asking[r] = "no"
  /\ Goto(r, "read")
  /\ UNCHANGED <<cache, reply>>

\* Under the read lock: the cached answer will do, or it will not.
Get(r) ==
  /\ asking[r] = "read"
  /\ \/ cache = "old" /\ Goto(r, "count") /\ UNCHANGED reply
     \/ /\ cache # "old"
        /\ Goto(r, "answer")
        /\ reply' = [reply EXCEPT ![r] = cache = "up"]
  /\ UNCHANGED cache

\* ActiveWorkers, under the read lock of the worker service: the handler waits
\* for it without a limit, its own lock released.
ActiveWorkers(r) ==
  /\ asking[r] = "count"
  /\ canRLock
  /\ Goto(r, "ping")
  /\ UNCHANGED <<cache, reply>>

\* DbOk, without any lock.
DbOk(r) ==
  /\ asking[r] = "ping"
  /\ reply' = [reply EXCEPT ![r] = dbUp]
  /\ Goto(r, "store")
  /\ UNCHANGED cache

\* Under the lock: the answer is cached as new, however old the ping.
Store(r) ==
  /\ asking[r] = "store"
  /\ cache' = IF reply[r] THEN "up" ELSE "down"
  /\ Goto(r, "answer")
  /\ UNCHANGED reply

Leave(r) ==
  /\ Goto(r, "no")
  /\ reply' = [reply EXCEPT ![r] = FALSE]
  /\ UNCHANGED cache

\* An answer of the set S is more than a minute old.
Expire(S) == cache \in S /\ cache' = "old" /\ UNCHANGED callVars

\* Faulty variant: good news are served however old.
Outdate_GoodNewsStay == Expire({"down"})

Outdate == Expire({"up", "down"})

Step(r) == Get(r) \/ ActiveWorkers(r) \/ DbOk(r) \/ Store(r)

Next ==
  \/ /\ UNCHANGED <<dbUp, canRLock>>
     /\ \/ \E r \in Requests : Enter(r) \/ Step(r) \/ (asking[r] = "answer" /\ Leave(r))
        \/ Outdate \/ Reset
  \/ dbUp' \in BOOLEAN /\ canRLock' \in BOOLEAN /\ UNCHANGED <<cache, callVars>>

Spec == Init /\ dbUp \in BOOLEAN /\ canRLock \in BOOLEAN /\ [][Next]_vars
=============================================================================
