------------------------------ MODULE Accounts ------------------------------
(***************************************************************************)
(* Who a request acts for: internal/services/auth/auth.go and the table    *)
(* users.  A call that comes through RapidAPI creates the account of its   *)
(* user on the way, in a transaction of its own: look, then insert.  Other *)
(* users sign up for an API key once and send it with each call.           *)
(*                                                                         *)
(* The table's UNIQUE constraint makes an insert wait for an uncommitted   *)
(* row of the same name; it fails if that row is committed, and succeeds   *)
(* if it is rolled back.                                                   *)
(*                                                                         *)
(* A transaction takes a connection from start to end.  The code sets no   *)
(* limit (SetMaxIdleConns is called twice, SetMaxOpenConns never), so when *)
(* the database accepts no more, Begin fails instead of waiting.           *)
(***************************************************************************)
EXTENDS Integers, FiniteSets

CONSTANTS
  Requests,   \* requests the server handles at a time
  RapidUsers, \* users whose calls come through RapidAPI ("rapid_api_...")
  LocalUsers, \* users with an API key of their own; all names fit their column
  MaxConns    \* connections the database has for the server

NoUser == "no user"

AccountsAssumption ==
  /\ RapidUsers \cap LocalUsers = {}
  /\ NoUser \notin RapidUsers \cup LocalUsers
  /\ MaxConns \in Nat

VARIABLES
  users,  \* the table users, committed
  locked, \* names that an open transaction has inserted
  known,  \* users who were given their API key
  free,   \* connections that are not in use
  auth,   \* request -> its progress: "none", the statements of rapidApiAuth
          \* and localAuth, or what came of it: "passed", "refused",
          \* "failed", "signedup"
  who,    \* request -> the user it comes from, or NoUser
  sound   \* history: request -> no fault of the database has hit it

tableVars == <<users, locked, known>>
vars == <<tableVars, free, auth, who, sound>>

Users == RapidUsers \cup LocalUsers
InTx == {"exists", "load", "insert", "commit"}

TypeOK ==
  /\ users \in SUBSET Users /\ locked \in SUBSET Users /\ known \in SUBSET Users
  /\ free \in 0..MaxConns
  /\ auth \in [Requests -> {"none", "begin", "key", "signup", "passed", "refused",
                            "failed", "signedup"} \cup InTx]
  /\ who \in [Requests -> Users \cup {NoUser}]
  /\ sound \in [Requests -> BOOLEAN]

Init ==
  /\ users = {} /\ locked = {} /\ known = {}
  /\ free = MaxConns
  /\ auth = [r \in Requests |-> "none"]
  /\ who = [r \in Requests |-> NoUser]
  /\ sound = [r \in Requests |-> TRUE]

-----------------------------------------------------------------------------
Goto(r, a) == auth' = [auth EXCEPT ![r] = a]

\* A statement of r fails, or there is no connection for it.
Fault(r) == sound' = [sound EXCEPT ![r] = FALSE]

\* The request's transaction ends.
Release(r) ==
  /\ free' = free + 1
  /\ locked' = IF auth[r] = "commit" THEN locked \ {who[r]} ELSE locked

\* A request of the user u comes in.
Enter(r, u, a) ==
  /\ auth[r] = "none"
  /\ who' = [who EXCEPT ![r] = u]
  /\ Goto(r, a)
  /\ UNCHANGED <<tableVars, free, sound>>

\* AuthMiddleware: by its headers the request goes to rapidApiAuth or to
\* localAuth.
AuthMiddleware(r, u) == Enter(r, u, IF u \in RapidUsers THEN "begin" ELSE "key")

-----------------------------------------------------------------------------
(* rapidApiAuth.                                                           *)

TxStarts(r) ==
  /\ auth[r] = "begin"
  /\ free' = free - 1
  /\ Goto(r, "exists")
  /\ UNCHANGED <<tableVars, who, sound>>

\* Faulty variant: counts on a connection.
Begin_Unchecked(r) == TxStarts(r)

Begin(r) ==
  \/ free > 0 /\ TxStarts(r)
  \/ /\ auth[r] = "begin"
     /\ Goto(r, "failed")
     /\ Fault(r)
     /\ UNCHANGED <<tableVars, free, who>>

UserExists(r) ==
  /\ auth[r] = "exists"
  /\ Goto(r, IF who[r] \in users THEN "load" ELSE "insert")
  /\ UNCHANGED <<tableVars, free, who, sound>>

\* GetUserByUserName and the commit: nothing was written.
GetUser(r) ==
  /\ auth[r] = "load"
  /\ Goto(r, "passed")
  /\ Release(r)
  /\ UNCHANGED <<users, known, who, sound>>

\* InsertUser: waits for another transaction's row of that name; refused,
\* and the transaction rolled back, if the name is there.
InsertUser(r) ==
  /\ auth[r] = "insert"
  /\ who[r] \notin locked
  /\ IF who[r] \in users
     THEN Goto(r, "failed") /\ Release(r)
     ELSE Goto(r, "commit") /\ locked' = locked \cup {who[r]} /\ UNCHANGED free
  /\ UNCHANGED <<users, known, who, sound>>

\* The transaction that inserted the user ends, with the rows U.
End(r, U) ==
  /\ auth[r] = "commit"
  /\ Goto(r, "passed")
  /\ users' = U
  /\ UNCHANGED <<known, who, sound>>

\* Faulty variant: returns without Commit; the deferred Rollback undoes the
\* insert.
Commit_Missing(r) == End(r, users) /\ Release(r)

\* Faulty variant: the deferred Rollback is missing, too.
Commit_LeftOpen(r) == End(r, users) /\ UNCHANGED <<free, locked>>

Commit(r) == End(r, users \cup {who[r]}) /\ Release(r)

\* A statement fails and the deferred Rollback runs; a failed commit may have
\* been carried out.
TxFails(r) ==
  /\ auth[r] \in InTx
  /\ Goto(r, "failed")
  /\ Fault(r)
  /\ users' \in {users, IF auth[r] = "commit" THEN users \cup {who[r]} ELSE users}
  /\ Release(r)
  /\ UNCHANGED <<known, who>>

-----------------------------------------------------------------------------
(* localAuth and Signup, one statement each.                               *)

\* GetUserByApiKey: the user is found by the hash of the key.  Any error is
\* ErrUnauthorized.
LocalAuth(r) ==
  /\ auth[r] = "key"
  /\ \/ /\ free > 0
        /\ Goto(r, IF who[r] \in known THEN "passed" ELSE "refused")
        /\ UNCHANGED sound
     \/ Goto(r, "refused") /\ Fault(r)
  /\ UNCHANGED <<tableVars, free, who>>

\* InsertUser with the hash of a new key.
Signup(r) ==
  /\ auth[r] = "signup"
  /\ \/ /\ free > 0 /\ who[r] \notin users
        /\ users' = users \cup {who[r]}
        /\ Goto(r, "signedup") /\ UNCHANGED sound
     \/ /\ free > 0 /\ who[r] \in users
        /\ Goto(r, "failed") /\ UNCHANGED <<users, sound>>
     \/ /\ users' \in {users, IF free > 0 THEN users \cup {who[r]} ELSE users}
        /\ Goto(r, "failed") /\ Fault(r)
  /\ UNCHANGED <<locked, known, free, who>>

-----------------------------------------------------------------------------
\* The request is over; the client of a signup got the key, or the answer
\* was lost.
Leave(r, got) ==
  /\ auth' = [auth EXCEPT ![r] = "none"]
  /\ known' = IF got /\ auth[r] = "signedup" THEN known \cup {who[r]} ELSE known
  /\ who' = [who EXCEPT ![r] = NoUser]
  /\ sound' = [sound EXCEPT ![r] = TRUE]
  /\ UNCHANGED <<users, locked, free>>

\* The server starts anew: its connections are closed, open transactions
\* rolled back.
Restart ==
  /\ locked' = {}
  /\ free' = MaxConns
  /\ auth' = [r \in Requests |-> "none"]
  /\ who' = [r \in Requests |-> NoUser]
  /\ sound' = [r \in Requests |-> TRUE]
  /\ UNCHANGED <<users, known>>

Step(r) ==
  \/ Begin(r) \/ UserExists(r) \/ GetUser(r) \/ InsertUser(r) \/ Commit(r)
  \/ LocalAuth(r) \/ Signup(r)

Next ==
  \/ \E r \in Requests :
       \/ Step(r) \/ TxFails(r)
       \/ \E u \in Users : AuthMiddleware(r, u)
       \/ \E u \in LocalUsers : Enter(r, u, "signup")
       \/ \E got \in BOOLEAN : auth[r] \notin InTx /\ Leave(r, got)
  \/ Restart

Spec == Init /\ [][Next]_vars
=============================================================================
