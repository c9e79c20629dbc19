------------------------------ MODULE JobTable ------------------------------
(***************************************************************************)
(* What the table scheduled_jobs promises the rest of the system, with     *)
(* every operation in one step.  Storage has the statements, the row locks *)
(* and the uncommitted rows, and implements this.                          *)
(***************************************************************************)
EXTENDS Naturals

CONSTANTS
  Jobs,       \* job rows that may come to exist
  MaxPart     \* the largest partition number

VARIABLE rows \* job -> [status, partition]; status "none" before the insert

PartIds == 1..MaxPart
Finished == {"Success", "Fail"}
Live == {"Scheduled", "Pending"}
Rows == [status : {"none"} \cup Live \cup Finished, partition : 0..MaxPart]

Init == rows = [j \in Jobs |-> [status |-> "none", partition |-> 0]]

\* A new job is Scheduled, in the partition picked for it.
Insert(j) ==
  /\ rows[j].status = "none"
  /\ \E p \in 0..MaxPart :
       rows' = [rows EXCEPT ![j] = [status |-> "Scheduled", partition |-> p]]

\* Scheduled jobs of one partition are handed to its worker.
HandOut(p) ==
  \E S \in SUBSET {j \in Jobs : rows[j] = [status |-> "Scheduled",
                                           partition |-> p]} :
    rows' = [j \in Jobs |-> IF j \in S THEN [rows[j] EXCEPT !.status = "Pending"]
                                       ELSE rows[j]]

\* An execution is recorded: Success or Fail, and once recorded so it stays.
Complete(j) ==
  /\ rows[j].status # "none"
  /\ \E o \in Finished : rows' = [rows EXCEPT ![j].status = o]

\* What a rebalance for the partitions A may make of a row: any row may be
\* moved to A or to 0; only a live row outside A may become Scheduled again.
Moves(r, A) ==
  {r} \cup (IF r.status = "none" THEN {}
            ELSE {[r EXCEPT !.partition = q] : q \in A \cup {0}})
      \cup (IF r.status \in Live /\ r.partition \notin A
            THEN {[status |-> "Scheduled", partition |-> q] : q \in A \cup {0}}
            ELSE {})

Rebalance(A) ==
  /\ rows' = [j \in Jobs |-> rows'[j]]
  /\ \A j \in Jobs : rows'[j] \in Moves(rows[j], A)

Next ==
  \/ \E j \in Jobs : Insert(j) \/ Complete(j)
  \/ \E p \in 0..MaxPart : HandOut(p)
  \/ \E A \in SUBSET PartIds : Rebalance(A)

Spec == Init /\ [][Next]_rows
=============================================================================
