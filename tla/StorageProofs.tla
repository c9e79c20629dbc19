---------------------------- MODULE StorageProofs ---------------------------
(***************************************************************************)
(* The safety of the job table for any number of jobs, partitions and      *)
(* executors.  The core of the argument is what a rebalance's transaction  *)
(* holds while other transactions commit around it: each row it has        *)
(* written, and so locked, is one that a rebalance may make of the row     *)
(* that is still committed.                                                *)
(***************************************************************************)
EXTENDS Storage, FiniteSetTheorems, TLAPS

\* The type invariant, but for the bound on the execution rows.
RowTypes ==
  /\ rows \in [Jobs -> Rows]
  /\ executions \in [Jobs -> Nat]
  /\ out \in [Jobs -> Nat]
  /\ requeued \in SUBSET Jobs
TxTypes ==
  /\ DOMAIN draft \subseteq Jobs
  /\ \A j \in DOMAIN draft : draft[j] \in Rows
  /\ txPc \in {"idle", "orphans", "count", "move", "commit"}
  /\ active \in SUBSET PartIds
  /\ grps \in SUBSET Jobs
  /\ toAdd \in [PartIds -> Int]
  /\ last \in 0..MaxPart

\* An uncommitted row against the committed one, which others cannot change.
DraftSound ==
  \A j \in DOMAIN draft : /\ rows[j].status # "none"
                          /\ draft[j] \in Table!Moves(rows[j], active)

\* Rows are moved to the active partitions only.
TxSound ==
  /\ txPc \in {"idle", "orphans"} => DOMAIN draft = {}
  /\ txPc \in {"idle", "orphans", "count"} => last = 0
  /\ txPc \in {"count", "move"} => active # {}
  /\ txPc = "move" => \A p \in PartIds : toAdd[p] > 0 => p \in active
  /\ last \in active \cup {0}

\* A job that is not handed out yet has no copies and no executions; copies
\* become executions, and no copies are made of a job that has one.
FreshUntouched ==
  \A j \in Jobs :
    \/ rows[j].status = "none"
    \/ rows[j].status = "Scheduled" /\ j \notin requeued
    => out[j] + executions[j] = 0
CopiesBounded == \A j \in Jobs : out[j] + executions[j] <= MaxOut

Delivered ==
  ExecutedIffFinished /\ SingleDelivery /\ FreshUntouched /\ CopiesBounded

\* Of the rows that were counted, those that are in a partition; of the others,
\* those that were taken from it; and the share of a partition.
Having(p) == {j \in grps : View(j).partition = p}
Taken(p) ==
  {j \in DOMAIN draft \ grps : draft[j].status \in Live /\ rows[j].partition = p}
Target(p) ==
  IF p \in active THEN Cardinality(grps) \div Cardinality(active) ELSE 0

\* The live rows without a partition, but for those inserted so since the count.
Stranded ==
  {j \in LiveRows : View(j).partition = 0 /\ (j \in grps \/ rows[j].partition # 0)}

\* As long as no partition has gained a row: what a partition has or is to gain
\* makes up its share and the rows that a removal took in place of counted ones.
CountSound ==
  /\ \A j \in grps : rows[j].status # "none"
  /\ txPc \in {"count", "move"} /\ last = 0 =>
       \A j \in DOMAIN draft : draft[j].partition = 0
  /\ txPc = "move" /\ last = 0 =>
       \A p \in PartIds :
         Cardinality(Having(p)) + toAdd[p] >= Target(p) + Cardinality(Taken(p))
  /\ txPc = "commit" /\ active # {} => Cardinality(Stranded) < Cardinality(active)

Tx == TxTypes /\ DraftSound /\ TxSound /\ CountSound

\* What holds of the rows and the transaction, whatever executors hold.
TableInv == rows \in [Jobs -> Rows] /\ Tx

IInv == RowTypes /\ Tx /\ Delivered

-----------------------------------------------------------------------------
(* Counting.                                                               *)

\* A finite set that is not larger than another can be mapped into it one to one.
LEMMA SmallerEmbeds ==
  ASSUME NEW S, NEW T, IsFiniteSet(S), IsFiniteSet(T), Cardinality(S) <= Cardinality(T)
  PROVE  \E f \in [S -> T] : \A x, y \in S : f[x] = f[y] => x = y
  <1>1. /\ Cardinality(S) \in Nat /\ Cardinality(T) \in Nat
        /\ 1..Cardinality(S) \subseteq 1..Cardinality(T)
    BY FS_CardinalityType
  <1>2. PICK a : a \in Bijection(1..Cardinality(S), S)
    BY FS_CardinalityType DEF ExistsBijection
  <1>3. PICK b : b \in Bijection(1..Cardinality(T), T)
    BY FS_CardinalityType DEF ExistsBijection
  <1> DEFINE place(x) == CHOOSE i \in 1..Cardinality(S) : a[i] = x
             f == [x \in S |-> b[place(x)]]
  <1>4. \A x \in S : place(x) \in 1..Cardinality(S) /\ a[place(x)] = x
    BY <1>2 DEF Bijection, Surjection
  <1>5. \A i, k \in 1..Cardinality(T) : b[i] \in T /\ (b[i] = b[k] => i = k)
    BY <1>3 DEF Bijection, Injection, Surjection, IsInjective
  <1>6. f \in [S -> T]
    BY <1>1, <1>4, <1>5
  <1>7. ASSUME NEW x \in S, NEW y \in S, f[x] = f[y] PROVE x = y
    <2>1. b[place(x)] = b[place(y)]
      BY <1>7
    <2>2. place(x) = place(y)
      BY <1>1, <1>4, <1>5, <2>1
    <2> QED
      BY <1>4, <2>2
  <1> QED
    BY <1>6, <1>7

\* Tagged, the members of a set are as many.
LEMMA TaggedAsMany ==
  ASSUME NEW t, NEW S, IsFiniteSet(S)
  PROVE  IsFiniteSet({t} \X S) /\ Cardinality({t} \X S) = Cardinality(S)
  <1>1. IsFiniteSet({t}) /\ Cardinality({t}) = 1
    BY FS_Singleton
  <1>2. IsFiniteSet({t} \X S) /\ Cardinality({t} \X S) = Cardinality({t}) * Cardinality(S)
    BY <1>1, FS_Product
  <1>3. Cardinality(S) \in Nat
    BY FS_CardinalityType
  <1> QED
    BY <1>1, <1>2, <1>3

\* The members of S that f sends to p.
Class(f, S, p) == {x \in S : f[x] = p}

\* Counting by classes: where no class of Q has more members than that of B,
\* Q has not more than B.
LEMMA FewerInEveryClass ==
  ASSUME NEW P, NEW Q, NEW B, IsFiniteSet(Q), IsFiniteSet(B),
         NEW q \in [Q -> P], NEW b \in [B -> P],
         \A p \in P : Cardinality(Class(q, Q, p)) <= Cardinality(Class(b, B, p))
  PROVE  Cardinality(Q) <= Cardinality(B)
  <1> DEFINE QC(p) == Class(q, Q, p)
             BC(p) == Class(b, B, p)
             Into(p) == {f \in [QC(p) -> BC(p)] : \A x, y \in QC(p) : f[x] = f[y] => x = y}
             F == [p \in P |-> CHOOSE f : f \in Into(p)]
             h == [x \in Q |-> F[q[x]][x]]
  <1>1. ASSUME NEW p \in P PROVE F[p] \in Into(p)
    <2>1. IsFiniteSet(QC(p)) /\ IsFiniteSet(BC(p))
      BY FS_Subset DEF Class
    <2>2. \E f \in [QC(p) -> BC(p)] : \A x, y \in QC(p) : f[x] = f[y] => x = y
      BY <2>1, SmallerEmbeds
    <2> QED
      BY <2>2
  <1>2. ASSUME NEW x \in Q
        PROVE  h[x] \in B /\ b[h[x]] = q[x]
    <2>1. F[q[x]] \in Into(q[x]) /\ x \in QC(q[x])
      BY <1>1 DEF Class
    <2>2. F[q[x]] \in [QC(q[x]) -> BC(q[x])]
      BY <2>1
    <2>3. F[q[x]][x] \in BC(q[x])
      BY <2>1, <2>2
    <2> QED
      BY <2>3 DEF Class
  <1>3. ASSUME NEW x \in Q, NEW y \in Q, h[x] = h[y]
        PROVE  x = y
    <2>1. q[x] = q[y]
      <3> HIDE DEF h
      <3> QED
        BY <1>2, <1>3
    <2>2. F[q[x]] \in Into(q[x]) /\ x \in QC(q[x]) /\ y \in QC(q[x])
      BY <1>1, <2>1 DEF Class
    <2>3. F[q[x]][x] = F[q[x]][y]
      BY <1>3, <2>1
    <2> HIDE DEF F
    <2> QED
      BY <2>2, <2>3
  <1>4. h \in [Q -> B]
    BY <1>2
  <1>5. h \in Injection(Q, B)
    BY <1>3, <1>4 DEF Injection, IsInjective
  <1> QED
    BY <1>5, FS_Injection

-----------------------------------------------------------------------------
\* An empty table satisfies the invariant.
LEMMA InitIInv == Init => IInv
  <1> SUFFICES ASSUME Init PROVE IInv
    OBVIOUS
  <1>1. RowTypes
    BY StorageAssumption DEF Init, RowTypes, Rows, NoRow
  <1>2. Tx
    BY StorageAssumption DEF Init, Tx, TxTypes, DraftSound, TxSound, CountSound, NoRow,
       NoneToAdd, PartIds
  <1>3. Delivered
    BY StorageAssumption DEF Init, Delivered, ExecutedIffFinished, SingleDelivery,
       FreshUntouched, CopiesBounded, NoRow, Finished
  <1> QED
    BY <1>1, <1>2, <1>3 DEF IInv

-----------------------------------------------------------------------------
(* The short transactions.                                                 *)

\* The partitions of a rebalance can be counted.
LEMMA ActiveFinite ==
  ASSUME TableInv
  PROVE  /\ IsFiniteSet(active) /\ Cardinality(active) \in Nat
         /\ active # {} => Cardinality(active) \in Nat \ {0}
  <1>1. active \in SUBSET (1..MaxPart) /\ IsFiniteSet(1..MaxPart)
    BY FS_Interval, StorageAssumption DEF TableInv, Tx, TxTypes, PartIds
  <1>2. IsFiniteSet(active)
    BY <1>1, FS_Subset
  <1> QED
    BY <1>2, FS_CardinalityType, FS_EmptySet

\* What the other transactions do to a row while a rebalance is under way: a
\* locked one they leave alone, a live one they hand out or finish, and they
\* insert new ones.
OtherWrites ==
  \A j \in Jobs :
    \/ rows'[j] = rows[j]
    \/ j \notin DOMAIN draft /\ rows[j].status = "none"
    \/ /\ j \notin DOMAIN draft
       /\ rows'[j].status # "none" /\ rows'[j].partition = rows[j].partition
       /\ rows'[j].status \in Live => rows[j].status \in Live

\* What the transaction has written and counted stays sound meanwhile.
LEMMA OthersKeepTx ==
  ASSUME IsFiniteSet(Jobs), TableInv, UNCHANGED txVars, rows' \in [Jobs -> Rows], OtherWrites
  PROVE  TableInv'
  <1>1. UNCHANGED <<draft, txPc, active, grps, toAdd, last>>
    BY DEF txVars
  <1>2. TxTypes' /\ TxSound'
    BY <1>1 DEF TableInv, Tx, TxTypes, TxSound
  <1>3. DraftSound'
    <2>1. \A j \in DOMAIN draft : rows'[j] = rows[j]
      BY DEF OtherWrites, TableInv, Tx, TxTypes
    <2> SUFFICES ASSUME NEW j \in DOMAIN draft
                 PROVE  rows'[j].status # "none" /\ draft[j] \in Table!Moves(rows'[j], active)
      BY <1>1 DEF DraftSound, Table!Moves, Table!Live
    <2> QED
      BY <2>1 DEF TableInv, Tx, DraftSound
  <1>4. \A j \in grps : j \in Jobs /\ rows[j].status # "none"
    BY DEF TableInv, Tx, TxTypes, CountSound
  <1>5. \A j \in grps : View(j)'.partition = View(j).partition
    BY <1>1, <1>4 DEF View, OtherWrites
  <1>6. ASSUME NEW p \in PartIds
        PROVE  Having(p)' = Having(p) /\ Taken(p)' = Taken(p) /\ Target(p)' = Target(p)
    <2>1. Having(p)' = Having(p)
      BY <1>1, <1>5 DEF Having
    <2>2. Taken(p)' = Taken(p)
      BY <1>1 DEF Taken, OtherWrites, TableInv, Tx, TxTypes
    <2> QED
      BY <1>1, <2>1, <2>2 DEF Target
  <1>7. Stranded' \in SUBSET Stranded
    <2> SUFFICES ASSUME NEW j \in Stranded' PROVE j \in Stranded
      OBVIOUS
    <2>1. /\ j \in Jobs /\ View(j)'.status \in Live /\ View(j)'.partition = 0
          /\ j \in grps \/ rows'[j].partition # 0
      BY <1>1 DEF Stranded, LiveRows
    <2>2. CASE j \in DOMAIN draft
      BY <1>1, <2>1, <2>2 DEF View, OtherWrites, Stranded, LiveRows
    <2>3. CASE j \notin DOMAIN draft
      BY <1>1, <1>4, <2>1, <2>3 DEF View, OtherWrites, Stranded, LiveRows
    <2> QED
      BY <2>2, <2>3
  <1>8. IsFiniteSet(Stranded)
    BY FS_Subset DEF Stranded, LiveRows
  <1>9. CountSound'
    <2>1. \A j \in grps' : rows'[j].status # "none"
      BY <1>1, <1>4 DEF OtherWrites
    <2>2. /\ txPc \in {"count", "move"} /\ last = 0 =>
               \A j \in DOMAIN draft : draft[j].partition = 0
          /\ txPc = "move" /\ last = 0 =>
               \A p \in PartIds :
                 Cardinality(Having(p)) + toAdd[p] >= Target(p) + Cardinality(Taken(p))
          /\ txPc = "commit" /\ active # {} => Cardinality(Stranded) < Cardinality(active)
      BY DEF TableInv, Tx, CountSound
    <2>3. txPc' = "move" /\ last' = 0 =>
            \A p \in PartIds :
              Cardinality(Having(p)') + toAdd[p] >= Target(p)' + Cardinality(Taken(p)')
      BY <1>1, <1>6, <2>2
    <2>4. txPc' = "commit" /\ active' # {} => Cardinality(Stranded') < Cardinality(active)
      <3>1. Cardinality(Stranded') \in Nat /\ Cardinality(Stranded) \in Nat
              /\ Cardinality(Stranded') <= Cardinality(Stranded)
        BY <1>7, <1>8, FS_Subset, FS_CardinalityType
      <3>2. Cardinality(active) \in Nat
        BY ActiveFinite
      <3> QED
        BY <1>1, <2>2, <3>1, <3>2
    <2> QED
      BY <1>1, <2>1, <2>2, <2>3, <2>4 DEF CountSound
  <1> QED
    BY <1>2, <1>3, <1>9 DEF TableInv, Tx

\* A new row is locked by nobody.
LEMMA InsertStep ==
  ASSUME IsFiniteSet(Jobs), IInv, NEW i \in Jobs, NEW p \in 0..MaxPart, InsertScheduledJob(i, p)
  PROVE  IInv'
  <1>1. /\ rows[i].status = "none"
        /\ rows' = [rows EXCEPT ![i] = [status |-> "Scheduled", partition |-> p]]
        /\ UNCHANGED <<executions, out, requeued>> /\ UNCHANGED txVars
    BY DEF InsertScheduledJob, InsertRow, execVars
  <1>2. RowTypes'
    BY <1>1 DEF IInv, RowTypes, Rows, Live
  <1>3. OtherWrites
    BY <1>1 DEF OtherWrites, IInv, RowTypes, Tx, TxTypes, DraftSound
  <1>4. Tx'
    BY <1>1, <1>2, <1>3, OthersKeepTx DEF IInv, RowTypes, TableInv
  <1>5. Delivered'
    BY <1>1 DEF IInv, RowTypes, Delivered, ExecutedIffFinished, SingleDelivery,
       FreshUntouched, CopiesBounded, Finished
  <1> QED
    BY <1>2, <1>4, <1>5 DEF IInv

\* A select takes Scheduled rows that are not locked.
LEMMA SelectStep ==
  ASSUME IsFiniteSet(Jobs), IInv, NEW p \in PartIds, NEW S \in SUBSET Jobs, SelectJobsForExecution(p, S)
  PROVE  IInv'
  <1>1. /\ S \cap DOMAIN draft = {}
        /\ \A j \in S : rows[j].status = "Scheduled" /\ out[j] < MaxOut
        /\ rows' = [j \in Jobs |-> IF j \in S THEN [rows[j] EXCEPT !.status = "Pending"]
                                              ELSE rows[j]]
        /\ out' = [j \in Jobs |-> IF j \in S THEN out[j] + 1 ELSE out[j]]
        /\ UNCHANGED <<executions, requeued>> /\ UNCHANGED txVars
    BY DEF SelectJobsForExecution, HandOver, Selectable
  <1>2. RowTypes'
    BY <1>1 DEF IInv, RowTypes, Rows, Live
  <1>3. Tx'
    <2>1. OtherWrites
      BY <1>1 DEF OtherWrites, IInv, RowTypes, Rows, Live
    <2> QED
      BY <1>1, <1>2, <2>1, OthersKeepTx DEF IInv, RowTypes, TableInv
  <1>4. Delivered'
    <2>1. \A j \in Jobs : /\ executions[j] \in Nat /\ out[j] \in Nat
                          /\ rows[j] \in Rows
      BY DEF IInv, RowTypes
    <2>2. \A j \in S : executions[j] = 0
      BY <1>1, <2>1 DEF IInv, Delivered, ExecutedIffFinished, Finished
    <2>3. \A j \in Jobs : rows'[j].status = IF j \in S THEN "Pending" ELSE rows[j].status
      BY <1>1, <2>1 DEF Rows
    <2>4. ExecutedIffFinished' /\ FreshUntouched'
      BY <1>1, <2>1, <2>2, <2>3 DEF IInv, Delivered, ExecutedIffFinished, FreshUntouched, Finished
    <2>5. SingleDelivery' /\ CopiesBounded'
      BY <1>1, <2>1, <2>2, StorageAssumption DEF IInv, Delivered, SingleDelivery, FreshUntouched,
         CopiesBounded
    <2> QED
      BY <2>4, <2>5 DEF Delivered
  <1> QED
    BY <1>2, <1>3, <1>4 DEF IInv

\* An executor's transaction waits for the lock of its row.
LEMMA FinishStep ==
  ASSUME IsFiniteSet(Jobs), IInv, NEW i \in Jobs, NEW o \in Finished, FinishJob(i, o)
  PROVE  IInv'
  <1>1. /\ i \notin DOMAIN draft /\ out[i] > 0
        /\ rows' = [rows EXCEPT ![i].status = o]
        /\ executions' = [executions EXCEPT ![i] = @ + 1]
        /\ out' = [out EXCEPT ![i] = @ - 1]
        /\ requeued' = requeued /\ UNCHANGED txVars
    BY DEF FinishJob, Record
  <1>2. \A j \in Jobs : /\ executions[j] \in Nat /\ out[j] \in Nat
                        /\ rows[j] \in Rows
    BY DEF IInv, RowTypes
  <1>3. RowTypes'
    BY <1>1, <1>2 DEF IInv, RowTypes, Rows
  <1>4. Tx'
    <2>1. OtherWrites
      BY <1>1 DEF OtherWrites, IInv, RowTypes, Rows, Live, Finished
    <2> QED
      BY <1>1, <1>3, <2>1, OthersKeepTx DEF IInv, RowTypes, TableInv
  <1>5. /\ \A j \in Jobs : rows'[j].status = IF j = i THEN o ELSE rows[j].status
        /\ \A j \in Jobs : executions'[j] = IF j = i THEN executions[j] + 1 ELSE executions[j]
        /\ \A j \in Jobs : out'[j] = IF j = i THEN out[j] - 1 ELSE out[j]
    BY <1>1, <1>2 DEF IInv, RowTypes, Rows
  <1>6. ExecutedIffFinished' /\ FreshUntouched'
    BY <1>1, <1>2, <1>5 DEF IInv, Delivered, ExecutedIffFinished, FreshUntouched, Finished
  <1>7. SingleDelivery' /\ CopiesBounded'
    BY <1>1, <1>2, <1>5 DEF IInv, Delivered, SingleDelivery, CopiesBounded
  <1> QED
    BY <1>3, <1>4, <1>6, <1>7 DEF IInv, Delivered

\* A copy is lost.
LEMMA LoseStep ==
  ASSUME IsFiniteSet(Jobs), IInv, NEW i \in Jobs, LoseCopy(i)
  PROVE  IInv'
  <1>1. /\ out[i] > 0
        /\ out' = [out EXCEPT ![i] = @ - 1]
        /\ UNCHANGED <<rows, executions, requeued>> /\ UNCHANGED txVars
    BY DEF LoseCopy
  <1>2. \A j \in Jobs : executions[j] \in Nat /\ out[j] \in Nat
    BY DEF IInv, RowTypes
  <1>3. \A j \in Jobs : out'[j] \in Nat /\ out'[j] <= out[j]
    BY <1>1, <1>2 DEF IInv, RowTypes
  <1>4. RowTypes' /\ Tx'
    <2>1. OtherWrites /\ rows' \in [Jobs -> Rows]
      BY <1>1 DEF OtherWrites, IInv, RowTypes
    <2>2. Tx'
      BY <1>1, <2>1, OthersKeepTx DEF IInv, RowTypes, TableInv
    <2> QED
      BY <1>1, <1>2, <1>3, <2>2 DEF IInv, RowTypes
  <1>5. ExecutedIffFinished' /\ FreshUntouched'
    BY <1>1, <1>2, <1>3 DEF IInv, Delivered, ExecutedIffFinished, FreshUntouched
  <1>6. SingleDelivery' /\ CopiesBounded'
    BY <1>1, <1>2, <1>3, StorageAssumption DEF IInv, Delivered, SingleDelivery, CopiesBounded
  <1> QED
    BY <1>4, <1>5, <1>6 DEF IInv, Delivered

-----------------------------------------------------------------------------
(* The rebalance.                                                          *)

\* Until it commits, the rows and what became of the jobs are as they were.
LEMMA RestKept ==
  ASSUME IInv, UNCHANGED <<rows, executions, execVars>>
  PROVE  RowTypes' /\ Delivered'
  BY DEF IInv, RowTypes, Delivered, ExecutedIffFinished, SingleDelivery, FreshUntouched,
     CopiesBounded, execVars

\* A new rebalance begins without a draft.
LEMMA BeginTx == ASSUME TableInv, NEW A \in SUBSET PartIds, Begin(A) PROVE TableInv'
  <1>1. /\ txPc = "idle" /\ txPc' = "orphans" /\ active' = A
        /\ UNCHANGED <<rows, draft, grps, toAdd, last>>
    BY DEF Begin
  <1> QED
    BY <1>1 DEF TableInv, Tx, TxTypes, TxSound, DraftSound, CountSound

\* The rows it puts back are live ones of other partitions.
LEMMA PutBackTx == ASSUME TableInv, UpdateJobsPartitions PROVE TableInv'
  <1> DEFINE S == {k \in Jobs : /\ rows[k].status \in Live
                                /\ rows[k].partition \notin active}
  <1>1. /\ txPc = "orphans"
        /\ draft' = [j \in S |-> [status |-> "Scheduled", partition |-> 0]]
        /\ txPc' = IF active = {} THEN "commit" ELSE "count"
        /\ UNCHANGED <<rows, active, grps, toAdd, last>>
    <2>1. {k \in {j \in Jobs : rows[j].status \in Live} : rows[k].partition \notin active} = S
      OBVIOUS
    <2> QED
      BY <2>1 DEF UpdateJobsPartitions, PutBack
  <1>2. TxTypes'
    <2>1. [status |-> "Scheduled", partition |-> 0] \in Rows
      BY StorageAssumption DEF Rows, Live
    <2> QED
      BY <1>1, <2>1 DEF TableInv, Tx, TxTypes
  <1>3. DraftSound'
    <2> SUFFICES ASSUME NEW j \in S
                 PROVE  /\ rows[j].status # "none"
                        /\ [status |-> "Scheduled", partition |-> 0]
                             \in Table!Moves(rows[j], active)
      BY <1>1 DEF DraftSound, Table!Moves, Table!Live
    <2> QED
      BY DEF Table!Moves, Table!Live, Live
  <1>4. TxSound' /\ CountSound'
    BY <1>1 DEF TableInv, Tx, TxTypes, TxSound, CountSound
  <1> QED
    BY <1>1, <1>2, <1>3, <1>4 DEF TableInv, Tx

\* A partition that is not active is to gain nothing; to begin with, what a
\* partition has and is to gain is its share.
LEMMA CountTx == ASSUME IsFiniteSet(Jobs), TableInv, CountGroups PROVE TableInv'
  <1> DEFINE share == Cardinality(LiveRows) \div Cardinality(active)
  <1>1. /\ txPc = "count" /\ txPc' = "move"
        /\ grps' = LiveRows
        /\ toAdd' = [p \in PartIds |-> IF p \in active THEN share - Count(p) ELSE -Count(p)]
        /\ UNCHANGED <<rows, draft, active, last>>
    BY DEF CountGroups, Share
  <1>2. \A p \in PartIds : Count(p) \in Nat
    <2>1. ASSUME NEW p \in PartIds PROVE Count(p) \in Nat
      <3> DEFINE T == {j \in LiveRows : View(j).partition = p}
      <3>1. T \in SUBSET Jobs
        BY DEF LiveRows
      <3>2. Cardinality(T) \in Nat
        BY <3>1, FS_Subset, FS_CardinalityType
      <3> QED
        BY <3>2 DEF Count
    <2> QED
      BY <2>1
  <1>3. share \in Int
    <2>1. LiveRows \in SUBSET Jobs
      BY DEF LiveRows
    <2>2. Cardinality(LiveRows) \in Nat
      BY <2>1, FS_Subset, FS_CardinalityType
    <2>3. Cardinality(active) \in Nat \ {0}
      BY <1>1, ActiveFinite DEF TableInv, Tx, TxSound
    <2> QED
      BY <2>2, <2>3
  <1>4. /\ toAdd' \in [PartIds -> Int]
        /\ \A p \in PartIds : /\ toAdd'[p] > 0 => p \in active
                              /\ Count(p) + toAdd'[p] = IF p \in active THEN share ELSE 0
    <2>1. \A p \in PartIds :
            /\ share - Count(p) \in Int /\ -Count(p) \in Int /\ ~(-Count(p) > 0)
            /\ Count(p) + (share - Count(p)) = share /\ Count(p) + (-Count(p)) = 0
      BY <1>2, <1>3
    <2> HIDE DEF share
    <2> QED
      BY <1>1, <2>1
  <1>5. TxTypes'
    BY <1>1, <1>4 DEF TableInv, Tx, TxTypes, LiveRows
  <1>6. DraftSound'
    BY <1>1 DEF TableInv, Tx, DraftSound
  <1>7. TxSound'
    BY <1>1, <1>4 DEF TableInv, Tx, TxSound
  <1>8. CountSound'
    <2>1. \A j \in Jobs : View(j)' = View(j)
      BY <1>1 DEF View
    <2>2. ASSUME NEW p \in PartIds
          PROVE  /\ Cardinality(Having(p)') = Count(p)
                 /\ Cardinality(Taken(p)') = 0
                 /\ Target(p)' = IF p \in active THEN share ELSE 0
      <3>1. Having(p)' = {j \in LiveRows : View(j).partition = p}
        BY <1>1, <2>1 DEF Having, LiveRows
      <3>2. Taken(p)' = {}
        BY <1>1 DEF Taken, LiveRows, View, TableInv, Tx, TxTypes
      <3> QED
        BY <1>1, <3>1, <3>2, FS_EmptySet DEF Count, Target
    <2>3. \A p \in PartIds :
            Cardinality(Having(p)') + toAdd'[p] >= Target(p)' + Cardinality(Taken(p)')
      <3> HIDE DEF share
      <3> QED
        BY <1>2, <1>3, <1>4, <2>2
    <2>4. \A j \in LiveRows : rows'[j].status # "none"
      BY <1>1 DEF LiveRows, View, Live, TableInv, Tx, DraftSound
    <2>5. last' = 0 => \A j \in DOMAIN draft' : draft'[j].partition = 0
      BY <1>1 DEF TableInv, Tx, CountSound
    <2> QED
      BY <1>1, <2>3, <2>4, <2>5 DEF CountSound
  <1> QED
    BY <1>1, <1>5, <1>6, <1>7, <1>8 DEF TableInv, Tx

\* An UPDATE of the partition only keeps the draft sound.
LEMMA MoveKept ==
  ASSUME TableInv, NEW S, NEW p \in active \cup {0}, NEW q, S \in SUBSET InPartition(q),
         MoveTo(S, p), UNCHANGED <<rows, active>>
  PROVE  /\ DOMAIN draft' \subseteq Jobs
         /\ \A j \in DOMAIN draft' : draft'[j] \in Rows
         /\ DraftSound'
  <1>1. /\ draft' = [j \in DOMAIN draft \cup S |->
                       IF j \in S THEN [View(j) EXCEPT !.partition = p] ELSE draft[j]]
        /\ \A j \in S : j \in Jobs /\ View(j).status # "none"
    BY DEF MoveTo, InPartition
  <1>2. \A j \in DOMAIN draft :
          /\ j \in Jobs /\ draft[j] \in Rows
          /\ rows[j].status # "none" /\ draft[j] \in Table!Moves(rows[j], active)
    BY DEF TableInv, Tx, TxTypes, DraftSound
  <1>3. p \in 0..MaxPart
    BY StorageAssumption DEF TableInv, Tx, TxTypes, PartIds
  <1>4. ASSUME NEW j \in S
        PROVE  /\ View(j) \in Rows /\ rows[j] \in Rows
               /\ rows[j].status # "none" /\ View(j) \in Table!Moves(rows[j], active)
    <2>1. rows[j] \in Rows
      BY <1>1, <1>4 DEF TableInv
    <2>2. CASE j \in DOMAIN draft
      BY <1>2, <2>1, <2>2 DEF View
    <2>3. CASE j \notin DOMAIN draft
      BY <1>1, <1>4, <2>1, <2>3 DEF View, Table!Moves
    <2> QED
      BY <2>2, <2>3
  <1>5. ASSUME NEW j \in S
        PROVE  /\ [View(j) EXCEPT !.partition = p] \in Rows
               /\ [View(j) EXCEPT !.partition = p] \in Table!Moves(rows[j], active)
    <2>1. [View(j) EXCEPT !.partition = p] \in Rows
      BY <1>3, <1>4, <1>5 DEF Rows
    <2>2. CASE View(j).status = rows[j].status
      <3>1. [View(j) EXCEPT !.partition = p] = [rows[j] EXCEPT !.partition = p]
        BY <1>4, <1>5, <2>2 DEF Rows
      <3> QED
        BY <1>4, <1>5, <2>1, <3>1 DEF Table!Moves
    <2>3. CASE /\ rows[j].status \in Table!Live /\ rows[j].partition \notin active
               /\ View(j).status = "Scheduled"
      <3>1. [View(j) EXCEPT !.partition = p] = [status |-> "Scheduled", partition |-> p]
        BY <1>4, <1>5, <2>3 DEF Rows
      <3> QED
        BY <2>1, <2>3, <3>1 DEF Table!Moves
    <2> QED
      BY <1>4, <1>5, <2>1, <2>2, <2>3 DEF Table!Moves, Rows
  <1>6. \A j \in DOMAIN draft' : j \in DOMAIN draft \/ j \in S
    BY <1>1
  <1>7. \A j \in DOMAIN draft' :
          /\ j \in Jobs /\ draft'[j] \in Rows
          /\ rows[j].status # "none" /\ draft'[j] \in Table!Moves(rows[j], active)
    BY <1>1, <1>2, <1>4, <1>5, <1>6
  <1>8. DraftSound'
    BY <1>7 DEF DraftSound, Table!Moves, Table!Live
  <1> QED
    BY <1>7, <1>8

\* A removal takes no more counted rows and puts no more others in partition 0
\* than the partition had too many.
LEMMA RemoveCount ==
  ASSUME IsFiniteSet(Jobs), TableInv, NEW r \in PartIds, RemovesJobsFromPartition(r)
  PROVE  CountSound'
  <1>1. PICK R \in Limited(InPartition(r), -toAdd[r]) : MoveTo(R, 0)
    BY DEF RemovesJobsFromPartition
  <1>2. /\ txPc = "move" /\ txPc' = "move" /\ toAdd[r] < 0
        /\ toAdd' = [toAdd EXCEPT ![r] = 0]
        /\ UNCHANGED <<rows, active, grps, last>>
    BY DEF RemovesJobsFromPartition
  <1>3. /\ R \in SUBSET InPartition(r) /\ R \in SUBSET Jobs
        /\ Cardinality(R) = IF -toAdd[r] < Cardinality(InPartition(r))
                            THEN -toAdd[r] ELSE Cardinality(InPartition(r))
    BY <1>1 DEF Limited, InPartition
  <1>4. toAdd \in [PartIds -> Int] /\ r \in Int /\ r # 0
    BY StorageAssumption DEF TableInv, Tx, TxTypes, PartIds
  <1>5. IsFiniteSet(R) /\ Cardinality(R) \in Nat /\ Cardinality(R) <= -toAdd[r]
    <2>1. InPartition(r) \in SUBSET Jobs
      BY DEF InPartition
    <2>2. Cardinality(InPartition(r)) \in Nat
      BY <2>1, FS_Subset, FS_CardinalityType
    <2>3. IsFiniteSet(R) /\ Cardinality(R) \in Nat
      BY <1>3, FS_Subset, FS_CardinalityType
    <2> QED
      BY <1>3, <1>4, <2>2, <2>3
  <1>6. /\ draft' = [j \in DOMAIN draft \cup R |->
                       IF j \in R THEN [View(j) EXCEPT !.partition = 0] ELSE draft[j]]
        /\ DOMAIN draft \subseteq Jobs /\ rows \in [Jobs -> Rows] /\ grps \subseteq Jobs
    BY <1>1 DEF MoveTo, TableInv, Tx, TxTypes
  <1>7. \A j \in grps : rows[j].status # "none"
    BY DEF TableInv, Tx, CountSound
  <1>8. ASSUME last = 0
        PROVE  /\ \A j \in DOMAIN draft' : draft'[j].partition = 0
               /\ \A p \in PartIds :
                    Cardinality(Having(p)') + toAdd'[p] >= Target(p)' + Cardinality(Taken(p)')
    <2>1. /\ \A j \in DOMAIN draft : draft[j].partition = 0
          /\ \A p \in PartIds :
               Cardinality(Having(p)) + toAdd[p] >= Target(p) + Cardinality(Taken(p))
      BY <1>2, <1>8 DEF TableInv, Tx, CountSound
    <2>2. \A j \in R : /\ j \notin DOMAIN draft /\ View(j) = rows[j] /\ rows[j].partition = r
                       /\ View(j).partition = r
      BY <1>3, <1>4, <2>1 DEF InPartition, View
    <2>3. \A j \in R : [View(j) EXCEPT !.partition = 0].partition = 0
                       /\ j \in DOMAIN draft' /\ draft'[j].partition = 0
      BY <1>3, <1>6, <2>2 DEF Rows
    <2>4. \A j \in Jobs \ R : View(j)' = View(j)
      BY <1>2, <1>6 DEF View
    <2>5. \A j \in R : View(j)'.partition = 0
      BY <2>3 DEF View
    <2>6. \A j \in DOMAIN draft' : draft'[j].partition = 0
      BY <1>6, <2>1, <2>3
    <2>7. ASSUME NEW p \in PartIds
          PROVE  Cardinality(Having(p)') + toAdd'[p] >= Target(p)' + Cardinality(Taken(p)')
      <3>1. /\ IsFiniteSet(Having(p)) /\ IsFiniteSet(Taken(p))
            /\ IsFiniteSet(Having(p)') /\ IsFiniteSet(Taken(p)')
        <4>1. /\ Having(p) \in SUBSET Jobs /\ Taken(p) \in SUBSET Jobs
              /\ Having(p)' \in SUBSET Jobs /\ Taken(p)' \in SUBSET Jobs
          BY <1>2, <1>3, <1>6 DEF Having, Taken
        <4> QED
          BY <4>1, FS_Subset
      <3>2. /\ Cardinality(Having(p)) \in Nat /\ Cardinality(Taken(p)) \in Nat
            /\ Cardinality(Having(p)') \in Nat /\ Cardinality(Taken(p)') \in Nat
        BY <3>1, FS_CardinalityType
      <3>3. Target(p)' = Target(p) /\ Target(p) \in Int
        <4>1. Cardinality(grps) \in Nat
          BY <1>6, FS_Subset, FS_CardinalityType
        <4>2. Cardinality(active) \in Nat \ {0}
          BY <1>2, ActiveFinite DEF TableInv, Tx, TxSound
        <4> QED
          BY <1>2, <4>1, <4>2 DEF Target
      <3>4. CASE p # r
        <4>1. Having(p)' = Having(p)
          <5>1. \A j \in grps : View(j)'.partition = p <=> View(j).partition = p
            BY <1>6, <2>2, <2>4, <2>5, <3>4 DEF PartIds
          <5> QED
            BY <1>2, <5>1 DEF Having
        <4>2. Taken(p)' = Taken(p)
          BY <1>2, <1>6, <2>2, <3>4 DEF Taken
        <4>3. toAdd'[p] = toAdd[p]
          BY <1>2, <1>4, <3>4
        <4> QED
          BY <2>1, <3>3, <4>1, <4>2, <4>3
      <3>5. CASE p = r
        <4>1. /\ Having(p) \ Having(p)' = R \cap grps
              /\ Having(p)' = Having(p) \ (R \cap grps)
              /\ R \cap grps = Having(p) \cap (R \cap grps)
          BY <1>2, <1>3, <1>4, <1>6, <2>2, <2>4, <2>5, <3>5 DEF Having
        <4>2. Taken(p)' \subseteq Taken(p) \cup (R \ grps)
          BY <1>2, <1>6, <2>2, <3>5 DEF Taken
        <4>3. Cardinality(Having(p)') = Cardinality(Having(p)) - Cardinality(R \cap grps)
          <5>1. Cardinality(Having(p) \ (R \cap grps))
                  = Cardinality(Having(p)) - Cardinality(Having(p) \cap (R \cap grps))
            BY <3>1, FS_Difference
          <5>2. /\ Having(p)' = Having(p) \ (R \cap grps)
                /\ Having(p) \cap (R \cap grps) = R \cap grps
            BY <4>1
          <5> QED
            BY <5>1, <5>2
        <4>4. /\ IsFiniteSet(R \ grps)
              /\ Cardinality(R \ grps) = Cardinality(R) - Cardinality(R \cap grps)
              /\ Cardinality(R \ grps) \in Nat
          BY <1>5, FS_Difference, FS_CardinalityType
        <4>5. Cardinality(R \cap grps) \in Nat
          BY <1>5, FS_Intersection, FS_CardinalityType
        <4>6. Cardinality(Taken(p)') <= Cardinality(Taken(p)) + Cardinality(R \ grps)
          <5>1. /\ IsFiniteSet(Taken(p) \cup (R \ grps))
                /\ Cardinality(Taken(p) \cup (R \ grps))
                     = Cardinality(Taken(p)) + Cardinality(R \ grps)
                         - Cardinality(Taken(p) \cap (R \ grps))
            BY <3>1, <4>4, FS_Union
          <5>2. Cardinality(Taken(p) \cap (R \ grps)) \in Nat
            BY <3>1, FS_Intersection, FS_CardinalityType
          <5>3. /\ Cardinality(Taken(p)') <= Cardinality(Taken(p) \cup (R \ grps))
                /\ Cardinality(Taken(p) \cup (R \ grps)) \in Nat
            BY <4>2, <5>1, FS_Subset, FS_CardinalityType
          <5> QED
            BY <3>2, <4>4, <5>1, <5>2, <5>3
        <4>7. toAdd'[p] = 0
          BY <1>2, <1>4, <3>5
        <4>8. Cardinality(Having(p)) + toAdd[p] >= Target(p) + Cardinality(Taken(p))
          BY <2>1
        <4>9. Cardinality(R) <= -toAdd[p] /\ toAdd[p] \in Int /\ Cardinality(R) \in Nat
          BY <1>4, <1>5, <3>5
        <4> QED
          BY <3>2, <3>3, <4>3, <4>4, <4>5, <4>6, <4>7, <4>8, <4>9
      <3> QED
        BY <3>4, <3>5
    <2> QED
      BY <2>6, <2>7
  <1> QED
    BY <1>2, <1>7, <1>8 DEF CountSound

\* Once a partition has gained rows there is one for the rest.
LEMMA AssignCount ==
  ASSUME TableInv, NEW r \in PartIds, AssignJobsToPartition(r)
  PROVE  CountSound'
  <1>1. /\ txPc' = "move" /\ last' = r /\ r # 0
        /\ UNCHANGED <<rows, grps>>
    BY StorageAssumption DEF AssignJobsToPartition, PartIds
  <1> QED
    BY <1>1 DEF TableInv, Tx, CountSound

\* If no partition gained a row, the rows that are left are at most the
\* remainder: the rows that partitions have and that removals took from others
\* are as many as the shares and those left in place of counted ones.
LEMMA Remainder ==
  ASSUME IsFiniteSet(Jobs), TableInv, txPc = "move", last = 0, \A q \in PartIds : toAdd[q] = 0
  PROVE  Cardinality(Stranded) < Cardinality(active)
  <1> DEFINE n == Cardinality(grps)
             k == Cardinality(active)
             share == n \div k
             counted == Stranded \cap grps
             others == Stranded \ grps
             placed == {j \in grps : View(j).partition \in PartIds}
             due == ({0} \X others) \cup (active \X (1..share))
             class == [x \in due |-> IF x[1] = 0 THEN rows[x[2]].partition ELSE x[1]]
             place == [j \in placed |-> View(j).partition]
  <1>1. /\ active \in SUBSET PartIds /\ active # {} /\ grps \in SUBSET Jobs
        /\ Stranded \in SUBSET Jobs /\ 0 \notin PartIds /\ PartIds \in SUBSET Int
    BY StorageAssumption DEF TableInv, Tx, TxTypes, TxSound, Stranded, LiveRows, PartIds
  <1>2. /\ IsFiniteSet(grps) /\ IsFiniteSet(Stranded) /\ IsFiniteSet(others)
        /\ IsFiniteSet(placed) /\ IsFiniteSet(counted)
    <2>1. /\ others \in SUBSET Jobs /\ placed \in SUBSET Jobs /\ counted \in SUBSET Jobs
      BY <1>1
    <2> QED
      BY <1>1, <2>1, FS_Subset
  <1>3. /\ n \in Nat /\ Cardinality(others) \in Nat /\ Cardinality(placed) \in Nat
        /\ Cardinality(counted) \in Nat /\ Cardinality(Stranded) \in Nat
        /\ k \in Nat /\ k > 0 /\ IsFiniteSet(active)
    BY <1>1, <1>2, FS_CardinalityType, ActiveFinite
  <1>4. share \in Nat /\ n - k * share < k
    <2>1. \A a \in Nat, b \in Nat \ {0} : a \div b \in Nat /\ a - b * (a \div b) < b
      OBVIOUS
    <2> HIDE DEF n, k
    <2> QED
      BY <1>3, <2>1
  <1>5. \A j \in others : /\ j \in DOMAIN draft \ grps /\ draft[j].status \in Live
                          /\ rows[j].partition \in PartIds
    <2>1. \A j \in others : /\ j \in Jobs /\ j \notin grps /\ rows[j].partition # 0
                            /\ View(j).status \in Live /\ View(j).partition = 0
      BY DEF Stranded, LiveRows
    <2>2. \A j \in others : rows[j].partition \in 0..MaxPart
      BY <2>1 DEF TableInv, Rows
    <2> QED
      BY <2>1, <2>2, StorageAssumption DEF View, PartIds
  <1>6. IsFiniteSet(due) /\ Cardinality(due) = Cardinality(others) + k * share
    <2>1. IsFiniteSet({0} \X others) /\ Cardinality({0} \X others) = Cardinality(others)
      <3> HIDE DEF others
      <3> QED
        BY <1>2, TaggedAsMany
    <2>2. IsFiniteSet(1..share) /\ Cardinality(1..share) = share
      <3> HIDE DEF share
      <3> QED
        BY <1>4, FS_Interval
    <2>3. IsFiniteSet(active \X (1..share)) /\ Cardinality(active \X (1..share)) = k * share
      <3> HIDE DEF share
      <3> QED
        BY <1>3, <2>2, FS_Product
    <2>4. ({0} \X others) \cap (active \X (1..share)) = {}
      BY <1>1
    <2>5. k * share \in Nat
      <3>1. \A a, b \in Nat : a * b \in Nat
        OBVIOUS
      <3> HIDE DEF k, share
      <3> QED
        BY <1>3, <1>4, <3>1
    <2> HIDE DEF k, share, others
    <2>6. /\ IsFiniteSet(due)
          /\ Cardinality(due) = Cardinality({0} \X others) + Cardinality(active \X (1..share))
                                  - Cardinality(({0} \X others) \cap (active \X (1..share)))
      BY <2>1, <2>3, FS_Union
    <2>7. Cardinality(({0} \X others) \cap (active \X (1..share))) = 0
      BY <2>4, FS_EmptySet
    <2> HIDE DEF due
    <2> QED
      BY <1>3, <2>1, <2>3, <2>5, <2>6, <2>7
  <1>7. class \in [due -> PartIds] /\ place \in [placed -> PartIds]
    <2>1. \A x \in due : class[x] \in PartIds
      BY <1>1, <1>5
    <2> QED
      BY <2>1
  <1>8. ASSUME NEW p \in PartIds
        PROVE  Cardinality(Class(class, due, p)) <= Cardinality(Class(place, placed, p))
    <2>1. Class(place, placed, p) = Having(p)
      BY DEF Having, Class
    <2> DEFINE shares == IF p \in active THEN {p} \X (1..share) ELSE {}
    <2>2. Class(class, due, p) \subseteq ({0} \X Taken(p)) \cup shares
      <3>1. ASSUME NEW x \in due, class[x] = p PROVE x \in ({0} \X Taken(p)) \cup shares
        <4>1. CASE x \in {0} \X others
          <5>1. PICK j \in others : x = <<0, j>>
            BY <4>1
          <5>2. rows[j].partition = p
            BY <3>1, <5>1
          <5> QED
            BY <1>5, <5>1, <5>2 DEF Taken
        <4>2. CASE x \in active \X (1..share)
          <5>1. x[1] = p /\ x[1] \in active /\ x = <<x[1], x[2]>> /\ x[2] \in 1..share
            BY <1>1, <3>1, <4>2
          <5> QED
            BY <5>1
        <4> QED
          BY <4>1, <4>2
      <3> QED
        BY <3>1 DEF Class
    <2>3. IsFiniteSet(Taken(p)) /\ Cardinality(Taken(p)) \in Nat
      <3>1. Taken(p) \in SUBSET Jobs
        BY DEF Taken, TableInv, Tx, TxTypes
      <3> QED
        BY <3>1, FS_Subset, FS_CardinalityType
    <2>4. /\ IsFiniteSet({0} \X Taken(p))
          /\ Cardinality({0} \X Taken(p)) = Cardinality(Taken(p))
      BY <2>3, TaggedAsMany
    <2>5. IsFiniteSet(shares) /\ Cardinality(shares) = Target(p)
      <3>1. IsFiniteSet(1..share) /\ Cardinality(1..share) = share
        <4> HIDE DEF share
        <4> QED
          BY <1>4, FS_Interval
      <3>2. IsFiniteSet({p} \X (1..share)) /\ Cardinality({p} \X (1..share)) = share
        <4> HIDE DEF share
        <4> QED
          BY <3>1, TaggedAsMany
      <3>3. Target(p) = IF p \in active THEN share ELSE 0
        BY DEF Target
      <3> HIDE DEF share
      <3> QED
        BY <3>2, <3>3, FS_EmptySet
    <2>6. Cardinality(Class(class, due, p)) <= Cardinality(Taken(p)) + Target(p)
      <3>1. Target(p) \in Nat
        <4>1. Target(p) = IF p \in active THEN share ELSE 0
          BY DEF Target
        <4> HIDE DEF share
        <4> QED
          BY <1>4, <4>1
      <3> HIDE DEF shares, due, class
      <3>2. /\ IsFiniteSet(({0} \X Taken(p)) \cup shares)
            /\ Cardinality(({0} \X Taken(p)) \cup shares)
                 = Cardinality({0} \X Taken(p)) + Cardinality(shares)
                     - Cardinality(({0} \X Taken(p)) \cap shares)
        BY <2>4, <2>5, FS_Union
      <3>3. Cardinality(({0} \X Taken(p)) \cap shares) \in Nat
        BY <2>4, FS_Intersection, FS_CardinalityType
      <3>4. /\ IsFiniteSet(Class(class, due, p))
            /\ Cardinality(Class(class, due, p))
                 <= Cardinality(({0} \X Taken(p)) \cup shares)
        BY <2>2, <3>2, FS_Subset
      <3>5. Cardinality(Class(class, due, p)) \in Nat
        BY <3>4, FS_CardinalityType
      <3> QED
        BY <2>3, <2>4, <2>5, <3>1, <3>2, <3>3, <3>4, <3>5
    <2>7. Cardinality(Having(p)) + 0 >= Target(p) + Cardinality(Taken(p))
      BY DEF TableInv, Tx, CountSound
    <2>8. Cardinality(Having(p)) \in Nat
      <3>1. Having(p) \in SUBSET grps
        BY DEF Having
      <3> QED
        BY <1>2, <3>1, FS_Subset, FS_CardinalityType
    <2>9. Target(p) \in Int
      <3>1. Target(p) = IF p \in active THEN share ELSE 0
        BY DEF Target
      <3> HIDE DEF share
      <3> QED
        BY <1>4, <3>1
    <2>10. Cardinality(Class(class, due, p)) \in Nat
      <3>1. Class(class, due, p) \in SUBSET due
        BY DEF Class
      <3> HIDE DEF due, class
      <3> QED
        BY <1>6, <3>1, FS_Subset, FS_CardinalityType
    <2> HIDE DEF due, class, placed, place
    <2> QED
      BY <2>1, <2>3, <2>6, <2>7, <2>8, <2>9, <2>10
  <1>9. Cardinality(due) <= Cardinality(placed)
    <2> HIDE DEF due, class, placed, place
    <2>1. \A p \in PartIds :
            Cardinality(Class(class, due, p)) <= Cardinality(Class(place, placed, p))
      BY <1>8
    <2>2. /\ IsFiniteSet(due) /\ IsFiniteSet(placed)
          /\ class \in [due -> PartIds] /\ place \in [placed -> PartIds]
      BY <1>2, <1>6, <1>7
    <2> QED
      BY <2>1, <2>2, FewerInEveryClass
  <1>10. Cardinality(counted) + Cardinality(placed) <= n
    <2>1. counted \cap placed = {} /\ counted \cup placed \in SUBSET grps
      BY <1>1 DEF Stranded
    <2> HIDE DEF counted, placed
    <2>2. /\ Cardinality(counted \cup placed)
               = Cardinality(counted) + Cardinality(placed) - Cardinality(counted \cap placed)
          /\ Cardinality(counted \cup placed) <= n
      BY <1>2, <2>1, FS_Union, FS_Subset
    <2> HIDE DEF n
    <2> QED
      BY <1>3, <2>1, <2>2, FS_EmptySet
  <1>11. Cardinality(Stranded) = Cardinality(counted) + Cardinality(others)
    <2>1. Cardinality(others) = Cardinality(Stranded) - Cardinality(counted)
      BY <1>2, FS_Difference
    <2> HIDE DEF counted, others
    <2> QED
      BY <1>3, <2>1
  <1>12. k * share \in Int
    <2>1. \A a, b \in Nat : a * b \in Int
      OBVIOUS
    <2> HIDE DEF k, share
    <2> QED
      BY <1>3, <1>4, <2>1
  <1> HIDE DEF n, k, share, counted, others, placed, due
  <1>13. Cardinality(Stranded) < k
    BY <1>3, <1>4, <1>6, <1>9, <1>10, <1>11, <1>12
  <1> QED
    BY <1>13 DEF k

\* The last statement leaves partition 0 empty, or the remainder in it.
LEMMA RestCount == ASSUME IsFiniteSet(Jobs), TableInv, AssignRest PROVE CountSound'
  <1>1. /\ txPc = "move" /\ txPc' = "commit"
        /\ \A q \in PartIds : toAdd[q] = 0
        /\ MoveTo(InPartition(0), last)
        /\ UNCHANGED <<rows, active, grps>>
    BY DEF AssignRest
  <1>2. draft' = [j \in DOMAIN draft \cup InPartition(0) |->
                    IF j \in InPartition(0) THEN [View(j) EXCEPT !.partition = last]
                                            ELSE draft[j]]
    BY <1>1 DEF MoveTo
  <1>3. active # {} /\ \A j \in grps : rows[j].status # "none"
    BY <1>1 DEF TableInv, Tx, TxSound, CountSound
  <1>4. \A j \in Jobs : View(j) \in Rows
    BY DEF View, TableInv, Tx, TxTypes
  <1>5. \A j \in InPartition(0) : /\ View(j)'.partition = last
                                  /\ View(j)'.status = View(j).status
                                  /\ View(j).partition = 0
    BY <1>2, <1>4 DEF View, InPartition, Rows
  <1>6. \A j \in Jobs \ InPartition(0) : View(j)' = View(j)
    BY <1>1, <1>2 DEF View
  <1>7. Cardinality(Stranded') < Cardinality(active)
    <2>1. CASE last = 0
      <3>1. Stranded' = Stranded
        <4>1. \A j \in Jobs : /\ View(j)'.partition = View(j).partition
                              /\ View(j)'.status = View(j).status
          BY <1>5, <1>6, <2>1
        <4> QED
          BY <1>1, <4>1 DEF Stranded, LiveRows
      <3> QED
        BY <1>1, <2>1, <3>1, Remainder
    <2>2. CASE last # 0
      <3>1. Stranded' = {}
        <4>1. \A j \in Jobs : View(j)'.status \in Live => View(j)'.partition # 0
          BY <1>5, <1>6, <2>2 DEF InPartition, Live
        <4> QED
          BY <4>1 DEF Stranded, LiveRows
      <3> QED
        BY <1>3, <3>1, ActiveFinite, FS_EmptySet
    <2> QED
      BY <2>1, <2>2
  <1> QED
    BY <1>1, <1>3, <1>7 DEF CountSound

\* An update moves rows of one partition to an active one or to 0.
LEMMA MoveWhere ==
  ASSUME TableInv,
         \/ \E p \in PartIds : RemovesJobsFromPartition(p) \/ AssignJobsToPartition(p)
         \/ AssignRest
  PROVE  \E p \in active \cup {0}, q \in 0..MaxPart, S \in SUBSET Jobs :
           S \in SUBSET InPartition(q) /\ MoveTo(S, p)
  <1>1. ASSUME NEW r \in PartIds, RemovesJobsFromPartition(r)
        PROVE  \E S \in SUBSET InPartition(r) : MoveTo(S, 0)
    BY <1>1 DEF RemovesJobsFromPartition, Limited
  <1>2. ASSUME NEW r \in PartIds, AssignJobsToPartition(r)
        PROVE  r \in active /\ \E S \in SUBSET InPartition(0) : MoveTo(S, r)
    BY <1>2 DEF AssignJobsToPartition, Limited, TableInv, Tx, TxSound
  <1>3. ASSUME AssignRest
        PROVE  \E p \in active \cup {0}, q \in 0..MaxPart :
                 \E S \in SUBSET InPartition(q) : MoveTo(S, p)
    <2>1. last \in active \cup {0} /\ MoveTo(InPartition(0), last)
      BY <1>3 DEF AssignRest, TableInv, Tx, TxSound
    <2>2. InPartition(0) \in SUBSET InPartition(0) /\ 0 \in 0..MaxPart
      BY StorageAssumption
    <2> QED
      BY <2>1, <2>2
  <1>4. \A r \in PartIds : r \in 0..MaxPart
    BY StorageAssumption DEF PartIds
  <1>5. 0 \in 0..MaxPart
    BY StorageAssumption
  <1>6. \A r \in 0..MaxPart : \A S \in SUBSET InPartition(r) : S \in SUBSET Jobs
    BY DEF InPartition
  <1>7. CASE \E r \in PartIds : RemovesJobsFromPartition(r)
    BY <1>1, <1>4, <1>6, <1>7
  <1>8. CASE \E r \in PartIds : AssignJobsToPartition(r)
    BY <1>2, <1>5, <1>6, <1>8
  <1>9. CASE AssignRest
    BY <1>3, <1>6, <1>9
  <1> QED
    BY <1>7, <1>8, <1>9

\* The updates of one rebalance.
LEMMA MoveTx ==
  ASSUME IsFiniteSet(Jobs), TableInv,
         \/ \E p \in PartIds : RemovesJobsFromPartition(p) \/ AssignJobsToPartition(p)
         \/ AssignRest
  PROVE  TableInv'
  <1>1. PICK p \in active \cup {0}, q \in 0..MaxPart, S \in SUBSET Jobs :
          S \in SUBSET InPartition(q) /\ MoveTo(S, p)
    BY MoveWhere
  <1>2. /\ txPc = "move" /\ txPc' \in {"move", "commit"}
        /\ UNCHANGED <<rows, active, grps>>
    BY DEF RemovesJobsFromPartition, AssignJobsToPartition, AssignRest
  <1>3. /\ toAdd' \in [PartIds -> Int]
        /\ \A r \in PartIds : toAdd'[r] = toAdd[r] \/ toAdd'[r] = 0
    BY DEF RemovesJobsFromPartition, AssignJobsToPartition, AssignRest, TableInv, Tx, TxTypes
  <1>4. last' \in active \cup {0} /\ last' \in 0..MaxPart
    BY StorageAssumption DEF RemovesJobsFromPartition, AssignJobsToPartition, AssignRest,
       TableInv, Tx, TxTypes, TxSound, PartIds
  <1>5. /\ DOMAIN draft' \subseteq Jobs
        /\ \A j \in DOMAIN draft' : draft'[j] \in Rows
        /\ DraftSound'
    BY <1>1, <1>2, MoveKept
  <1>6. TxTypes'
    BY <1>2, <1>3, <1>4, <1>5 DEF TableInv, Tx, TxTypes
  <1>7. TxSound'
    BY <1>2, <1>3, <1>4 DEF TableInv, Tx, TxSound
  <1> QED
    BY <1>2, <1>5, <1>6, <1>7, RemoveCount, AssignCount, RestCount DEF TableInv, Tx

\* The statements of a rebalance.
LEMMA ReBalanceStepTx == ASSUME IsFiniteSet(Jobs), TableInv, ReBalanceStep PROVE TableInv'
  BY PutBackTx, CountTx, MoveTx DEF ReBalanceStep

\* What the statements do to the rows as the transaction sees them: outside the
\* active partitions no live row is left, and their status is not touched again.
LEMMA StepViews ==
  ASSUME TableInv, ReBalanceStep
  PROVE  /\ txPc # "idle" /\ UNCHANGED <<rows, active>>
         /\ \/ /\ txPc = "orphans"
               /\ txPc' = IF active = {} THEN "commit" ELSE "count"
               /\ \A j \in Jobs : View(j)'.status \in Live
                                    => View(j)'.partition \in active \cup {0}
            \/ /\ txPc = "count" /\ txPc' = "move"
               /\ grps' = LiveRows /\ UNCHANGED draft
            \/ /\ txPc = "move" /\ txPc' \in {"move", "commit"}
               /\ grps' = grps
               /\ \A j \in Jobs : /\ View(j)'.status = View(j).status
                                  /\ \/ View(j)'.partition = View(j).partition
                                     \/ View(j)'.partition \in active \cup {0}
  <1>1. CASE UpdateJobsPartitions
    <2> DEFINE S == {k \in {j \in Jobs : rows[j].status \in Live} : rows[k].partition \notin active}
    <2>1. /\ txPc = "orphans" /\ UNCHANGED <<rows, active>>
          /\ txPc' = IF active = {} THEN "commit" ELSE "count"
          /\ draft' = [j \in S |-> [status |-> "Scheduled", partition |-> 0]]
      BY <1>1 DEF UpdateJobsPartitions, PutBack
    <2>2. \A j \in Jobs : View(j)' = IF j \in S THEN [status |-> "Scheduled", partition |-> 0]
                                                ELSE rows[j]
      BY <2>1 DEF View
    <2>3. \A j \in Jobs : View(j)'.status \in Live => View(j)'.partition \in active \cup {0}
      BY <2>2
    <2> QED
      BY <2>1, <2>3
  <1>2. CASE CountGroups
    BY <1>2 DEF CountGroups, Share
  <1>3. CASE \/ \E p \in PartIds : RemovesJobsFromPartition(p) \/ AssignJobsToPartition(p)
             \/ AssignRest
    <2>1. PICK p \in active \cup {0}, q \in 0..MaxPart, S \in SUBSET Jobs :
            S \in SUBSET InPartition(q) /\ MoveTo(S, p)
      BY <1>3, MoveWhere
    <2>2. /\ txPc = "move" /\ txPc' \in {"move", "commit"}
          /\ UNCHANGED <<rows, active, grps>>
      BY <1>3 DEF RemovesJobsFromPartition, AssignJobsToPartition, AssignRest
    <2>3. \A j \in Jobs : View(j) \in Rows
      BY DEF View, TableInv, Tx, TxTypes
    <2>4. \A j \in Jobs : View(j)' = IF j \in S THEN [View(j) EXCEPT !.partition = p] ELSE View(j)
      BY <2>1, <2>2 DEF MoveTo, View
    <2>5. \A j \in Jobs : /\ View(j)'.status = View(j).status
                          /\ \/ View(j)'.partition = View(j).partition
                             \/ View(j)'.partition \in active \cup {0}
      BY <2>3, <2>4 DEF Rows
    <2> QED
      BY <2>2, <2>5
  <1> QED
    BY <1>1, <1>2, <1>3 DEF ReBalanceStep

\* The transaction has ended.
LEMMA TxEnds == ASSUME TableInv, EndTx, active' \in SUBSET PartIds PROVE Tx'
  BY StorageAssumption DEF TableInv, Tx, TxTypes, TxSound, DraftSound, CountSound, EndTx,
     NoneToAdd, PartIds

\* What the transaction would make of a row: a finished one stays finished.
LEMMA ViewSound ==
  ASSUME TableInv, NEW j \in Jobs
  PROVE  /\ View(j) \in Rows
         /\ View(j) \in Table!Moves(rows[j], active)
         /\ \/ View(j).status = rows[j].status
            \/ /\ rows[j].status \in Live /\ View(j).status = "Scheduled"
               /\ j \in DOMAIN draft
  <1>1. rows[j] \in Rows
    BY DEF TableInv
  <1>2. CASE j \notin DOMAIN draft
    BY <1>1, <1>2 DEF View, Table!Moves
  <1>3. CASE j \in DOMAIN draft
    <2>1. View(j) = draft[j]
      BY <1>3 DEF View
    <2>2. draft[j] \in Rows /\ draft[j] \in Table!Moves(rows[j], active)
      BY <1>3 DEF TableInv, Tx, TxTypes, DraftSound
    <2>3. \/ draft[j].status = rows[j].status
          \/ rows[j].status \in Live /\ draft[j].status = "Scheduled"
      BY <1>1, <2>2 DEF Table!Moves, Table!Live, Live, Rows
    <2> QED
      BY <1>3, <2>1, <2>2, <2>3
  <1> QED
    BY <1>2, <1>3

\* The commit, and the rows it leaves.
LEMMA CommitTx == ASSUME TableInv, Commit PROVE TableInv'
  <1>1. rows' = [j \in Jobs |-> View(j)] /\ EndTx /\ UNCHANGED active
    BY DEF Commit
  <1>2. rows' \in [Jobs -> Rows]
    BY <1>1, ViewSound
  <1>3. Tx'
    BY <1>1, TxEnds DEF TableInv, Tx, TxTypes
  <1> QED
    BY <1>2, <1>3 DEF TableInv

\* The commit: a Pending row it reopens is remembered in requeued.
LEMMA CommitStep == ASSUME IInv, Commit PROVE IInv'
  <1>1. /\ rows' = [j \in Jobs |-> View(j)]
        /\ requeued' = requeued \cup {j \in DOMAIN draft : /\ rows[j].status = "Pending"
                                                           /\ draft[j].status = "Scheduled"}
        /\ UNCHANGED <<executions, out, active>> /\ EndTx
    BY DEF Commit
  <1>0. TableInv
    BY DEF IInv, RowTypes, TableInv
  <1>2. RowTypes'
    BY <1>0, <1>1, CommitTx DEF TableInv, IInv, RowTypes, Tx, TxTypes
  <1>3. Tx'
    BY <1>0, CommitTx DEF TableInv
  <1>4. \A j \in Jobs :
          \/ rows'[j].status = rows[j].status
          \/ rows[j].status \in Live /\ rows'[j].status = "Scheduled"
    BY <1>0, <1>1, ViewSound
  <1>5. \A j \in Jobs \ requeued' :
          /\ j \notin requeued
          /\ rows[j].status = "Pending" => rows'[j].status # "Scheduled"
    BY <1>0, <1>1, ViewSound DEF View
  <1>6. ExecutedIffFinished'
    BY <1>1, <1>4 DEF IInv, Delivered, ExecutedIffFinished, Finished, Live
  <1>7. FreshUntouched'
    BY <1>1, <1>4, <1>5 DEF IInv, Delivered, FreshUntouched, Live
  <1>8. SingleDelivery' /\ CopiesBounded'
    BY <1>1, <1>5 DEF IInv, Delivered, SingleDelivery, CopiesBounded
  <1> QED
    BY <1>2, <1>3, <1>6, <1>7, <1>8 DEF IInv, Delivered

-----------------------------------------------------------------------------
\* Every step keeps the invariant.
LEMMA NextIInv == ASSUME IsFiniteSet(Jobs), IInv, [Next]_vars PROVE IInv'
  <1>0. TableInv
    BY DEF IInv, RowTypes, TableInv
  <1>1. CASE UNCHANGED vars
    <2>1. /\ UNCHANGED <<rows, executions, execVars>> /\ UNCHANGED txVars
      BY <1>1 DEF vars
    <2>2. OtherWrites /\ rows' \in [Jobs -> Rows]
      BY <1>0, <2>1 DEF OtherWrites, TableInv
    <2> QED
      BY <1>0, <2>1, <2>2, RestKept, OthersKeepTx DEF TableInv, IInv
  <1>2. ASSUME ReBalanceStep \/ Rollback \/ \E A \in SUBSET PartIds : Begin(A) PROVE IInv'
    <2>1. UNCHANGED <<rows, executions, execVars>>
      BY <1>2 DEF ReBalanceStep, UpdateJobsPartitions, PutBack, CountGroups, Share, AssignRest,
         RemovesJobsFromPartition, AssignJobsToPartition, Rollback, Begin
    <2>2. ASSUME Rollback PROVE Tx'
      BY <1>0, <2>2, TxEnds DEF Rollback, TableInv, Tx, TxTypes
    <2>3. Tx'
      BY <1>0, <1>2, <2>2, ReBalanceStepTx, BeginTx DEF TableInv
    <2> QED
      BY <2>1, <2>3, RestKept DEF IInv
  <1> QED
    BY <1>1, <1>2, InsertStep, SelectStep, FinishStep, LoseStep, CommitStep DEF Next

\* The invariant holds throughout.
THEOREM Invariance == ASSUME IsFiniteSet(Jobs) PROVE Spec => []IInv
  <1>1. Init => IInv
    BY InitIInv
  <1>2. IInv /\ [Next]_vars => IInv'
    BY NextIInv
  <1> QED
    BY <1>1, <1>2, PTL DEF Spec

\* Every variable of the job table's model has its type.
THEOREM TypeCorrect == ASSUME IsFiniteSet(Jobs) PROVE Spec => []TypeOK
  <1>1. IInv => TypeOK
    <2> SUFFICES ASSUME IInv PROVE TypeOK
      OBVIOUS
    <2>1. ASSUME NEW j \in Jobs PROVE executions[j] \in 0..MaxOut /\ out[j] \in 0..MaxOut
      BY StorageAssumption DEF IInv, RowTypes, Delivered, CopiesBounded
    <2>2. executions \in [Jobs -> 0..MaxOut] /\ out \in [Jobs -> 0..MaxOut]
      BY <2>1 DEF IInv, RowTypes
    <2> QED
      BY <2>2 DEF IInv, RowTypes, Tx, TxTypes, TypeOK
  <1> QED
    BY <1>1, Invariance, PTL

\* For any number of jobs, workers and rebalances: a job has an execution row
\* exactly when its status says that it ran.
THEOREM FinishedMeansExecuted == ASSUME IsFiniteSet(Jobs) PROVE Spec => []ExecutedIffFinished
  <1>1. IInv => ExecutedIffFinished
    BY DEF IInv, Delivered
  <1> QED
    BY <1>1, Invariance, PTL

\* A job that no rebalance put back to Scheduled is handed to one executor.
THEOREM NobodySharesAJob == ASSUME IsFiniteSet(Jobs) PROVE Spec => []SingleDelivery
  <1>1. IInv => SingleDelivery
    BY DEF IInv, Delivered
  <1> QED
    BY <1>1, Invariance, PTL

\* Whatever happens to the rows while it runs, a rebalance leaves fewer of those
\* it counted in partition 0 than there are active partitions.
THEOREM RemainderOnly == ASSUME IsFiniteSet(Jobs) PROVE Spec => []StrandedFewerThanActive
  <1>1. ASSUME IInv PROVE StrandedFewerThanActive
    <2> DEFINE Left == {j \in grps : View(j).status \in Live /\ View(j).partition = 0}
    <2> SUFFICES ASSUME txPc = "commit", active # {}
                 PROVE  Cardinality(Left) < Cardinality(active)
      BY DEF StrandedFewerThanActive
    <2>1. Cardinality(Stranded) < Cardinality(active)
      BY <1>1 DEF IInv, Tx, CountSound
    <2>2. Left \in SUBSET Stranded /\ Stranded \in SUBSET Jobs
      BY <1>1 DEF Stranded, LiveRows, IInv, Tx, TxTypes
    <2>3. IsFiniteSet(Stranded) /\ IsFiniteSet(Left)
      BY <2>2, FS_Subset
    <2>4. Cardinality(Left) <= Cardinality(Stranded)
      BY <2>2, <2>3, FS_Subset
    <2>5. Cardinality(Left) \in Nat /\ Cardinality(Stranded) \in Nat
      BY <2>3, FS_CardinalityType
    <2>6. Cardinality(active) \in Nat
      BY <1>1, ActiveFinite DEF IInv, RowTypes, TableInv
    <2> QED
      BY <2>1, <2>4, <2>5, <2>6
  <1> QED
    BY <1>1, Invariance, PTL

-----------------------------------------------------------------------------
(* Steps: what may become of a row.                                        *)

\* The statements implement the one-step operations of JobTable.
LEMMA StepMaps == ASSUME IInv, [Next]_vars PROVE [Table!Next]_rows
  <1>1. ASSUME NEW j \in Jobs, NEW p \in 0..MaxPart, InsertScheduledJob(j, p)
        PROVE  Table!Next
    BY <1>1 DEF InsertScheduledJob, InsertRow, Table!Next, Table!Insert
  <1>2. ASSUME NEW j \in Jobs, NEW o \in Finished, FinishJob(j, o)
        PROVE  Table!Next
    <2>1. rows' = [rows EXCEPT ![j].status = o] /\ out[j] > 0
      BY <1>2 DEF FinishJob, Record
    <2>2. rows[j].status # "none"
      BY <2>1 DEF IInv, RowTypes, Delivered, FreshUntouched
    <2> QED
      BY <2>1, <2>2 DEF Table!Next, Table!Complete, Table!Finished, Finished
  <1>3. ASSUME NEW p \in PartIds, NEW S \in SUBSET Jobs, SelectJobsForExecution(p, S)
        PROVE  Table!Next
    <2>1. /\ S \in SUBSET {j \in Jobs : rows[j] = [status |-> "Scheduled", partition |-> p]}
          /\ rows' = [j \in Jobs |-> IF j \in S THEN [rows[j] EXCEPT !.status = "Pending"]
                                                ELSE rows[j]]
      BY <1>3 DEF SelectJobsForExecution, HandOver, Selectable
    <2>2. p \in 0..MaxPart
      BY StorageAssumption DEF PartIds
    <2>3. Table!HandOut(p)
      BY <2>1 DEF Table!HandOut
    <2> QED
      BY <2>2, <2>3 DEF Table!Next
  <1>4. ASSUME Commit PROVE Table!Next
    <2>1. rows' = [j \in Jobs |-> View(j)]
      BY <1>4 DEF Commit
    <2>2. rows' = [j \in Jobs |-> rows'[j]] /\ \A j \in Jobs : rows'[j] = View(j)
      BY <2>1
    <2>3. \A j \in Jobs : View(j) \in Table!Moves(rows[j], active)
      BY ViewSound DEF IInv, RowTypes, TableInv
    <2>4. Table!Rebalance(active)
      BY <2>2, <2>3 DEF Table!Rebalance
    <2>5. active \in SUBSET Table!PartIds
      BY DEF IInv, Tx, TxTypes, PartIds, Table!PartIds
    <2> QED
      BY <2>4, <2>5 DEF Table!Next
  <1>5. ASSUME \/ \E A \in SUBSET PartIds : Begin(A)
               \/ ReBalanceStep \/ Rollback \/ UNCHANGED vars
               \/ \E j \in Jobs : LoseCopy(j)
        PROVE  UNCHANGED rows
    BY <1>5 DEF Begin, ReBalanceStep, UpdateJobsPartitions, PutBack, CountGroups, Share,
       AssignRest, RemovesJobsFromPartition, AssignJobsToPartition, Rollback, LoseCopy, vars
  <1> QED
    BY <1>1, <1>2, <1>3, <1>4, <1>5 DEF Next

\* The statements of db.go, interleaved in any way, implement the operations
\* of JobTable in one step each.
THEOREM JobTableIsImplemented == ASSUME IsFiniteSet(Jobs) PROVE Spec => ImplementsJobTable
  <1>1. Init => Table!Init
    BY DEF Init, NoRow, Table!Init
  <1>2. IInv /\ [Next]_vars => [Table!Next]_rows
    BY StepMaps
  <1> QED
    BY <1>1, <1>2, Invariance, PTL DEF Spec, ImplementsJobTable, Table!Spec

\* No operation of JobTable makes a finished job anything else.
LEMMA TableKeepsFinished ==
  ASSUME rows \in [Jobs -> Rows], [Table!Next]_rows,
         NEW j \in Jobs, rows[j].status \in Finished
  PROVE  rows'[j].status \in Finished
  <1>1. CASE \E i \in Jobs : Table!Insert(i)
    BY <1>1 DEF Table!Insert, Finished
  <1>2. CASE \E i \in Jobs : Table!Complete(i)
    BY <1>2 DEF Table!Complete, Table!Finished, Finished, Rows
  <1>3. CASE \E p \in 0..MaxPart : Table!HandOut(p)
    BY <1>3 DEF Table!HandOut, Finished
  <1>4. ASSUME NEW A \in SUBSET Table!PartIds, Table!Rebalance(A)
        PROVE  rows'[j].status \in Finished
    <2>1. rows'[j] \in Table!Moves(rows[j], A) /\ rows[j] \in Rows
      BY <1>4 DEF Table!Rebalance
    <2> QED
      BY <2>1 DEF Table!Moves, Table!Live, Finished, Rows
  <1> QED
    BY <1>1, <1>2, <1>3, <1>4 DEF Table!Next

\* A finished job stays finished, in whatever order an executor's update and
\* the statements of a rebalance come.
THEOREM FinishedIsFinal == ASSUME IsFiniteSet(Jobs) PROVE Spec => FinishedNeverReopened
  <1>1. IInv /\ [Next]_vars =>
          [\A j \in Jobs : rows[j].status \in Finished => rows'[j].status \in Finished]_rows
    BY StepMaps, TableKeepsFinished DEF IInv, RowTypes
  <1> QED
    BY <1>1, Invariance, PTL DEF Spec, FinishedNeverReopened
=============================================================================
