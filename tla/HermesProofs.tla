---------------------------- MODULE HermesProofs ----------------------------
(***************************************************************************)
(* The composed system, for any number of workers, scheduling calls, jobs  *)
(* and restarts.  StorageProofs says what a rebalance holds while other    *)
(* transactions commit; here those are the ones that the workers and the   *)
(* scheduling calls of Membership make, and the registry tells which       *)
(* partitions they may name.                                               *)
(***************************************************************************)
EXTENDS Hermes, FiniteSetTheorems, TLAPS

\* The job table with what is proved of it.
S == INSTANCE StorageProofs WITH MaxPart <- MaxPnum, out <- Out

\* The rebalancer and the scheduling calls between them.
MemberTypes ==
  /\ registry \in [Names -> 0..MaxPnum]
  /\ pnum \in 0..MaxPnum
  /\ picked \in [Calls -> 0..MaxPnum]
  /\ readers \in SUBSET Calls
HeldTypes == held \in [Names -> [Jobs -> Nat]]

\* No change of the registry waits to be rebalanced.
Settled == ~owed

\* Then the rebalancer's snapshot is the registry, and a scheduling call has
\* picked a partition of it.
SnapshotFresh == rbPc # "begin" /\ Settled => active = Partitions
PickFresh == \A c \in readers : picked[c] \in Server!PickChoices

\* The rebalancer is in the database exactly while a transaction is open.
TxTogether == rbPc = "tx" <=> txPc # "idle"

\* From its first statement on the transaction sees no live row elsewhere than
\* in the active partitions and 0, and those in 0 have been counted or moved.
TxPlaces ==
  Settled /\ txPc \in {"count", "move", "commit"} =>
    \A j \in Jobs : S!View(j).status \in S!Live => S!View(j).partition \in active \cup {0}
TxCounted ==
  Settled /\ txPc \in {"move", "commit"} /\ active # {} =>
    \A j \in Jobs \ grps : rows[j].partition = 0 => S!View(j).status \notin S!Live

\* What that leaves behind.
RestPlaces ==
  Settled /\ rbPc = "idle" =>
    \A j \in Jobs : rows[j].status \in S!Live => rows[j].partition \in Partitions \cup {0}
Unplaced == {j \in Jobs : rows[j].status \in S!Live /\ rows[j].partition = 0}
RestFew ==
  Settled /\ rbPc = "idle" /\ Partitions # {} => Cardinality(Unplaced) < Cardinality(Partitions)

Placed ==
  /\ SnapshotFresh /\ PickFresh /\ TxTogether
  /\ TxPlaces /\ TxCounted /\ RestPlaces /\ RestFew

\* A job that waits to be handed out is in nobody's hands, unless it was put back.
FreshUnheld ==
  \A n \in Names, j \in Jobs :
    \/ rows[j].status = "none"
    \/ rows[j].status = "Scheduled" /\ j \notin requeued
    => held[n][j] = 0

IInv ==
  /\ S!TableInv /\ MemberTypes /\ HeldTypes
  /\ Placed
  /\ FreshUnheld /\ SharedOnlyAfterRequeue

-----------------------------------------------------------------------------
(* The statements of Storage are those of StorageProofs.                   *)

\* Both instances count alike.
LEMMA SameCardinality == \A T : DB!Cardinality(T) = S!Cardinality(T)
  BY Zenon DEF DB!Cardinality, S!Cardinality

\* The statements of a rebalance.
LEMMA SameReBalanceStep == ASSUME DB!ReBalanceStep PROVE S!ReBalanceStep
  <1>1. DB!LiveRows = S!LiveRows
    BY DEF DB!LiveRows, S!LiveRows, DB!View, S!View, DB!Live, S!Live
  <1>2. DB!UpdateJobsPartitions => S!UpdateJobsPartitions
    BY DEF DB!UpdateJobsPartitions, S!UpdateJobsPartitions, DB!PutBack, S!PutBack,
       DB!Live, S!Live, DB!execVars, S!execVars
  <1>3. DB!CountGroups => S!CountGroups
    BY SameCardinality, <1>1 DEF DB!CountGroups, S!CountGroups, DB!Share, S!Share, DB!Count, S!Count,
       DB!View, S!View, DB!PartIds, S!PartIds, DB!execVars, S!execVars
  <1>4. DB!AssignRest => S!AssignRest
    BY DEF DB!AssignRest, S!AssignRest, DB!MoveTo, S!MoveTo, DB!InPartition, S!InPartition,
       DB!View, S!View, DB!PartIds, S!PartIds, DB!execVars, S!execVars
  <1>5. \A p : DB!InPartition(p) = S!InPartition(p)
    BY DEF DB!InPartition, S!InPartition, DB!View, S!View
  <1>6. \A T, n : DB!Limited(T, n) = S!Limited(T, n)
    BY SameCardinality DEF DB!Limited, S!Limited
  <1>7. \A T, p : DB!MoveTo(T, p) => S!MoveTo(T, p)
    BY DEF DB!MoveTo, S!MoveTo, DB!View, S!View
  <1>8. ASSUME NEW p \in DB!PartIds
        PROVE  /\ DB!RemovesJobsFromPartition(p) => S!RemovesJobsFromPartition(p)
               /\ DB!AssignJobsToPartition(p) => S!AssignJobsToPartition(p)
    BY <1>5, <1>6, <1>7 DEF DB!RemovesJobsFromPartition, S!RemovesJobsFromPartition,
       DB!AssignJobsToPartition, S!AssignJobsToPartition, DB!PartIds, S!PartIds,
       DB!execVars, S!execVars
  <1> QED
    BY <1>2, <1>3, <1>4, <1>8 DEF DB!ReBalanceStep, S!ReBalanceStep, DB!PartIds, S!PartIds

\* The other actions that the system takes from Storage.
LEMMA SameTransactions ==
  /\ \A A : DB!Begin(A) => S!Begin(A)
  /\ DB!Commit => S!Commit
  /\ DB!EndTx => S!EndTx
  BY DEF DB!Begin, S!Begin, DB!Commit, S!Commit, DB!EndTx, S!EndTx, DB!NoRow, S!NoRow,
     DB!NoneToAdd, S!NoneToAdd, DB!PartIds, S!PartIds, DB!View, S!View, DB!execVars, S!execVars

\* What is proved there assumes no more than is assumed here.
LEMMA SameAssumptions == S!StorageAssumption /\ (IsFiniteSet(Jobs) => S!IsFiniteSet(Jobs))
  <1>1. S!StorageAssumption
    BY HermesAssumption DEF S!StorageAssumption
  <1>2. IsFiniteSet(Jobs) => S!IsFiniteSet(Jobs)
    BY DEF S!IsFiniteSet, IsFiniteSet
  <1> QED
    BY <1>1, <1>2

\* Cardinality, by that name.
LEMMA SameCount == \A T : S!Cardinality(T) = Cardinality(T)
  BY Zenon DEF S!Cardinality, Cardinality

\* The partitions in use.
LEMMA PartitionsInRange ==
  ASSUME MemberTypes
  PROVE  /\ Partitions \in SUBSET (1..MaxPnum) /\ Partitions \in SUBSET S!PartIds
         /\ Server!PickChoices \in SUBSET (0..MaxPnum)
         /\ Server!PickChoices \in SUBSET (Partitions \cup {0})
         /\ Partitions # {} => 0 \notin Server!PickChoices
         /\ Cardinality(Partitions) \in Nat
  <1>1. Partitions \in SUBSET (1..MaxPnum)
    BY HermesAssumption DEF MemberTypes, Partitions, Server!Partitions
  <1>2. Server!PickChoices = IF Partitions = {} THEN {0} ELSE Partitions
    BY DEF Partitions, Server!PickChoices
  <1>3. S!PartIds = 1..MaxPnum
    BY DEF S!PartIds
  <1>4. 0 \in 0..MaxPnum /\ 0 \notin 1..MaxPnum /\ 1..MaxPnum \in SUBSET (0..MaxPnum)
    BY HermesAssumption
  <1>5. IsFiniteSet(1..MaxPnum)
    BY HermesAssumption, FS_Interval
  <1>6. Cardinality(Partitions) \in Nat
    BY <1>1, <1>5, FS_Subset, FS_CardinalityType
  <1> QED
    BY <1>1, <1>2, <1>3, <1>4, <1>6

-----------------------------------------------------------------------------
(* The steps, by what they touch.                                          *)

\* Neither the rows nor the rebalance; the registry, the snapshot and the state
\* of the rebalancer are kept too.
Aside ==
  /\ UNCHANGED <<registry, pnum, rbPc, active, rows, requeued, draft, txPc, grps, toAdd, last>>
  /\ Settled' <=> Settled

\* A worker joins or leaves while no scheduling call is under way.
Change ==
  /\ readers = {} /\ readers' = {}
  /\ ~Settled'
  /\ UNCHANGED <<rbPc, active, rows, requeued, draft, txPc, grps, toAdd, last, picked>>

\* A worker or a scheduling call writes rows.
RowWrite ==
  /\ UNCHANGED <<registry, pnum, rbPc, active, draft, txPc, grps, toAdd, last, requeued>>
  /\ Settled' <=> Settled
  /\ rows' \in [Jobs -> S!Rows]
  /\ \A j \in Jobs :
       \/ rows'[j] = rows[j]
       \/ /\ j \notin DOMAIN draft /\ rows[j].status = "none"
          /\ rows'[j].status = "Scheduled" /\ rows'[j].partition \in Server!PickChoices
       \/ /\ j \notin DOMAIN draft /\ rows'[j].partition = rows[j].partition
          /\ rows[j].status # "none" /\ rows'[j].status # "none"
          /\ rows'[j].status \in S!Live => rows[j].status \in S!Live

\* Registration and removal.
LEMMA ChangeStep ==
  ASSUME MemberTypes, NEW n \in Names, Register(n) \/ Leave(n)
  PROVE  Change /\ MemberTypes'
  <1>1. CASE Register(n)
    <2>1. /\ readers = {} /\ pnum < MaxPnum /\ pnum' = pnum + 1
          /\ registry' = [registry EXCEPT ![n] = pnum']
          /\ UNCHANGED <<rbPc, active, readers, picked>>
          /\ UNCHANGED <<rows, requeued, draft, txPc, grps, toAdd, last>>
      BY <1>1 DEF Register, Server!Join, Server!Enter, Server!callVars, tableVars, txVars
    <2>2. owed' = TRUE
      BY <1>1, Zenon DEF Register, Server!Join
    <2>3. ~Settled'
      BY <2>2, Zenon DEF Settled
    <2>4. MemberTypes'
      BY <2>1, HermesAssumption DEF MemberTypes
    <2> QED
      BY <2>1, <2>3, <2>4 DEF Change
  <1>2. CASE Leave(n)
    <2>1. /\ readers = {}
          /\ registry' = [registry EXCEPT ![n] = 0]
          /\ UNCHANGED <<pnum, rbPc, active, readers, picked>>
          /\ UNCHANGED <<rows, requeued, draft, txPc, grps, toAdd, last>>
      BY <1>2 DEF Leave, Server!Leave, Server!Remove, Server!callVars, tableVars, txVars
    <2>2. owed' = TRUE
      BY <1>2, Zenon DEF Leave, Server!Leave, Server!Remove
    <2>3. ~Settled'
      BY <2>2, Zenon DEF Settled
    <2>4. MemberTypes'
      BY <2>1, HermesAssumption DEF MemberTypes
    <2> QED
      BY <2>1, <2>3, <2>4 DEF Change
  <1> QED
    BY <1>1, <1>2

\* What only a worker's own hands or a scheduling call know of.
LEMMA AsideStep ==
  ASSUME MemberTypes,
         \/ UNCHANGED vars
         \/ \E n \in Names : Exit(n) \/ \E j \in Jobs : FinishFails(n, j)
         \/ \E c \in Calls : SchedulePick(c) \/ ScheduleFails(c)
  PROVE  Aside /\ MemberTypes' /\ (PickFresh => PickFresh')
  <1>1. owed' = owed
    BY Zenon DEF vars, memberVars, Exit, FinishFails, SchedulePick, Server!SchedulePick,
       ScheduleFails, Server!ScheduleReturn
  <1>2. Settled' <=> Settled
    BY <1>1, Zenon DEF Settled
  <1>3. UNCHANGED <<registry, pnum, rbPc, active, rows, requeued, draft, txPc, grps, toAdd, last>>
    BY DEF vars, memberVars, tableVars, txVars, Exit, FinishFails, SchedulePick,
       Server!SchedulePick, ScheduleFails, Server!ScheduleReturn
  <1>4. MemberTypes' /\ (PickFresh => PickFresh')
    <2>1. CASE UNCHANGED <<readers, picked>>
      BY <1>3, <2>1 DEF MemberTypes, PickFresh, Server!PickChoices, Server!Partitions
    <2>2. ASSUME NEW c \in Calls, SchedulePick(c)
          PROVE  MemberTypes' /\ (PickFresh => PickFresh')
      <3>1. PICK p \in Server!PickChoices : picked' = [picked EXCEPT ![c] = p]
        BY <2>2 DEF SchedulePick, Server!SchedulePick
      <3>2. readers' = readers \cup {c} /\ p \in 0..MaxPnum
        BY <2>2, PartitionsInRange DEF SchedulePick, Server!SchedulePick
      <3>3. MemberTypes'
        BY <1>3, <3>1, <3>2 DEF MemberTypes
      <3>4. Server!PickChoices' = Server!PickChoices
        BY <1>3 DEF Server!PickChoices, Server!Partitions
      <3>5. PickFresh => PickFresh'
        BY <3>1, <3>2, <3>4 DEF PickFresh, MemberTypes
      <3> QED
        BY <3>3, <3>5
    <2>3. ASSUME NEW c \in Calls, ScheduleFails(c)
          PROVE  MemberTypes' /\ (PickFresh => PickFresh')
      <3>1. readers' = readers \ {c} /\ picked' = [picked EXCEPT ![c] = 0]
        BY <2>3 DEF ScheduleFails, Server!ScheduleReturn
      <3>2. readers' \subseteq readers /\ c \notin readers'
        BY <3>1
      <3>3. picked' \in [Calls -> 0..MaxPnum]
        BY <3>1, HermesAssumption DEF MemberTypes
      <3>4. MemberTypes'
        BY <1>3, <3>2, <3>3 DEF MemberTypes
      <3>5. Server!PickChoices' = Server!PickChoices
        BY <1>3 DEF Server!PickChoices, Server!Partitions
      <3>6. \A d \in readers' : d \in readers /\ picked'[d] = picked[d]
        BY <3>1, <3>2 DEF MemberTypes
      <3> QED
        BY <3>4, <3>5, <3>6 DEF PickFresh
    <2> QED
      BY <2>1, <2>2, <2>3 DEF vars, memberVars, Exit, FinishFails
  <1> QED
    BY <1>2, <1>3, <1>4 DEF Aside

\* Selects, outcomes and inserts.
LEMMA RowWriteStep ==
  ASSUME S!TableInv, MemberTypes, PickFresh, FreshUnheld, HeldTypes,
         \/ \E n \in Names : \/ \E T \in SUBSET Jobs : Select(n, T)
                             \/ \E j \in Jobs, o \in DB!Finished : Finish(n, j, o)
         \/ \E c \in Calls, j \in Jobs : ScheduleInsert(c, j)
  PROVE  RowWrite /\ MemberTypes' /\ PickFresh'
  <1>1. owed' = owed
    BY Zenon DEF Select, Finish, memberVars, ScheduleInsert, Server!ScheduleReturn
  <1>2. Settled' <=> Settled
    BY <1>1, Zenon DEF Settled
  <1>3. rows \in [Jobs -> S!Rows]
    BY DEF S!TableInv
  <1>4. ASSUME NEW n \in Names, NEW T \in SUBSET Jobs, Select(n, T)
        PROVE  RowWrite /\ MemberTypes' /\ PickFresh'
    <2>1. /\ T \cap DOMAIN draft = {}
          /\ \A j \in T : rows[j].status = "Scheduled"
          /\ rows' = [j \in Jobs |-> IF j \in T THEN [rows[j] EXCEPT !.status = "Pending"]
                                                ELSE rows[j]]
          /\ UNCHANGED <<registry, pnum, rbPc, active, draft, txPc, grps, toAdd, last, requeued>>
          /\ UNCHANGED <<readers, picked>>
      BY <1>4 DEF Select, memberVars, DB!SelectJobsForExecution, DB!HandOver, DB!Selectable,
         DB!txVars
    <2>2. rows' \in [Jobs -> S!Rows]
      BY <1>3, <2>1 DEF S!Rows, S!Live
    <2>3. \A j \in T : /\ rows'[j].status = "Pending" /\ rows'[j].partition = rows[j].partition
      BY <1>3, <2>1 DEF S!Rows
    <2>4. RowWrite
      BY <1>2, <2>1, <2>2, <2>3 DEF RowWrite, S!Live
    <2> QED
      BY <2>1, <2>4 DEF MemberTypes, PickFresh, Server!PickChoices, Server!Partitions
  <1>5. ASSUME NEW n \in Names, NEW i \in Jobs, NEW o \in DB!Finished, Finish(n, i, o)
        PROVE  RowWrite /\ MemberTypes' /\ PickFresh'
    <2>1. /\ held[n][i] > 0 /\ i \notin DOMAIN draft
          /\ rows' = [rows EXCEPT ![i].status = o]
          /\ UNCHANGED <<registry, pnum, rbPc, active, draft, txPc, grps, toAdd, last, requeued>>
          /\ UNCHANGED <<readers, picked>>
      BY <1>5 DEF Finish, memberVars, DB!FinishJob, DB!Record, DB!txVars
    <2>2. o \in {"Success", "Fail"}
      BY DEF DB!Finished
    <2>3. rows' \in [Jobs -> S!Rows]
      BY <1>3, <2>1, <2>2 DEF S!Rows, S!Live, S!Finished
    <2>4. rows[i].status # "none"
      BY <2>1 DEF FreshUnheld
    <2>5. /\ rows'[i].status = o /\ rows'[i].partition = rows[i].partition
          /\ \A j \in Jobs : j # i => rows'[j] = rows[j]
      BY <1>3, <2>1 DEF S!Rows
    <2>6. RowWrite
      BY <1>2, <2>1, <2>2, <2>3, <2>4, <2>5 DEF RowWrite, S!Live
    <2> QED
      BY <2>1, <2>6 DEF MemberTypes, PickFresh, Server!PickChoices, Server!Partitions
  <1>6. ASSUME NEW c \in Calls, NEW i \in Jobs, ScheduleInsert(c, i)
        PROVE  RowWrite /\ MemberTypes' /\ PickFresh'
    <2>1. /\ rows[i].status = "none"
          /\ rows' = [rows EXCEPT ![i] = [status |-> "Scheduled", partition |-> picked[c]]]
          /\ UNCHANGED <<registry, pnum, rbPc, active, draft, txPc, grps, toAdd, last, requeued>>
          /\ c \in readers /\ readers' = readers \ {c} /\ picked' = [picked EXCEPT ![c] = 0]
      BY <1>6 DEF ScheduleInsert, Server!ScheduleReturn, DB!InsertScheduledJob, DB!InsertRow,
         DB!txVars, DB!execVars
    <2>2. picked[c] \in Server!PickChoices /\ picked[c] \in 0..MaxPnum
      BY <2>1 DEF PickFresh, MemberTypes
    <2>3. rows' \in [Jobs -> S!Rows]
      BY <1>3, <2>1, <2>2 DEF S!Rows, S!Live
    <2>4. i \notin DOMAIN draft
      BY <2>1 DEF S!TableInv, S!Tx, S!DraftSound
    <2>5. /\ rows'[i] = [status |-> "Scheduled", partition |-> picked[c]]
          /\ \A j \in Jobs : j # i => rows'[j] = rows[j]
      BY <1>3, <2>1
    <2>6. RowWrite
      BY <1>2, <2>1, <2>2, <2>3, <2>4, <2>5 DEF RowWrite
    <2>7. Server!PickChoices' = Server!PickChoices
      BY <2>1 DEF Server!PickChoices, Server!Partitions
    <2>8. MemberTypes'
      BY <2>1, HermesAssumption DEF MemberTypes
    <2>9. PickFresh'
      BY <2>1, <2>7 DEF PickFresh, MemberTypes
    <2> QED
      BY <2>6, <2>8, <2>9
  <1> QED
    BY <1>4, <1>5, <1>6

-----------------------------------------------------------------------------
(* The table and the placement of its rows.                                *)

\* Aside the rows and the transaction nothing moves.
LEMMA AsideKeeps ==
  ASSUME IsFiniteSet(Jobs), S!TableInv, Placed, Aside, PickFresh'
  PROVE  S!TableInv' /\ Placed'
  <1>1. S!TableInv'
    <2>1. UNCHANGED S!txVars /\ rows' \in [Jobs -> S!Rows] /\ S!OtherWrites
      BY DEF Aside, S!txVars, S!OtherWrites, S!TableInv
    <2> QED
      BY <2>1, SameAssumptions, S!OthersKeepTx
  <1>2. Partitions' = Partitions
    BY DEF Aside, Partitions, Server!Partitions
  <1>3. Unplaced' = Unplaced
    BY DEF Aside, Unplaced
  <1>4. Placed'
    BY <1>2, <1>3 DEF Aside, Placed, SnapshotFresh, TxTogether, TxPlaces, TxCounted, RestPlaces,
       RestFew, S!View
  <1> QED
    BY <1>1, <1>4

\* A change leaves nothing settled, and no call with a partition picked before.
LEMMA ChangeKeeps ==
  ASSUME IsFiniteSet(Jobs), S!TableInv, Placed, Change
  PROVE  S!TableInv' /\ Placed'
  <1>1. S!TableInv'
    <2>1. UNCHANGED S!txVars /\ rows' \in [Jobs -> S!Rows] /\ S!OtherWrites
      BY DEF Change, S!txVars, S!OtherWrites, S!TableInv
    <2> QED
      BY <2>1, SameAssumptions, S!OthersKeepTx
  <1>2. Placed'
    BY DEF Change, Placed, SnapshotFresh, PickFresh, TxTogether, TxPlaces, TxCounted, RestPlaces,
       RestFew
  <1> QED
    BY <1>1, <1>2

\* A row that is written stays in its partition, or comes to one that was picked.
LEMMA RowWriteKeeps ==
  ASSUME IsFiniteSet(Jobs), S!TableInv, MemberTypes, Placed, RowWrite, PickFresh'
  PROVE  S!TableInv' /\ Placed'
  <1>1. S!TableInv'
    <2>1. UNCHANGED S!txVars /\ rows' \in [Jobs -> S!Rows] /\ S!OtherWrites
      BY DEF RowWrite, S!txVars, S!OtherWrites
    <2> QED
      BY <2>1, SameAssumptions, S!OthersKeepTx
  <1>2. Partitions' = Partitions
    BY DEF RowWrite, Partitions, Server!Partitions
  <1>3. \A j \in Jobs :
          rows'[j].status \in S!Live =>
            \/ rows[j].status \in S!Live /\ rows'[j].partition = rows[j].partition
            \/ /\ rows'[j].partition \in Partitions \cup {0}
               /\ Partitions # {} => rows'[j].partition # 0
    BY PartitionsInRange DEF RowWrite
  <1>4. \A j \in DOMAIN draft : rows'[j] = rows[j]
    BY DEF RowWrite, S!TableInv, S!Tx, S!TxTypes
  <1>5. \A j \in Jobs : S!View(j)' = IF j \in DOMAIN draft THEN S!View(j) ELSE rows'[j]
    BY DEF RowWrite, S!View
  <1>6. SnapshotFresh' /\ TxTogether'
    BY <1>2 DEF RowWrite, Placed, SnapshotFresh, TxTogether
  <1>7. TxPlaces'
    <2> SUFFICES ASSUME Settled, txPc \in {"count", "move", "commit"},
                        NEW j \in Jobs, S!View(j)'.status \in S!Live
                 PROVE  S!View(j)'.partition \in active \cup {0}
      BY DEF TxPlaces, RowWrite, S!View, S!Live
    <2>1. active = Partitions
      BY DEF Placed, SnapshotFresh, TxTogether
    <2>2. S!View(j).status \in S!Live => S!View(j).partition \in active \cup {0}
      BY DEF Placed, TxPlaces
    <2> QED
      BY <1>3, <1>5, <2>1, <2>2 DEF S!View
  <1>8. TxCounted'
    <2> SUFFICES ASSUME Settled, txPc \in {"move", "commit"}, active # {},
                        NEW j \in Jobs \ grps, rows'[j].partition = 0
                 PROVE  S!View(j)'.status \notin S!Live
      BY DEF TxCounted, RowWrite, S!View, S!Live
    <2>1. Partitions # {}
      BY DEF Placed, SnapshotFresh, TxTogether
    <2>2. rows[j].partition = 0 => S!View(j).status \notin S!Live
      BY DEF Placed, TxCounted
    <2> QED
      BY <1>3, <1>4, <1>5, <2>1, <2>2 DEF S!View
  <1>9. RestPlaces'
    BY <1>2, <1>3 DEF Placed, RestPlaces, RowWrite, S!Live
  <1>10. RestFew'
    <2> SUFFICES ASSUME Settled, rbPc = "idle", Partitions # {}
                 PROVE  Cardinality(Unplaced') < Cardinality(Partitions)
      BY <1>2 DEF RestFew, RowWrite
    <2>1. Unplaced' \in SUBSET Unplaced
      BY <1>3 DEF Unplaced, S!Live
    <2>2. IsFiniteSet(Unplaced)
      BY FS_Subset DEF Unplaced
    <2>3. /\ Cardinality(Unplaced') \in Nat /\ Cardinality(Unplaced) \in Nat
          /\ Cardinality(Unplaced') <= Cardinality(Unplaced)
      BY <2>1, <2>2, FS_Subset, FS_CardinalityType
    <2>4. Cardinality(Partitions) \in Nat
      BY PartitionsInRange
    <2>5. Cardinality(Unplaced) < Cardinality(Partitions)
      BY DEF Placed, RestFew
    <2> QED
      BY <2>3, <2>4, <2>5
  <1> QED
    BY <1>1, <1>6, <1>7, <1>8, <1>9, <1>10 DEF Placed

\* The rebalancer wakes up and is not at rest any more.
LEMMA WakeStep ==
  ASSUME IsFiniteSet(Jobs), S!TableInv, MemberTypes, Placed, RebalanceWake
  PROVE  S!TableInv' /\ MemberTypes' /\ Placed'
  <1>1. /\ rbPc = "idle" /\ rbPc' = "begin"
        /\ UNCHANGED <<registry, pnum, active, readers, picked>>
        /\ UNCHANGED <<rows, requeued, draft, txPc, grps, toAdd, last>>
    BY DEF RebalanceWake, Server!Wake, Server!callVars, tableVars, txVars
  <1>2. S!TableInv'
    <2>1. UNCHANGED S!txVars /\ rows' \in [Jobs -> S!Rows] /\ S!OtherWrites
      BY <1>1 DEF S!txVars, S!OtherWrites, S!TableInv
    <2> QED
      BY <2>1, SameAssumptions, S!OthersKeepTx
  <1>3. MemberTypes'
    BY <1>1 DEF MemberTypes
  <1>4. PickFresh'
    BY <1>1 DEF Placed, PickFresh, Server!PickChoices, Server!Partitions
  <1>5. txPc' = "idle"
    BY <1>1 DEF Placed, TxTogether
  <1> QED
    BY <1>1, <1>2, <1>3, <1>4, <1>5 DEF Placed, SnapshotFresh, TxTogether, TxPlaces, TxCounted,
       RestPlaces, RestFew

\* The snapshot, and the transaction that is to use it.
LEMMA BeginStep ==
  ASSUME IsFiniteSet(Jobs), S!TableInv, MemberTypes, Placed, RebalanceBegin
  PROVE  S!TableInv' /\ MemberTypes' /\ Placed'
  <1>1. /\ rbPc' = "tx" /\ active' = Partitions /\ txPc' = "orphans"
        /\ UNCHANGED <<registry, pnum, readers, picked>>
        /\ S!Begin(Partitions)
    BY SameTransactions DEF RebalanceBegin, Server!Snapshot, Server!callVars, DB!Begin, Partitions
  <1>2. S!TableInv'
    BY <1>1, SameAssumptions, PartitionsInRange, S!BeginTx
  <1>3. MemberTypes' /\ Partitions' = Partitions
    BY <1>1 DEF MemberTypes, Partitions, Server!Partitions
  <1>4. PickFresh'
    BY <1>1 DEF Placed, PickFresh, Server!PickChoices, Server!Partitions
  <1> QED
    BY <1>1, <1>2, <1>3, <1>4 DEF Placed, SnapshotFresh, TxTogether, TxPlaces, TxCounted,
       RestPlaces, RestFew

\* The statements.
LEMMA StatementStep ==
  ASSUME IsFiniteSet(Jobs), S!TableInv, MemberTypes, Placed, RebalanceStatement
  PROVE  S!TableInv' /\ MemberTypes' /\ Placed' /\ UNCHANGED rows
  <1>1. S!ReBalanceStep /\ UNCHANGED <<registry, pnum, rbPc, readers, picked>>
    BY SameReBalanceStep DEF RebalanceStatement
  <1>2. owed' = owed
    BY Zenon DEF RebalanceStatement
  <1>3. Settled' <=> Settled
    BY <1>2, Zenon DEF Settled
  <1>4. S!TableInv'
    BY <1>1, SameAssumptions, S!ReBalanceStepTx
  <1>5. /\ txPc # "idle" /\ UNCHANGED <<rows, active>>
        /\ \/ /\ txPc = "orphans"
              /\ txPc' = IF active = {} THEN "commit" ELSE "count"
              /\ \A j \in Jobs : S!View(j)'.status \in S!Live
                                   => S!View(j)'.partition \in active \cup {0}
           \/ /\ txPc = "count" /\ txPc' = "move"
              /\ grps' = S!LiveRows /\ UNCHANGED draft
           \/ /\ txPc = "move" /\ txPc' \in {"move", "commit"}
              /\ grps' = grps
              /\ \A j \in Jobs : /\ S!View(j)'.status = S!View(j).status
                                 /\ \/ S!View(j)'.partition = S!View(j).partition
                                    \/ S!View(j)'.partition \in active \cup {0}
    BY <1>1, SameAssumptions, S!StepViews DEF S!View, S!Live
  <1>6. MemberTypes' /\ Partitions' = Partitions
    BY <1>1 DEF MemberTypes, Partitions, Server!Partitions
  <1>7. PickFresh'
    BY <1>1 DEF Placed, PickFresh, Server!PickChoices, Server!Partitions
  <1>8. SnapshotFresh' /\ TxTogether'
    BY <1>1, <1>3, <1>5, <1>6 DEF Placed, SnapshotFresh, TxTogether
  <1>9. rbPc # "idle" /\ rbPc' # "idle"
    BY <1>1, <1>5 DEF Placed, TxTogether
  <1>10. S!Live' = S!Live
    BY DEF S!Live
  <1>11. UNCHANGED draft => \A j \in Jobs : S!View(j)' = S!View(j)
    BY <1>5 DEF S!View
  <1>12. TxPlaces'
    <2> SUFFICES ASSUME Settled,
                        NEW j \in Jobs, S!View(j)'.status \in S!Live
                 PROVE  S!View(j)'.partition \in active \cup {0}
      BY <1>3, <1>5, <1>10 DEF TxPlaces
    <2>1. txPc # "orphans" => txPc \in {"count", "move", "commit"}
      BY <1>5 DEF S!TableInv, S!Tx, S!TxTypes
    <2> QED
      BY <1>5, <1>11, <2>1 DEF Placed, TxPlaces
  <1>13. TxCounted'
    <2> SUFFICES ASSUME Settled, txPc' \in {"move", "commit"}, active # {},
                        NEW j \in Jobs \ grps', rows[j].partition = 0
                 PROVE  S!View(j)'.status \notin S!Live
      BY <1>3, <1>5, <1>10 DEF TxCounted
    <2> QED
      BY <1>5, <1>11 DEF Placed, TxCounted, S!LiveRows
  <1> QED
    BY <1>4, <1>5, <1>6, <1>7, <1>8, <1>9, <1>12, <1>13 DEF Placed, RestPlaces, RestFew

\* What the committed rebalance leaves, no change being owed.
LEMMA CommitStep ==
  ASSUME IsFiniteSet(Jobs), S!TableInv, MemberTypes, Placed, RebalanceCommit
  PROVE  S!TableInv' /\ MemberTypes' /\ Placed'
  <1>1. /\ S!Commit /\ UNCHANGED <<registry, pnum, active, readers, picked>>
        /\ rbPc = "tx" /\ rbPc' = "idle" /\ txPc = "commit" /\ txPc' = "idle"
        /\ rows' = [j \in Jobs |-> S!View(j)]
    BY SameTransactions
       DEF RebalanceCommit, Server!Commit, Server!callVars, S!Commit, S!EndTx
  <1>2. owed' = owed
    BY Zenon DEF RebalanceCommit, Server!Commit
  <1>3. Settled' <=> Settled
    BY <1>2, Zenon DEF Settled
  <1>4. S!TableInv'
    BY <1>1, SameAssumptions, S!CommitTx
  <1>5. MemberTypes' /\ Partitions' = Partitions
    BY <1>1 DEF MemberTypes, Partitions, Server!Partitions
  <1>6. PickFresh'
    BY <1>1 DEF Placed, PickFresh, Server!PickChoices, Server!Partitions
  <1>7. Settled => active = Partitions
    BY <1>1 DEF Placed, SnapshotFresh
  <1>8. SnapshotFresh' /\ TxTogether' /\ TxPlaces' /\ TxCounted'
    BY <1>1, <1>3, <1>5, <1>7 DEF SnapshotFresh, TxTogether, TxPlaces, TxCounted
  <1>9. RestPlaces'
    BY <1>1, <1>3, <1>5, <1>7 DEF RestPlaces, Placed, TxPlaces, S!Live
  <1>10. RestFew'
    <2> SUFFICES ASSUME Settled, Partitions # {}
                 PROVE  Cardinality(Unplaced') < Cardinality(Partitions)
      BY <1>3, <1>5 DEF RestFew
    <2>1. Unplaced' \in SUBSET S!Stranded
      BY <1>1, <1>7 DEF Unplaced, Placed, TxCounted, S!Stranded, S!LiveRows, S!Live
    <2>2. IsFiniteSet(S!Stranded)
      BY FS_Subset DEF S!Stranded, S!LiveRows
    <2>3. Cardinality(S!Stranded) < Cardinality(Partitions)
      <3>1. S!Cardinality(S!Stranded) < S!Cardinality(active)
        BY <1>1, <1>7 DEF S!TableInv, S!Tx, S!CountSound
      <3> QED
        BY <1>7, <3>1, SameCount
    <2>4. /\ Cardinality(Unplaced') \in Nat /\ Cardinality(S!Stranded) \in Nat
          /\ Cardinality(Unplaced') <= Cardinality(S!Stranded)
      BY <2>1, <2>2, FS_Subset, FS_CardinalityType
    <2>5. Cardinality(Partitions) \in Nat
      BY PartitionsInRange
    <2> QED
      BY <2>3, <2>4, <2>5
  <1> QED
    BY <1>4, <1>5, <1>6, <1>8, <1>9, <1>10 DEF Placed

\* A new server begins with a rebalance.
LEMMA RestartStep ==
  ASSUME IsFiniteSet(Jobs), S!TableInv, MemberTypes, Placed, ServerRestart
  PROVE  S!TableInv' /\ MemberTypes' /\ Placed'
  <1>1. /\ rbPc' = "begin" /\ active' = {} /\ readers' = {} /\ pnum' = 0
        /\ registry' = [n \in Names |-> 0] /\ picked' = [c \in Calls |-> 0]
        /\ S!EndTx /\ UNCHANGED rows
    BY SameTransactions DEF ServerRestart, Server!Restart, tableVars
  <1>2. S!TableInv'
    BY <1>1, SameAssumptions, S!TxEnds DEF S!TableInv
  <1>3. MemberTypes' /\ PickFresh'
    BY <1>1, HermesAssumption DEF MemberTypes, PickFresh
  <1>4. txPc' = "idle"
    BY <1>1 DEF S!EndTx
  <1> QED
    BY <1>1, <1>2, <1>3, <1>4 DEF Placed, SnapshotFresh, TxTogether, TxPlaces, TxCounted,
       RestPlaces, RestFew

-----------------------------------------------------------------------------
(* Who holds which job.                                                    *)

\* Copies go, and no row comes to wait but one that did, or that is put back.
LEMMA FewerHeld ==
  ASSUME HeldTypes, FreshUnheld, SharedOnlyAfterRequeue, HeldTypes',
         \A n \in Names, j \in Jobs : held'[n][j] <= held[n][j],
         requeued \subseteq requeued',
         \A j \in Jobs : (\/ rows'[j].status = "none"
                          \/ rows'[j].status = "Scheduled" /\ j \notin requeued')
                           => \/ rows[j].status = "none"
                              \/ rows[j].status = "Scheduled" /\ j \notin requeued
  PROVE  FreshUnheld' /\ SharedOnlyAfterRequeue'
  <1>1. \A n \in Names, j \in Jobs : held[n][j] \in Nat /\ held'[n][j] \in Nat
    BY DEF HeldTypes
  <1>2. FreshUnheld'
    BY <1>1 DEF FreshUnheld
  <1>3. SharedOnlyAfterRequeue'
    <2> SUFFICES ASSUME NEW m \in Names, NEW n \in Names, NEW j \in Jobs,
                        m # n, held'[m][j] > 0, held'[n][j] > 0
                 PROVE  j \in requeued'
      BY DEF SharedOnlyAfterRequeue
    <2>1. held[m][j] > 0 /\ held[n][j] > 0
      BY <1>1
    <2> QED
      BY <2>1 DEF SharedOnlyAfterRequeue
  <1> QED
    BY <1>2, <1>3

\* A select hands out jobs that nobody holds, or that were put back.
LEMMA SelectHeld ==
  ASSUME S!TableInv, HeldTypes, FreshUnheld, SharedOnlyAfterRequeue,
         NEW w \in Names, NEW T \in SUBSET Jobs, Select(w, T)
  PROVE  HeldTypes' /\ FreshUnheld' /\ SharedOnlyAfterRequeue'
  <1>1. /\ \A j \in T : rows[j].status = "Scheduled"
        /\ rows' = [j \in Jobs |-> IF j \in T THEN [rows[j] EXCEPT !.status = "Pending"]
                                              ELSE rows[j]]
        /\ held' = [held EXCEPT ![w] = [j \in Jobs |-> IF j \in T THEN @[j] + 1 ELSE @[j]]]
        /\ requeued' = requeued
    BY DEF Select, DB!SelectJobsForExecution, DB!HandOver, DB!Selectable
  <1>2. \A n \in Names, j \in Jobs :
          /\ held[n][j] \in Nat
          /\ held'[n][j] = IF n = w /\ j \in T THEN held[n][j] + 1 ELSE held[n][j]
    BY <1>1 DEF HeldTypes
  <1>3. HeldTypes'
    BY <1>1 DEF HeldTypes
  <1>4. \A j \in T : rows'[j].status = "Pending"
    BY <1>1 DEF S!TableInv, S!Rows
  <1>5. FreshUnheld'
    BY <1>1, <1>2, <1>4 DEF FreshUnheld
  <1>6. SharedOnlyAfterRequeue'
    <2> SUFFICES ASSUME NEW m \in Names, NEW n \in Names, NEW j \in Jobs,
                        m # n, held'[m][j] > 0, held'[n][j] > 0, j \notin requeued
                 PROVE  FALSE
      BY <1>1 DEF SharedOnlyAfterRequeue
    <2>1. CASE j \in T
      BY <1>1, <1>2, <2>1 DEF FreshUnheld
    <2>2. CASE j \notin T
      BY <1>2, <2>2 DEF SharedOnlyAfterRequeue
    <2> QED
      BY <2>1, <2>2
  <1> QED
    BY <1>3, <1>5, <1>6

\* An executor or a process gives up what it holds; an insert, a commit and the
\* rest leave the workers' hands alone.
LEMMA OthersHeld ==
  ASSUME S!TableInv, HeldTypes, FreshUnheld, SharedOnlyAfterRequeue,
         \/ \E n \in Names : \/ Register(n) \/ Leave(n) \/ Exit(n)
                             \/ \E j \in Jobs : \/ FinishFails(n, j)
                                                \/ \E o \in DB!Finished : Finish(n, j, o)
         \/ \E c \in Calls : \/ SchedulePick(c) \/ ScheduleFails(c)
                             \/ \E j \in Jobs : ScheduleInsert(c, j)
         \/ RebalanceWake \/ RebalanceBegin \/ (RebalanceStatement /\ UNCHANGED rows)
         \/ RebalanceCommit \/ ServerRestart \/ UNCHANGED vars
  PROVE  /\ HeldTypes' /\ FreshUnheld' /\ SharedOnlyAfterRequeue'
         /\ \A n \in Names, j \in Jobs : held'[n][j] <= held[n][j]
  <1>1. \A n \in Names, j \in Jobs : held[n][j] \in Nat
    BY DEF HeldTypes
  <1>2. \A j \in Jobs : rows[j] \in S!Rows
    BY DEF S!TableInv
  <1> DEFINE Less == HeldTypes' /\ \A n \in Names, j \in Jobs : held'[n][j] <= held[n][j]
             NoneNew == /\ requeued \subseteq requeued'
                        /\ \A j \in Jobs :
                             (\/ rows'[j].status = "none"
                              \/ rows'[j].status = "Scheduled" /\ j \notin requeued')
                               => \/ rows[j].status = "none"
                                  \/ rows[j].status = "Scheduled" /\ j \notin requeued
  <1>3. held' = held => Less
    BY <1>1 DEF HeldTypes
  <1>4. UNCHANGED <<rows, requeued>> => NoneNew
    OBVIOUS
  <1>5. ASSUME NEW n \in Names, NEW i \in Jobs, held[n][i] > 0,
               held' = [held EXCEPT ![n][i] = @ - 1]
        PROVE  Less
    <2>1. \A m \in Names, j \in Jobs :
            held'[m][j] = IF m = n /\ j = i THEN held[m][j] - 1 ELSE held[m][j]
      BY <1>5 DEF HeldTypes
    <2>2. HeldTypes'
      BY <1>1, <1>5 DEF HeldTypes
    <2> QED
      BY <1>1, <2>1, <2>2
  <1>6. ASSUME NEW n \in Names, Exit(n) PROVE Less
    <2>1. held' = [held EXCEPT ![n] = [j \in Jobs |-> 0]]
      BY <1>6 DEF Exit
    <2>2. \A m \in Names, j \in Jobs : held'[m][j] = IF m = n THEN 0 ELSE held[m][j]
      BY <2>1 DEF HeldTypes
    <2>3. HeldTypes'
      BY <2>1 DEF HeldTypes
    <2> QED
      BY <1>1, <2>2, <2>3
  <1>7. ASSUME NEW n \in Names, NEW i \in Jobs, NEW o \in DB!Finished, Finish(n, i, o)
        PROVE  Less /\ NoneNew
    <2>1. /\ held[n][i] > 0 /\ held' = [held EXCEPT ![n][i] = @ - 1]
          /\ rows' = [rows EXCEPT ![i].status = o] /\ requeued' = requeued
      BY <1>7 DEF Finish, DB!FinishJob, DB!Record
    <2>2. o \in {"Success", "Fail"}
      BY DEF DB!Finished
    <2>3. \A j \in Jobs : rows'[j].status = IF j = i THEN o ELSE rows[j].status
      BY <1>2, <2>1 DEF S!TableInv, S!Rows
    <2>4. NoneNew
      BY <2>1, <2>2, <2>3
    <2> HIDE DEF Less, NoneNew
    <2> QED
      BY <1>5, <2>1, <2>4
  <1>8. ASSUME NEW n \in Names, NEW i \in Jobs, FinishFails(n, i)
        PROVE  Less /\ NoneNew
    <2>1. /\ held[n][i] > 0 /\ held' = [held EXCEPT ![n][i] = @ - 1]
          /\ UNCHANGED <<rows, requeued>>
      BY <1>8 DEF FinishFails, tableVars
    <2> HIDE DEF Less, NoneNew
    <2> QED
      BY <1>4, <1>5, <2>1
  <1>9. ASSUME NEW c \in Calls, NEW i \in Jobs, ScheduleInsert(c, i)
        PROVE  Less /\ NoneNew
    <2>1. /\ rows[i].status = "none"
          /\ rows' = [rows EXCEPT ![i] = [status |-> "Scheduled", partition |-> picked[c]]]
          /\ UNCHANGED <<held, requeued>>
      BY <1>9 DEF ScheduleInsert, DB!InsertScheduledJob, DB!InsertRow, DB!execVars, workerVars
    <2>2. NoneNew
      BY <1>2, <2>1 DEF S!TableInv
    <2> HIDE DEF Less, NoneNew
    <2> QED
      BY <1>3, <2>1, <2>2
  <1>10. ASSUME RebalanceCommit PROVE Less /\ NoneNew
    <2>1. /\ rows' = [j \in Jobs |-> S!View(j)]
          /\ requeued' = requeued \cup {j \in DOMAIN draft : /\ rows[j].status = "Pending"
                                                             /\ draft[j].status = "Scheduled"}
          /\ held' = held
      BY <1>10, SameTransactions DEF RebalanceCommit, S!Commit, workerVars
    <2>2. \A j \in Jobs :
            \/ S!View(j).status = rows[j].status
            \/ /\ rows[j].status \in S!Live /\ S!View(j).status = "Scheduled"
               /\ j \in DOMAIN draft
      BY SameAssumptions, S!ViewSound
    <2>3. \A j \in DOMAIN draft : S!View(j) = draft[j]
      BY DEF S!View
    <2>4. NoneNew
      BY <2>1, <2>2, <2>3 DEF S!Live
    <2> HIDE DEF Less, NoneNew
    <2> QED
      BY <1>3, <2>1, <2>4
  <1>11. ASSUME \/ \E n \in Names : Register(n) \/ Leave(n)
                \/ \E c \in Calls : SchedulePick(c) \/ ScheduleFails(c)
                \/ RebalanceWake \/ RebalanceBegin \/ (RebalanceStatement /\ UNCHANGED rows)
                \/ ServerRestart \/ UNCHANGED vars
         PROVE  UNCHANGED <<held, rows, requeued>>
    <2>1. RebalanceStatement => requeued' = requeued
      BY DEF RebalanceStatement, DB!ReBalanceStep, DB!UpdateJobsPartitions, DB!PutBack,
         DB!CountGroups, DB!Share, DB!AssignRest, DB!RemovesJobsFromPartition,
         DB!AssignJobsToPartition, DB!execVars
    <2>2. RebalanceBegin => UNCHANGED <<rows, requeued>>
      BY DEF RebalanceBegin, DB!Begin, DB!execVars
    <2> QED
      BY <1>11, <2>1, <2>2 DEF Register, Leave, SchedulePick, ScheduleFails, RebalanceWake,
         RebalanceBegin, RebalanceStatement, ServerRestart, vars, workerVars, tableVars
  <1>12. ASSUME NEW n \in Names, Exit(n) PROVE NoneNew
    <2>1. UNCHANGED <<rows, requeued>>
      BY <1>12 DEF Exit, tableVars
    <2> QED
      BY <1>4, <2>1
  <1>13. Less /\ NoneNew
    <2> HIDE DEF Less, NoneNew
    <2> QED
      BY <1>3, <1>4, <1>6, <1>7, <1>8, <1>9, <1>10, <1>11, <1>12
  <1> QED
    BY <1>13, FewerHeld

-----------------------------------------------------------------------------
(* How many copies there are.                                              *)

HeldBounded == held \in [Names -> [Jobs -> 0..MaxOut]]

\* A job that has been executed is finished, and the copies that are in work
\* and those that were executed are bounded together.
Copies ==
  /\ HeldBounded /\ executions \in [Jobs -> Nat] /\ requeued \in SUBSET Jobs
  /\ \A j \in Jobs : executions[j] > 0 => rows[j].status \in S!Finished
  /\ \A j \in Jobs : Out[j] + executions[j] <= MaxOut

\* The copies of a job, one by one.
CopiesOf(j) == {c \in Names \X (1..MaxOut) : c[2] <= held[c[1]][j]}

\* They can be counted, and each worker's are among them.
LEMMA OutCounts ==
  ASSUME IsFiniteSet(Names), NEW j \in Jobs
  PROVE  /\ IsFiniteSet(CopiesOf(j)) /\ Out[j] = Cardinality(CopiesOf(j)) /\ Out[j] \in Nat
         /\ HeldBounded => \A n \in Names : held[n][j] <= Out[j]
  <1>1. IsFiniteSet(1..MaxOut)
    BY HermesAssumption, FS_Interval
  <1>2. IsFiniteSet(Names \X (1..MaxOut))
    BY <1>1, FS_Product
  <1>3. CopiesOf(j) \in SUBSET (Names \X (1..MaxOut))
    BY DEF CopiesOf
  <1>4. IsFiniteSet(CopiesOf(j)) /\ Cardinality(CopiesOf(j)) \in Nat
    BY <1>2, <1>3, FS_Subset, FS_CardinalityType
  <1>5. Out[j] = Cardinality(CopiesOf(j))
    BY DEF Out, CopiesOf
  <1>6. ASSUME HeldBounded, NEW n \in Names PROVE held[n][j] <= Out[j]
    <2>1. held[n][j] \in 0..MaxOut
      BY <1>6 DEF HeldBounded
    <2>2. IsFiniteSet(1..held[n][j]) /\ Cardinality(1..held[n][j]) = held[n][j]
      <3>1. \A b \in Nat : IsFiniteSet(1..b) /\ Cardinality(1..b) = b
        BY FS_Interval
      <3>2. held[n][j] \in Nat
        BY <2>1, HermesAssumption
      <3> QED
        BY <3>1, <3>2
    <2>3. /\ IsFiniteSet({n} \X (1..held[n][j]))
          /\ Cardinality({n} \X (1..held[n][j])) = held[n][j]
      <3>1. IsFiniteSet({n}) /\ Cardinality({n}) = 1
        BY FS_Singleton
      <3>2. /\ IsFiniteSet({n} \X (1..held[n][j]))
            /\ Cardinality({n} \X (1..held[n][j])) = Cardinality({n}) * Cardinality(1..held[n][j])
        BY <2>2, <3>1, FS_Product
      <3> QED
        BY <2>1, <2>2, <3>1, <3>2
    <2>4. {n} \X (1..held[n][j]) \in SUBSET CopiesOf(j)
      BY <2>1, HermesAssumption DEF CopiesOf
    <2> QED
      BY <1>4, <1>5, <2>3, <2>4, FS_Subset
  <1> QED
    BY <1>4, <1>5, <1>6

\* Where no worker has more of it, there are not more copies of a job.
LEMMA OutShrinks ==
  ASSUME IsFiniteSet(Names), HeldTypes, HeldTypes', NEW j \in Jobs,
         \A n \in Names : held'[n][j] <= held[n][j]
  PROVE  Out'[j] \in Nat /\ Out'[j] <= Out[j]
  <1>1. CopiesOf(j)' = {c \in Names \X (1..MaxOut) : c[2] <= held'[c[1]][j]}
    BY DEF CopiesOf
  <1>2. CopiesOf(j)' \in SUBSET CopiesOf(j)
    <2> SUFFICES ASSUME NEW n \in Names, NEW i \in 1..MaxOut, i <= held'[n][j]
                 PROVE  i <= held[n][j]
      BY <1>1 DEF CopiesOf
    <2>1. held[n][j] \in Nat /\ held'[n][j] \in Nat /\ i \in Int
      BY HermesAssumption DEF HeldTypes
    <2> QED
      BY <2>1
  <1>3. Out'[j] = Cardinality(CopiesOf(j)')
    BY DEF Out, CopiesOf
  <1>4. IsFiniteSet(CopiesOf(j)) /\ Out[j] = Cardinality(CopiesOf(j))
    BY OutCounts
  <1> QED
    BY <1>2, <1>3, <1>4, FS_Subset, FS_CardinalityType

\* A select makes copies of jobs that were not executed.
LEMMA SelectCopies ==
  ASSUME IsFiniteSet(Names), S!TableInv, Copies, HeldTypes,
         NEW w \in Names, NEW T \in SUBSET Jobs, Select(w, T)
  PROVE  Copies'
  <1>1. /\ \A j \in T : rows[j].status = "Scheduled" /\ Out[j] < MaxOut
        /\ rows' = [j \in Jobs |-> IF j \in T THEN [rows[j] EXCEPT !.status = "Pending"]
                                              ELSE rows[j]]
        /\ held' = [held EXCEPT ![w] = [j \in Jobs |-> IF j \in T THEN @[j] + 1 ELSE @[j]]]
        /\ Out' = [j \in Jobs |-> IF j \in T THEN Out[j] + 1 ELSE Out[j]]
        /\ UNCHANGED <<executions, requeued>>
    BY DEF Select, DB!SelectJobsForExecution, DB!HandOver, DB!Selectable
  <1>2. \A j \in Jobs : /\ Out[j] \in Nat /\ executions[j] \in Nat
                        /\ Out[j] + executions[j] <= MaxOut
                        /\ \A n \in Names : held[n][j] \in 0..MaxOut /\ held[n][j] <= Out[j]
    BY OutCounts DEF Copies, HeldBounded
  <1>3. \A n \in Names, j \in Jobs :
          held'[n][j] = IF n = w /\ j \in T THEN held[n][j] + 1 ELSE held[n][j]
    BY <1>1 DEF HeldTypes
  <1>4. \A n \in Names, j \in Jobs : held'[n][j] \in 0..MaxOut
    BY <1>1, <1>2, <1>3, HermesAssumption
  <1>5. HeldBounded'
    <2>1. /\ held' = [n \in Names |-> held'[n]]
          /\ \A n \in Names : held'[n] = [j \in Jobs |-> held'[n][j]]
      BY <1>1 DEF HeldTypes
    <2> QED
      BY <1>4, <2>1 DEF HeldBounded
  <1>6. \A j \in T : executions[j] = 0
    BY <1>1, <1>2 DEF Copies, S!Finished
  <1>7. \A j \in Jobs : Out'[j] + executions'[j] <= MaxOut
    BY <1>1, <1>2, <1>6, HermesAssumption
  <1>8. \A j \in Jobs : executions'[j] > 0 => rows'[j].status \in S!Finished
    BY <1>1, <1>6 DEF Copies
  <1> QED
    BY <1>1, <1>5, <1>7, <1>8 DEF Copies, S!Finished

\* Otherwise copies only go; one that goes for an execution finishes its job.
LEMMA OthersCopies ==
  ASSUME IsFiniteSet(Names), S!TableInv, Copies, HeldTypes, HeldTypes',
         \A n \in Names, j \in Jobs : held'[n][j] <= held[n][j],
         \/ \E n \in Names : \/ Register(n) \/ Leave(n) \/ Exit(n)
                             \/ \E j \in Jobs : \/ FinishFails(n, j)
                                                \/ \E o \in DB!Finished : Finish(n, j, o)
         \/ \E c \in Calls : \/ SchedulePick(c) \/ ScheduleFails(c)
                             \/ \E j \in Jobs : ScheduleInsert(c, j)
         \/ RebalanceWake \/ RebalanceBegin \/ (RebalanceStatement /\ UNCHANGED rows)
         \/ RebalanceCommit \/ ServerRestart \/ UNCHANGED vars
  PROVE  Copies'
  <1>1. \A j \in Jobs : /\ Out[j] \in Nat /\ Out'[j] \in Nat /\ Out'[j] <= Out[j]
                        /\ executions[j] \in Nat
                        /\ Out[j] + executions[j] <= MaxOut
    BY OutCounts, OutShrinks DEF Copies
  <1>2. HeldBounded'
    <2>1. \A n \in Names, j \in Jobs : held'[n][j] \in Nat /\ held[n][j] \in 0..MaxOut
      BY DEF HeldTypes, Copies, HeldBounded
    <2>2. \A n \in Names, j \in Jobs : held'[n][j] \in 0..MaxOut
      BY <2>1, HermesAssumption
    <2>3. /\ held' = [n \in Names |-> held'[n]]
          /\ \A n \in Names : held'[n] = [j \in Jobs |-> held'[n][j]]
      BY DEF HeldTypes
    <2> QED
      BY <2>2, <2>3 DEF HeldBounded
  <1>3. \A j \in Jobs : rows[j] \in S!Rows
    BY DEF S!TableInv
  <1> DEFINE Kept == /\ UNCHANGED executions /\ requeued' \in SUBSET Jobs
                     /\ \A j \in Jobs : rows[j].status \in S!Finished
                                          => rows'[j].status \in S!Finished
  <1>4. ASSUME NEW n \in Names, NEW i \in Jobs, NEW o \in DB!Finished, Finish(n, i, o)
        PROVE  Copies'
    <2>1. /\ Out[i] > 0 /\ Out' = [Out EXCEPT ![i] = @ - 1]
          /\ executions' = [executions EXCEPT ![i] = @ + 1]
          /\ rows' = [rows EXCEPT ![i].status = o] /\ requeued' = requeued
      BY <1>4 DEF Finish, DB!FinishJob, DB!Record
    <2>2. Out \in [Jobs -> Nat] /\ executions \in [Jobs -> Nat]
      BY <1>1 DEF Out, Copies
    <2>3. \A j \in Jobs : Out'[j] + executions'[j] <= MaxOut
      BY <1>1, <2>1, <2>2
    <2>4. \A j \in Jobs : rows'[j].status = IF j = i THEN o ELSE rows[j].status
      BY <1>3, <2>1 DEF S!TableInv, S!Rows
    <2>5. \A j \in Jobs : executions'[j] > 0 => rows'[j].status \in S!Finished
      BY <2>1, <2>2, <2>4 DEF Copies, S!Finished, DB!Finished
    <2>6. executions' \in [Jobs -> Nat] /\ requeued' \in SUBSET Jobs
      BY <2>1, <2>2 DEF Copies
    <2> QED
      BY <1>2, <2>3, <2>5, <2>6 DEF Copies, S!Finished
  <1>5. ASSUME NEW c \in Calls, NEW i \in Jobs, ScheduleInsert(c, i)
        PROVE  Kept
    <2>1. /\ rows[i].status = "none"
          /\ rows' = [rows EXCEPT ![i] = [status |-> "Scheduled", partition |-> picked[c]]]
          /\ UNCHANGED <<executions, requeued>>
      BY <1>5 DEF ScheduleInsert, DB!InsertScheduledJob, DB!InsertRow, DB!execVars
    <2> QED
      BY <2>1 DEF S!TableInv, S!Finished, Copies
  <1>6. ASSUME RebalanceCommit PROVE Kept
    <2>1. /\ rows' = [j \in Jobs |-> S!View(j)]
          /\ requeued' = requeued \cup {j \in DOMAIN draft : /\ rows[j].status = "Pending"
                                                             /\ draft[j].status = "Scheduled"}
          /\ UNCHANGED executions
      BY <1>6, SameTransactions DEF RebalanceCommit, S!Commit
    <2>2. \A j \in Jobs :
            \/ S!View(j).status = rows[j].status
            \/ /\ rows[j].status \in S!Live /\ S!View(j).status = "Scheduled"
               /\ j \in DOMAIN draft
      BY SameAssumptions, S!ViewSound
    <2>3. DOMAIN draft \subseteq Jobs
      BY DEF S!TableInv, S!Tx, S!TxTypes
    <2> QED
      BY <2>1, <2>2, <2>3 DEF Copies, S!Live, S!Finished
  <1>7. ASSUME \/ \E n \in Names : \/ Register(n) \/ Leave(n) \/ Exit(n)
                                   \/ \E j \in Jobs : FinishFails(n, j)
               \/ \E c \in Calls : SchedulePick(c) \/ ScheduleFails(c)
               \/ RebalanceWake \/ RebalanceBegin \/ (RebalanceStatement /\ UNCHANGED rows)
               \/ ServerRestart \/ UNCHANGED vars
        PROVE  Kept
    <2>1. RebalanceStatement => UNCHANGED <<executions, requeued>>
      BY DEF RebalanceStatement, DB!ReBalanceStep, DB!UpdateJobsPartitions, DB!PutBack,
         DB!CountGroups, DB!Share, DB!AssignRest, DB!RemovesJobsFromPartition,
         DB!AssignJobsToPartition, DB!execVars
    <2>2. RebalanceBegin => UNCHANGED <<rows, executions, requeued>>
      BY DEF RebalanceBegin, DB!Begin, DB!execVars
    <2>3. UNCHANGED <<rows, executions, requeued>>
      BY <1>7, <2>1, <2>2 DEF Register, Leave, Exit, FinishFails, SchedulePick, ScheduleFails,
         RebalanceWake, RebalanceBegin, RebalanceStatement, ServerRestart, vars, tableVars
    <2> QED
      BY <2>3 DEF Copies
  <1>8. ASSUME Kept PROVE Copies'
    <2>1. \A j \in Jobs : executions'[j] > 0 => rows'[j].status \in S!Finished
      BY <1>8 DEF Copies
    <2>2. \A j \in Jobs : Out'[j] + executions'[j] <= MaxOut
      <3>1. \A j \in Jobs : executions'[j] = executions[j]
        BY <1>8
      <3> HIDE DEF Kept
      <3> QED
        BY <1>1, <3>1, HermesAssumption
    <2> QED
      BY <1>2, <1>8, <2>1, <2>2 DEF Copies, S!Finished
  <1> HIDE DEF Kept
  <1> QED
    BY <1>4, <1>5, <1>6, <1>7, <1>8

-----------------------------------------------------------------------------
\* An empty system satisfies the invariant.
LEMMA InitIInv == ASSUME IsFiniteSet(Jobs) PROVE Init => IInv
  <1> SUFFICES ASSUME Init PROVE IInv
    OBVIOUS
  <1>1. S!TableInv
    <2>1. /\ rows = [j \in Jobs |-> [status |-> "none", partition |-> 0]]
          /\ DOMAIN draft = {} /\ txPc = "idle" /\ active = {} /\ grps = {} /\ last = 0
          /\ toAdd = [p \in 1..MaxPnum |-> 0]
      BY DEF Init, Server!Init, DB!NoRow, DB!NoneToAdd, DB!PartIds
    <2> QED
      BY <2>1, HermesAssumption DEF S!TableInv, S!Tx, S!TxTypes, S!DraftSound, S!TxSound,
         S!CountSound, S!Rows, S!PartIds
  <1>2. MemberTypes /\ HeldTypes
    BY HermesAssumption DEF Init, Server!Init, MemberTypes, HeldTypes
  <1>3. Placed
    BY DEF Init, Server!Init, Placed, SnapshotFresh, PickFresh, TxTogether, TxPlaces, TxCounted,
       RestPlaces, RestFew
  <1>4. FreshUnheld /\ SharedOnlyAfterRequeue
    BY DEF Init, FreshUnheld, SharedOnlyAfterRequeue
  <1> QED
    BY <1>1, <1>2, <1>3, <1>4 DEF IInv

\* Every step keeps the invariant.
LEMMA NextIInv == ASSUME IsFiniteSet(Jobs), IInv, [Next]_vars PROVE IInv'
  <1>1. CASE \E n \in Names : Register(n) \/ Leave(n)
    <2>1. Change /\ MemberTypes'
      BY <1>1, ChangeStep DEF IInv
    <2>2. S!TableInv' /\ Placed'
      BY <2>1, ChangeKeeps DEF IInv
    <2>3. HeldTypes' /\ FreshUnheld' /\ SharedOnlyAfterRequeue'
      BY <1>1, OthersHeld DEF IInv
    <2> QED
      BY <2>1, <2>2, <2>3 DEF IInv
  <1>2. CASE \/ UNCHANGED vars
             \/ \E n \in Names : Exit(n) \/ \E j \in Jobs : FinishFails(n, j)
             \/ \E c \in Calls : SchedulePick(c) \/ ScheduleFails(c)
    <2>1. Aside /\ MemberTypes' /\ PickFresh'
      BY <1>2, AsideStep DEF IInv, Placed
    <2>2. S!TableInv' /\ Placed'
      BY <2>1, AsideKeeps DEF IInv
    <2>3. HeldTypes' /\ FreshUnheld' /\ SharedOnlyAfterRequeue'
      BY <1>2, OthersHeld DEF IInv
    <2> QED
      BY <2>1, <2>2, <2>3 DEF IInv
  <1>3. CASE \/ \E n \in Names : \/ \E T \in SUBSET Jobs : Select(n, T)
                                 \/ \E j \in Jobs, o \in DB!Finished : Finish(n, j, o)
             \/ \E c \in Calls, j \in Jobs : ScheduleInsert(c, j)
    <2>1. RowWrite /\ MemberTypes' /\ PickFresh'
      BY <1>3, RowWriteStep DEF IInv, Placed
    <2>2. S!TableInv' /\ Placed'
      BY <2>1, RowWriteKeeps DEF IInv
    <2>3. HeldTypes' /\ FreshUnheld' /\ SharedOnlyAfterRequeue'
      BY <1>3, OthersHeld, SelectHeld DEF IInv
    <2> QED
      BY <2>1, <2>2, <2>3 DEF IInv
  <1>4. CASE RebalanceWake \/ RebalanceBegin \/ RebalanceStatement \/ RebalanceCommit
             \/ ServerRestart
    <2>1. /\ S!TableInv' /\ MemberTypes' /\ Placed'
          /\ RebalanceStatement => UNCHANGED rows
      BY <1>4, WakeStep, BeginStep, StatementStep, CommitStep, RestartStep DEF IInv
    <2>2. \/ RebalanceWake \/ RebalanceBegin \/ (RebalanceStatement /\ UNCHANGED rows)
          \/ RebalanceCommit \/ ServerRestart
      BY <1>4, <2>1
    <2>3. S!TableInv /\ HeldTypes /\ FreshUnheld /\ SharedOnlyAfterRequeue
      BY DEF IInv
    <2>4. HeldTypes' /\ FreshUnheld' /\ SharedOnlyAfterRequeue'
      BY <2>2, <2>3, OthersHeld, Zenon
    <2> QED
      BY <2>1, <2>4 DEF IInv
  <1> QED
    BY <1>1, <1>2, <1>3, <1>4 DEF Next, WorkerNext, ServerNext

\* The invariant holds throughout.
THEOREM Invariance == ASSUME IsFiniteSet(Jobs) PROVE Spec => []IInv
  <1>1. Init => IInv
    BY InitIInv
  <1>2. IInv /\ [Next]_vars => IInv'
    BY NextIInv
  <1> QED
    BY <1>1, <1>2, PTL DEF Spec

\* However many workers, calls and restarts there are: when the rebalancer is
\* at rest, no job that is still to run sits in a partition nobody owns.
THEOREM NoJobIsOrphaned == ASSUME IsFiniteSet(Jobs) PROVE Spec => []NoOrphanAtRest
  <1>1. IInv => NoOrphanAtRest
    BY DEF IInv, Placed, RestPlaces, Settled, NoOrphanAtRest, AtRest, IsLive, S!Live, DB!Live
  <1> QED
    BY <1>1, Invariance, PTL

\* And fewer jobs are left without a partition than there are workers.
THEOREM FewAreStranded == ASSUME IsFiniteSet(Jobs) PROVE Spec => []StrandedFewerThanWorkers
  <1>1. IInv => StrandedFewerThanWorkers
    <2>1. {j \in Jobs : IsLive(j) /\ rows[j].partition = 0} = Unplaced
      BY DEF Unplaced, IsLive, S!Live, DB!Live
    <2> QED
      BY <2>1 DEF IInv, Placed, RestFew, Settled, StrandedFewerThanWorkers, AtRest
  <1> QED
    BY <1>1, Invariance, PTL

\* Two workers have copies of one job only when a rebalance put it back.
THEOREM NobodySharesAJob == ASSUME IsFiniteSet(Jobs) PROVE Spec => []SharedOnlyAfterRequeue
  <1>1. IInv => SharedOnlyAfterRequeue
    BY DEF IInv
  <1> QED
    BY <1>1, Invariance, PTL

-----------------------------------------------------------------------------
(* The job table, as the whole system writes it.                           *)

\* Every step of the system is one operation of JobTable, or leaves the rows.
LEMMA StepMaps ==
  ASSUME IsFiniteSet(Jobs), IInv, [Next]_vars
  PROVE  [DB!Table!Next]_rows
  <1>0. rows \in [Jobs -> S!Rows] /\ MemberTypes
    BY DEF IInv, S!TableInv
  <1>1. ASSUME NEW n \in Names, NEW T \in SUBSET Jobs, Select(n, T)
        PROVE  DB!Table!Next
    <2>0. T \in SUBSET DB!Selectable(part[n]) /\ T # {}
      BY <1>1 DEF Select, DB!SelectJobsForExecution, DB!HandOver
    <2>1. /\ T \in SUBSET {j \in Jobs : rows[j] = [status |-> "Scheduled",
                                                   partition |-> part[n]]}
          /\ rows' = [j \in Jobs |-> IF j \in T THEN [rows[j] EXCEPT !.status = "Pending"]
                                                ELSE rows[j]]
      BY <1>1, <2>0 DEF Select, DB!SelectJobsForExecution, DB!Selectable
    <2>2. part[n] \in 0..MaxPnum
      <3>1. PICK j \in T : rows[j] = [status |-> "Scheduled", partition |-> part[n]]
        BY <2>0, <2>1
      <3> QED
        BY <1>0, <3>1 DEF S!Rows
    <2>3. DB!Table!HandOut(part[n])
      BY <2>1 DEF DB!Table!HandOut
    <2> QED
      BY <2>2, <2>3 DEF DB!Table!Next
  <1>2. ASSUME NEW n \in Names, NEW i \in Jobs, NEW o \in DB!Finished, Finish(n, i, o)
        PROVE  DB!Table!Next
    <2>1. held[n][i] > 0 /\ rows' = [rows EXCEPT ![i].status = o]
      BY <1>2 DEF Finish, DB!FinishJob, DB!Record
    <2>2. rows[i].status # "none"
      BY <2>1 DEF IInv, FreshUnheld
    <2>3. DB!Table!Complete(i)
      BY <2>1, <2>2 DEF DB!Table!Complete, DB!Table!Finished, DB!Finished
    <2> QED
      BY <2>3 DEF DB!Table!Next
  <1>3. ASSUME NEW c \in Calls, NEW i \in Jobs, ScheduleInsert(c, i)
        PROVE  DB!Table!Next
    <2>1. /\ rows[i].status = "none" /\ picked[c] \in 0..MaxPnum
          /\ rows' = [rows EXCEPT ![i] = [status |-> "Scheduled", partition |-> picked[c]]]
      BY <1>0, <1>3 DEF ScheduleInsert, DB!InsertScheduledJob, DB!InsertRow, MemberTypes
    <2>2. DB!Table!Insert(i)
      BY <2>1 DEF DB!Table!Insert
    <2> QED
      BY <2>2 DEF DB!Table!Next
  <1>4. ASSUME RebalanceCommit PROVE DB!Table!Next
    <2>1. rows' = [j \in Jobs |-> S!View(j)]
      BY <1>4, SameTransactions DEF RebalanceCommit, S!Commit
    <2>2. \A j \in Jobs : S!View(j) \in S!Table!Moves(rows[j], active)
      BY SameAssumptions, S!ViewSound DEF IInv
    <2>3. \A r, A : S!Table!Moves(r, A) = DB!Table!Moves(r, A)
      BY DEF S!Table!Moves, DB!Table!Moves, S!Table!Live, DB!Table!Live
    <2>4. DB!Table!Rebalance(active)
      BY <2>1, <2>2, <2>3 DEF DB!Table!Rebalance
    <2>5. active \in SUBSET DB!Table!PartIds
      BY DEF IInv, S!TableInv, S!Tx, S!TxTypes, S!PartIds, DB!Table!PartIds
    <2> QED
      BY <2>4, <2>5 DEF DB!Table!Next
  <1>5. ASSUME RebalanceStatement PROVE UNCHANGED rows
    BY <1>5, StatementStep DEF IInv
  <1>6. ASSUME \/ \E n \in Names : \/ Register(n) \/ Leave(n) \/ Exit(n)
                                   \/ \E j \in Jobs : FinishFails(n, j)
               \/ \E c \in Calls : SchedulePick(c) \/ ScheduleFails(c)
               \/ RebalanceWake \/ RebalanceBegin \/ ServerRestart
               \/ UNCHANGED vars
        PROVE  UNCHANGED rows
    BY <1>6 DEF Register, Leave, Exit, FinishFails, SchedulePick, ScheduleFails, RebalanceWake,
       RebalanceBegin, DB!Begin, ServerRestart, tableVars, vars
  <1> QED
    BY <1>1, <1>2, <1>3, <1>4, <1>5, <1>6 DEF Next, WorkerNext, ServerNext

\* Server, workers and scheduling calls together keep what the job table
\* promises: hand-outs, outcomes, inserts and rebalances are one step each.
THEOREM TheSystemKeepsTheTable == ASSUME IsFiniteSet(Jobs) PROVE Spec => DB!ImplementsJobTable
  <1>1. Init => DB!Table!Init
    BY DEF Init, DB!NoRow, DB!Table!Init
  <1>2. IInv /\ [Next]_vars => [DB!Table!Next]_rows
    BY StepMaps
  <1> QED
    BY <1>1, <1>2, Invariance, PTL DEF Spec, DB!ImplementsJobTable, DB!Table!Spec

\* A job that was recorded as run is never handed out again: not by a restart,
\* a rebalance or a worker that goes on with a copy.
THEOREM FinishedIsFinal == ASSUME IsFiniteSet(Jobs) PROVE Spec => DB!FinishedNeverReopened
  <1>1. DB!Table!Next <=> S!Table!Next
    BY DEF DB!Table!Next, S!Table!Next, DB!Table!Insert, S!Table!Insert,
       DB!Table!Complete, S!Table!Complete, DB!Table!Finished, S!Table!Finished,
       DB!Table!HandOut, S!Table!HandOut, DB!Table!Rebalance, S!Table!Rebalance,
       DB!Table!Moves, S!Table!Moves, DB!Table!Live, S!Table!Live,
       DB!Table!PartIds, S!Table!PartIds
  <1>2. IInv /\ [Next]_vars =>
          [\A j \in Jobs : rows[j].status \in DB!Finished
                             => rows'[j].status \in DB!Finished]_rows
    <2> SUFFICES ASSUME IInv, [Next]_vars, NEW j \in Jobs, rows[j].status \in DB!Finished
                 PROVE  rows'[j].status \in DB!Finished
      OBVIOUS
    <2>1. [S!Table!Next]_rows
      BY <1>1, StepMaps
    <2>2. rows \in [Jobs -> S!Rows]
      BY DEF IInv, S!TableInv
    <2> QED
      BY <2>1, <2>2, SameAssumptions, S!TableKeepsFinished DEF DB!Finished, S!Finished
  <1> QED
    BY <1>2, Invariance, PTL DEF Spec, DB!FinishedNeverReopened

-----------------------------------------------------------------------------
(* Types.                                                                  *)

\* The registry's flags and the processes.
Flags == owed \in BOOLEAN /\ rbPc \in {"begin", "tx", "idle"}
Processes ==
  /\ proc \in [Names -> {"new", "up", "gone"}]
  /\ part \in [Names -> 0..MaxPnum]
  /\ restarts \in 0..MaxRestarts

\* The registry's flags are set by the server only.
LEMMA FlagTypes == ASSUME Flags, [Next]_vars PROVE Flags'
  <1>1. ASSUME NEW n \in Names, Register(n) \/ Leave(n) PROVE Flags'
    BY <1>1, Zenon DEF Flags, Register, Server!Join, Server!Enter, Leave, Server!Leave,
       Server!Remove
  <1>2. ASSUME NEW n \in Names,
               \/ Exit(n)
               \/ \E T \in SUBSET Jobs : Select(n, T)
               \/ \E j \in Jobs : FinishFails(n, j) \/ \E o \in DB!Finished : Finish(n, j, o)
        PROVE  Flags'
    BY <1>2, Zenon DEF Flags, memberVars, Exit, Select, FinishFails, Finish
  <1>3. ASSUME NEW c \in Calls,
               \/ SchedulePick(c) \/ ScheduleFails(c)
               \/ \E j \in Jobs : ScheduleInsert(c, j)
        PROVE  Flags'
    BY <1>3, Zenon DEF Flags, SchedulePick, Server!SchedulePick, ScheduleInsert, ScheduleFails,
       Server!ScheduleReturn
  <1>4. ASSUME \/ RebalanceWake \/ RebalanceBegin \/ RebalanceStatement \/ RebalanceCommit
               \/ ServerRestart
        PROVE  Flags'
    BY <1>4, Zenon DEF Flags, RebalanceWake, Server!Wake, RebalanceBegin, Server!Snapshot,
       RebalanceStatement, RebalanceCommit, Server!Commit, ServerRestart, Server!Restart
  <1>5. UNCHANGED vars => Flags'
    BY Zenon DEF Flags, vars, memberVars
  <1> QED
    BY <1>1, <1>2, <1>3, <1>4, <1>5 DEF Next, WorkerNext, ServerNext

\* A worker is told the number that its registration drew.
LEMMA ProcessTypes == ASSUME MemberTypes, Processes, [Next]_vars PROVE Processes'
  <1>1. ASSUME NEW n \in Names, Register(n) PROVE Processes'
    <2>1. /\ proc' = [proc EXCEPT ![n] = "up"] /\ part' = [part EXCEPT ![n] = pnum']
          /\ restarts' = restarts
      BY <1>1 DEF Register
    <2>2. pnum' \in 0..MaxPnum
      BY <1>1, ChangeStep DEF MemberTypes
    <2> QED
      BY <2>1, <2>2 DEF Processes
  <1>2. ASSUME NEW n \in Names, Exit(n) PROVE Processes'
    BY <1>2 DEF Exit, Processes
  <1>3. ASSUME ServerRestart PROVE Processes'
    BY <1>3, HermesAssumption DEF ServerRestart, workerVars, Processes
  <1>4. ASSUME \/ \E n \in Names : \/ Leave(n)
                                   \/ \E T \in SUBSET Jobs : Select(n, T)
                                   \/ \E j \in Jobs : \/ FinishFails(n, j)
                                                      \/ \E o \in DB!Finished : Finish(n, j, o)
               \/ \E c \in Calls : \/ SchedulePick(c) \/ ScheduleFails(c)
                                   \/ \E j \in Jobs : ScheduleInsert(c, j)
               \/ RebalanceWake \/ RebalanceBegin \/ RebalanceStatement \/ RebalanceCommit
               \/ UNCHANGED vars
        PROVE  UNCHANGED <<proc, part, restarts>>
    BY <1>4 DEF Leave, Select, FinishFails, Finish, SchedulePick, ScheduleFails, ScheduleInsert,
       RebalanceWake, RebalanceBegin, RebalanceStatement, RebalanceCommit, vars, workerVars
  <1>5. UNCHANGED <<proc, part, restarts>> => Processes'
    BY DEF Processes
  <1> QED
    BY <1>1, <1>2, <1>3, <1>4, <1>5 DEF Next, WorkerNext, ServerNext

\* The bound on the copies is kept by every step.
LEMMA NextCopies ==
  ASSUME IsFiniteSet(Jobs), IsFiniteSet(Names), IInv, Copies, [Next]_vars
  PROVE  Copies'
  <1>1. CASE \E n \in Names, T \in SUBSET Jobs : Select(n, T)
    BY <1>1, SelectCopies DEF IInv
  <1>2. CASE \/ \E n \in Names : \/ Register(n) \/ Leave(n) \/ Exit(n)
                                 \/ \E j \in Jobs : \/ FinishFails(n, j)
                                                    \/ \E o \in DB!Finished : Finish(n, j, o)
             \/ \E c \in Calls : \/ SchedulePick(c) \/ ScheduleFails(c)
                                 \/ \E j \in Jobs : ScheduleInsert(c, j)
             \/ RebalanceWake \/ RebalanceBegin \/ (RebalanceStatement /\ UNCHANGED rows)
             \/ RebalanceCommit \/ ServerRestart \/ UNCHANGED vars
    <2>1. S!TableInv /\ HeldTypes /\ FreshUnheld /\ SharedOnlyAfterRequeue
      BY DEF IInv
    <2>2. HeldTypes' /\ \A n \in Names, j \in Jobs : held'[n][j] <= held[n][j]
      BY <1>2, <2>1, OthersHeld, Zenon
    <2> QED
      BY <1>2, <2>1, <2>2, OthersCopies, Zenon
  <1>3. RebalanceStatement => RebalanceStatement /\ UNCHANGED rows
    BY StatementStep DEF IInv
  <1> QED
    BY <1>1, <1>2, <1>3 DEF Next, WorkerNext, ServerNext

\* Every variable has its type: among others, no job has more copies and
\* executions than the model's bound.
THEOREM TypeCorrect ==
  ASSUME IsFiniteSet(Jobs), IsFiniteSet(Names) PROVE Spec => []TypeOK
  <1> DEFINE Typed == Copies /\ Flags /\ Processes
  <1>1. Init => Typed
    <2>1. Init => Flags
      BY Zenon DEF Init, Server!Init, Flags
    <2>2. Init => Processes
      BY HermesAssumption DEF Init, Processes
    <2>3. ASSUME Init PROVE Copies
      <3>1. /\ held = [n \in Names |-> [j \in Jobs |-> 0]] /\ requeued = {}
            /\ executions = [j \in Jobs |-> 0]
        BY <2>3 DEF Init
      <3>2. HeldBounded
        BY <3>1, HermesAssumption DEF HeldBounded
      <3>3. ASSUME NEW j \in Jobs PROVE Out[j] = 0
        <4>1. CopiesOf(j) = {}
          BY <3>1 DEF CopiesOf
        <4> QED
          BY <4>1, OutCounts, FS_EmptySet
      <3>4. \A j \in Jobs : executions[j] = 0
        BY <3>1
      <3> QED
        BY <3>1, <3>2, <3>3, <3>4, HermesAssumption DEF Copies
    <2> QED
      BY <2>1, <2>2, <2>3
  <1>2. IInv /\ Typed /\ [Next]_vars => Typed'
    BY NextCopies, FlagTypes, ProcessTypes DEF IInv
  <1>3. IInv /\ Typed => TypeOK
    <2> SUFFICES ASSUME IInv, Copies, Flags, Processes PROVE TypeOK
      OBVIOUS
    <2>1. DB!TypeOK
      <3>1. \A j \in Jobs : Out[j] \in 0..MaxOut /\ executions[j] \in 0..MaxOut
        <4>1. \A j \in Jobs : /\ Out[j] \in Nat /\ executions[j] \in Nat
                              /\ Out[j] + executions[j] <= MaxOut
          BY OutCounts DEF Copies
        <4> QED
          BY <4>1, HermesAssumption
      <3>2. Out \in [Jobs -> 0..MaxOut] /\ executions \in [Jobs -> 0..MaxOut]
        BY <3>1 DEF Copies, Out
      <3>3. S!TypeOK
        BY <3>2 DEF IInv, S!TableInv, S!Tx, S!TxTypes, S!TypeOK, Copies
      <3> QED
        BY <3>3 DEF DB!TypeOK, S!TypeOK, DB!Rows, S!Rows, DB!Live, S!Live, DB!Finished,
           S!Finished, DB!PartIds, S!PartIds
    <2>2. /\ registry \in [Names -> 0..MaxPnum] /\ pnum \in 0..MaxPnum
          /\ readers \in SUBSET Calls /\ picked \in [Calls -> 0..MaxPnum]
          /\ held \in [Names -> [Jobs -> 0..MaxOut]]
      BY DEF IInv, MemberTypes, Copies, HeldBounded
    <2> QED
      BY <2>1, <2>2, Zenon DEF TypeOK, Flags, Processes
  <1> HIDE DEF Typed
  <1> QED
    BY <1>1, <1>2, <1>3, Invariance, PTL DEF Spec
=============================================================================
