--------------------------- MODULE PipelineProofs ---------------------------
(***************************************************************************)
(* executor.start leaves nothing behind, for every number of jobs, of      *)
(* slots and of places in the channel.  Once the range loop has ended the  *)
(* channel is closed for good, and the slots that start() fills up are     *)
(* slots no goroutine holds: when it has all of them none runs.            *)
(***************************************************************************)
EXTENDS Pipeline, FiniteSetTheorems, TLAPS

\* A slot is free, in use by a job, or filled up by start().
SlotsAccounted ==
  /\ IsFiniteSet(running)
  /\ drained \in Nat
  /\ Cardinality(running) + drained <= Threads

\* Nothing comes in after the range loop; start() returns with all slots.
ClosedForGood ==
  /\ exec \in {"range", "drain", "returned"}
  /\ exec = "range" => drained = 0
  /\ exec # "range" => monitor = "stopped" /\ outc = <<>> /\ hand = NoJob
  /\ exec = "returned" => drained = Threads

IInv == SlotsAccounted /\ ClosedForGood

-----------------------------------------------------------------------------
\* A worker starts with all slots free.
LEMMA InitIInv == PipelineAssumption /\ Init => IInv
  BY FS_EmptySet DEF PipelineAssumption, Init, IInv, SlotsAccounted, ClosedForGood

\* What the monitor and its pushers do, while it runs, is no concern of start().
LEMMA MonitorStep ==
  ASSUME IInv, monitor = "runs", UNCHANGED <<exec, hand, running, drained>>
  PROVE  IInv'
  <1>1. exec = "range"
    BY DEF IInv, ClosedForGood
  <1> QED
    BY <1>1 DEF IInv, SlotsAccounted, ClosedForGood

\* Those steps are such steps.
LEMMA MonitorAlone ==
  ASSUME \/ \E S \in SUBSET Jobs : Select(S)
         \/ SelectFails
         \/ \E s \in pushers : Push(s)
  PROVE  monitor = "runs" /\ UNCHANGED <<exec, hand, running, drained>>
  BY DEF Select, Take, SelectFails, Push, SendHead, flowVars

\* The range loop receives a job, or ends.
LEMMA RangeStep == ASSUME IInv, Receive \/ RangeEnds PROVE IInv'
  BY DEF IInv, SlotsAccounted, ClosedForGood, Receive, RangeEnds, flowVars

\* A job gets a slot.
LEMMA TakeSlotStep == ASSUME IInv, PipelineAssumption, TakeSlot PROVE IInv'
  <1>1. /\ running' = running \cup {hand} /\ hand' = NoJob
        /\ UNCHANGED <<monitor, outc, exec, drained>>
        /\ exec = "range" /\ Cardinality(running) < Threads
    BY DEF TakeSlot, IInv, ClosedForGood
  <1>2. SlotsAccounted'
    <2>1. /\ IsFiniteSet(running) /\ drained = 0 /\ Threads \in Nat
          /\ Cardinality(running) \in Nat
      BY <1>1, FS_CardinalityType DEF IInv, SlotsAccounted, ClosedForGood, PipelineAssumption
    <2>2. /\ IsFiniteSet(running')
          /\ Cardinality(running') \in {Cardinality(running), Cardinality(running) + 1}
      BY <1>1, <2>1, FS_AddElement
    <2> QED
      BY <1>1, <2>1, <2>2 DEF SlotsAccounted
  <1> QED
    BY <1>1, <1>2 DEF IInv, ClosedForGood

\* Fewer jobs run: one has ended, or the process has.
LEMMA FewerRun ==
  ASSUME IInv, PipelineAssumption, running' \in SUBSET running, drained' = drained
  PROVE  SlotsAccounted'
  <1>1. /\ IsFiniteSet(running) /\ IsFiniteSet(running')
        /\ Cardinality(running) \in Nat /\ Cardinality(running') \in Nat
        /\ Cardinality(running') <= Cardinality(running)
    BY FS_Subset, FS_CardinalityType DEF IInv, SlotsAccounted
  <1> QED
    BY <1>1 DEF IInv, SlotsAccounted, PipelineAssumption

\* A job gives its slot back.
LEMMA FinishStep ==
  ASSUME IInv, PipelineAssumption, NEW j \in Jobs, Finish(j)
  PROVE  IInv'
  <1>1. running' \in SUBSET running /\ UNCHANGED <<monitor, outc, exec, hand, drained>>
    BY DEF Finish, Return
  <1> QED
    BY <1>1, FewerRun DEF IInv, ClosedForGood

\* start() takes a slot.
LEMMA DrainStep == ASSUME IInv, PipelineAssumption, Drain PROVE IInv'
  <1>1. /\ UNCHANGED <<monitor, outc, hand, running>>
        /\ exec = "drain" /\ drained' = drained + 1
        /\ exec' = IF drained' = Threads THEN "returned" ELSE "drain"
        /\ Cardinality(running) + drained < Threads
    BY DEF Drain, Fill, flowVars
  <1>2. Cardinality(running) \in Nat /\ drained \in Nat /\ Threads \in Nat
    BY FS_CardinalityType DEF IInv, SlotsAccounted, PipelineAssumption
  <1>3. SlotsAccounted'
    BY <1>1, <1>2 DEF IInv, SlotsAccounted
  <1> QED
    BY <1>1, <1>3 DEF IInv, ClosedForGood

\* The ways in which the process ends.
LEMMA ProcessStep ==
  ASSUME IInv, PipelineAssumption,
         StartReturns \/ ListenOrPingFails \/ Unregistered \/ PusherPanics \/ Kill
  PROVE  IInv'
  <1>1. /\ UNCHANGED <<monitor, exec, drained>>
        /\ outc' = outc \/ outc' = <<>>
        /\ hand' = hand \/ hand' = NoJob
        /\ running' = running \/ running' = {}
    BY DEF StartReturns, ListenOrPingFails, Unregistered, PusherPanics, Kill, Stop, flowVars
  <1>2. SlotsAccounted'
    BY <1>1, FewerRun
  <1> QED
    BY <1>1, <1>2 DEF IInv, ClosedForGood

\* Every step keeps the invariant.
LEMMA NextIInv == PipelineAssumption /\ IInv /\ [Next]_vars => IInv'
  <1>1. ASSUME IInv, UNCHANGED vars PROVE IInv'
    BY <1>1 DEF vars, flowVars, IInv, SlotsAccounted, ClosedForGood
  <1> QED
    BY <1>1, MonitorAlone, MonitorStep, RangeStep, TakeSlotStep, FinishStep, DrainStep, ProcessStep
       DEF Next

\* With all slots taken by start() none is left for a job.
LEMMA NothingInWork == ASSUME IInv, exec = "returned"
                       PROVE  outc = <<>> /\ hand = NoJob /\ running = {}
  <1>1. /\ IsFiniteSet(running) /\ Cardinality(running) \in Nat
        /\ drained = Threads /\ drained \in Nat
        /\ Cardinality(running) + drained <= Threads
    BY FS_CardinalityType DEF IInv, SlotsAccounted, ClosedForGood
  <1>2. Cardinality(running) = 0
    BY <1>1
  <1> QED
    BY <1>1, <1>2, FS_EmptySet DEF IInv, ClosedForGood

-----------------------------------------------------------------------------
\* The invariant holds throughout: executor.start returns only when the channel
\* is empty and no job is in hand or in work.
THEOREM NothingIsLeftBehind ==
  ASSUME PipelineAssumption PROVE Spec => []DrainedBeforeReturn
  <1>1. Init => IInv
    BY InitIInv
  <1>2. IInv /\ [Next]_vars => IInv'
    BY NextIInv
  <1>3. IInv => DrainedBeforeReturn
    BY NothingInWork DEF DrainedBeforeReturn
  <1> QED
    BY <1>1, <1>2, <1>3, PTL DEF Spec

-----------------------------------------------------------------------------
(* Where the jobs are.                                                     *)

\* A pusher sends jobs of one select, in order of run_at, and the jobs of one
\* select have one pusher.
PushersSorted ==
  \A s \in pushers :
    /\ s \in Seq(Jobs) /\ s # <<>>
    /\ \A i, k \in 1..Len(s) : i < k => s[i] < s[k]
    /\ \A i \in 1..Len(s) : batch[s[i]] = batch[s[1]]
PushersApart ==
  \A s, t \in pushers : batch[s[1]] = batch[t[1]] => s = t

\* The channel holds no job twice, and those of one select in order.
ChannelSorted ==
  /\ outc \in Seq(Jobs)
  /\ \A i, k \in 1..Len(outc) : i # k => outc[i] # outc[k]
  /\ \A i, k \in 1..Len(outc) :
       i < k /\ batch[outc[i]] = batch[outc[k]] => outc[i] < outc[k]

\* A job that was selected is somewhere, no other job is anywhere, and no job
\* is in two places.
Somewhere(j) == InPusher(j) \/ InChannel(j) \/ Received(j)
Placed ==
  \A j \in Jobs :
    /\ j \in Taken <=> Somewhere(j)
    /\ InPusher(j) => ~InChannel(j) /\ ~Received(j)
    /\ InChannel(j) => ~Received(j)
    /\ hand = j => j \notin running /\ j \notin ended
    /\ j \in running => j \notin ended

\* A select is named after a job of its own.
Named == \A j \in Taken : batch[j] \in Jobs /\ batch[batch[j]] = batch[j]

\* Jobs of one select keep their order from place to place.
Ordered ==
  \A j, k \in Taken :
    batch[j] = batch[k] /\ j < k =>
      /\ Received(k) => Received(j)
      /\ InChannel(k) => ~InPusher(j)

Flowing ==
  Alive => /\ PushersSorted /\ PushersApart /\ ChannelSorted
           /\ Placed /\ Named /\ Ordered

\* TypeOK without the count of the slots.
FlowTypes ==
  /\ monitor \in {"runs", "stopped"}
  /\ \A s \in pushers : s # <<>> /\ s \in Seq(Jobs)
  /\ outc \in Seq(Jobs) /\ Len(outc) <= Capacity
  /\ hand \in Jobs \cup {NoJob}
  /\ running \in SUBSET Jobs
  /\ ended \in SUBSET Jobs
  /\ process \in {"up", "unregister", "gone"}
  /\ batch \in [Jobs -> Jobs \cup {NoJob}]

FInv == FlowTypes /\ Flowing

-----------------------------------------------------------------------------
(* Sequences of jobs.                                                      *)

\* The first element and the rest.
LEMMA TailOfSeq ==
  ASSUME NEW S, NEW s \in Seq(S), s # <<>>
  PROVE  /\ Head(s) = s[1] /\ s[1] \in S /\ Len(s) \in Nat \ {0}
         /\ Tail(s) \in Seq(S) /\ Len(Tail(s)) = Len(s) - 1
         /\ \A i \in 1..(Len(s) - 1) : Tail(s)[i] = s[i + 1]
         /\ Tail(s) # <<>> <=> Len(s) > 1
  OBVIOUS

\* One more at the end.
LEMMA AppendToSeq ==
  ASSUME NEW S, NEW s \in Seq(S), NEW e \in S
  PROVE  /\ Append(s, e) \in Seq(S) /\ Len(Append(s, e)) = Len(s) + 1 /\ Len(s) \in Nat
         /\ \A i \in 1..Len(s) : Append(s, e)[i] = s[i]
         /\ Append(s, e)[Len(s) + 1] = e
  OBVIOUS

\* What is in a sequence.
LEMMA InSeq ==
  ASSUME NEW S, NEW s \in Seq(S), NEW e
  PROVE  e \in Range(s) <=> \E i \in 1..Len(s) : s[i] = e
  BY DEF Range

-----------------------------------------------------------------------------
(* The steps.                                                              *)

\* A pusher's next job goes into the channel.
LEMMA PushMoves ==
  ASSUME FInv, PipelineAssumption, NEW s \in pushers, Push(s)
  PROVE  /\ s \in Seq(Jobs) /\ s # <<>> /\ s[1] \in Jobs
         /\ \A j \in Jobs : InPusher(j)' <=> InPusher(j) /\ j # s[1]
         /\ \A j \in Jobs : InChannel(j)' <=> InChannel(j) \/ j = s[1]
         /\ UNCHANGED <<monitor, hand, running, ended, process, batch>>
  <1>1. /\ pushers' = (pushers \ {s}) \cup ({Tail(s)} \ {<<>>})
        /\ outc' = Append(outc, s[1]) /\ s \in Seq(Jobs) /\ s # <<>> /\ s[1] \in Jobs
        /\ UNCHANGED <<monitor, hand, running, ended, process, batch>>
    BY TailOfSeq DEF Push, SendHead, FInv, FlowTypes
  <1>2. Alive
    BY DEF Push, SendHead
  <1>3. PushersSorted /\ PushersApart /\ outc \in Seq(Jobs)
    BY <1>2 DEF FInv, Flowing, FlowTypes
  <1>4. \A t \in pushers : t \in Seq(Jobs)
    BY DEF FInv, FlowTypes
  <1>5. Tail(s) \in Seq(Jobs)
    BY <1>1, TailOfSeq
  <1>6. ASSUME NEW j \in Jobs, InPusher(j), j # s[1] PROVE InPusher(j)'
    <2>1. PICK t \in pushers : \E i \in 1..Len(t) : t[i] = j
      BY <1>4, <1>6, InSeq DEF InPusher
    <2>2. CASE t # s
      BY <1>1, <1>4, <2>1, <2>2, InSeq DEF InPusher
    <2>3. CASE t = s
      <3>1. PICK i \in 1..Len(s) : s[i] = j
        BY <2>1, <2>3
      <3>2. i # 1 /\ Len(s) \in Nat
        BY <1>1, <1>6, <3>1
      <3>3. i - 1 \in 1..Len(Tail(s)) /\ Tail(s)[i - 1] = j /\ Tail(s) # <<>>
        BY <1>1, <3>1, <3>2, TailOfSeq
      <3>4. j \in Range(Tail(s))
        BY <1>5, <3>3, InSeq
      <3> QED
        BY <1>1, <3>3, <3>4 DEF InPusher
    <2> QED
      BY <2>2, <2>3
  <1>7. ASSUME NEW j \in Jobs, InPusher(j)' PROVE InPusher(j) /\ j # s[1]
    <2>1. PICK t \in pushers' : j \in Range(t)
      BY <1>7 DEF InPusher
    <2>2. CASE t \in pushers /\ t # s
      <3>1. PICK i \in 1..Len(t) : t[i] = j
        BY <1>4, <2>1, <2>2, InSeq
      <3>2. batch[j] = batch[t[1]]
        BY <1>3, <2>2, <3>1 DEF PushersSorted
      <3>3. j # s[1]
        BY <1>3, <2>2, <3>2 DEF PushersApart
      <3> QED
        BY <2>1, <2>2, <3>3 DEF InPusher
    <2>3. CASE t = Tail(s)
      <3>1. PICK i \in 1..Len(Tail(s)) : Tail(s)[i] = j
        BY <1>5, <2>1, <2>3, InSeq
      <3>2. i + 1 \in 1..Len(s) /\ s[i + 1] = j /\ 1 \in 1..Len(s) /\ 1 < i + 1
        BY <1>1, <3>1, TailOfSeq
      <3>3. s[1] < j
        BY <1>3, <3>2 DEF PushersSorted
      <3>4. j \in Range(s) /\ s[1] \in Nat
        BY <1>1, <3>2, InSeq DEF PipelineAssumption
      <3> QED
        BY <3>3, <3>4 DEF InPusher
    <2> QED
      BY <1>1, <2>1, <2>2, <2>3
  <1>8. \A j \in Jobs : InChannel(j)' <=> InChannel(j) \/ j = s[1]
    <2>1. outc' \in Seq(Jobs)
      BY <1>1, <1>3, AppendToSeq
    <2>2. \A j \in Jobs : InChannel(j)' <=> \E i \in 1..Len(outc') : outc'[i] = j
      BY <2>1, InSeq DEF InChannel
    <2>3. \A j \in Jobs : InChannel(j) <=> \E i \in 1..Len(outc) : outc[i] = j
      BY <1>3, InSeq DEF InChannel
    <2>4. /\ Len(outc') = Len(outc) + 1 /\ Len(outc) \in Nat /\ outc'[Len(outc) + 1] = s[1]
          /\ \A i \in 1..Len(outc) : outc'[i] = outc[i]
      BY <1>1, <1>3, AppendToSeq
    <2> QED
      BY <2>2, <2>3, <2>4
  <1> QED
    BY <1>1, <1>6, <1>7, <1>8

\* Jobs of one select are with one pusher.
LEMMA OnePusher ==
  ASSUME FInv, PipelineAssumption, Alive, NEW s \in pushers, NEW j \in Jobs,
         InPusher(j), batch[j] = batch[s[1]]
  PROVE  j \in Range(s) /\ s[1] <= j
  <1>1. PICK t \in pushers : j \in Range(t)
    BY DEF InPusher
  <1>2. \A u \in pushers : u \in Seq(Jobs) /\ u # <<>>
    BY DEF FInv, FlowTypes
  <1>3. PICK i \in 1..Len(t) : t[i] = j
    BY <1>1, <1>2, InSeq
  <1>4. batch[j] = batch[t[1]]
    BY <1>3 DEF FInv, Flowing, PushersSorted
  <1>5. t = s
    BY <1>4 DEF FInv, Flowing, PushersApart
  <1>6. s[1] \in Nat /\ j \in Nat /\ Len(s) \in Nat
    BY <1>2, TailOfSeq DEF PipelineAssumption
  <1>7. i = 1 \/ s[1] < s[i]
    BY <1>3, <1>5, <1>6 DEF FInv, Flowing, PushersSorted
  <1> QED
    BY <1>1, <1>3, <1>5, <1>6, <1>7

\* A pusher that has sent a job is still sorted.
LEMMA PushSorts ==
  ASSUME FInv, PipelineAssumption, NEW s \in pushers, Push(s)
  PROVE  PushersSorted' /\ PushersApart'
  <1>1. /\ pushers' = (pushers \ {s}) \cup ({Tail(s)} \ {<<>>}) /\ batch' = batch
        /\ s \in Seq(Jobs) /\ s # <<>>
    BY DEF Push, SendHead, FInv, FlowTypes
  <1>2. PushersSorted /\ PushersApart
    BY DEF Push, SendHead, FInv, Flowing
  <1>3. ASSUME Tail(s) # <<>>
        PROVE  /\ Tail(s) \in Seq(Jobs)
               /\ \A i, k \in 1..Len(Tail(s)) : i < k => Tail(s)[i] < Tail(s)[k]
               /\ \A i \in 1..Len(Tail(s)) : batch[Tail(s)[i]] = batch[s[1]]
               /\ batch[Tail(s)[1]] = batch[s[1]]
    <2>1. \A i \in 1..Len(Tail(s)) : i + 1 \in 1..Len(s) /\ Tail(s)[i] = s[i + 1]
      BY <1>1, TailOfSeq
    <2>2. \A i, k \in 1..Len(Tail(s)) : i < k => i + 1 < k + 1
      BY <1>1, TailOfSeq
    <2>3. \A i, k \in 1..Len(s) : i < k => s[i] < s[k]
      BY <1>2 DEF PushersSorted
    <2>4. \A i \in 1..Len(s) : batch[s[i]] = batch[s[1]]
      BY <1>2 DEF PushersSorted
    <2>5. 1 \in 1..Len(Tail(s)) /\ Tail(s) \in Seq(Jobs)
      BY <1>1, <1>3, TailOfSeq
    <2>6. \A i, k \in 1..Len(Tail(s)) : i < k => Tail(s)[i] < Tail(s)[k]
      BY <2>1, <2>2, <2>3
    <2> QED
      BY <2>1, <2>4, <2>5, <2>6
  <1>4. PushersSorted'
    <2> SUFFICES ASSUME NEW t \in pushers'
                 PROVE  /\ t \in Seq(Jobs) /\ t # <<>>
                        /\ \A i, k \in 1..Len(t) : i < k => t[i] < t[k]
                        /\ \A i \in 1..Len(t) : batch[t[i]] = batch[t[1]]
      BY <1>1 DEF PushersSorted
    <2>1. CASE t \in pushers
      BY <1>2, <2>1 DEF PushersSorted
    <2>2. CASE t = Tail(s) /\ Tail(s) # <<>>
      BY <1>3, <2>2
    <2> QED
      BY <1>1, <2>1, <2>2
  <1>5. PushersApart'
    BY <1>1, <1>2, <1>3 DEF PushersApart
  <1> QED
    BY <1>4, <1>5

\* The channel keeps the order of a select.
LEMMA PushKeepsChannel ==
  ASSUME FInv, PipelineAssumption, NEW s \in pushers, Push(s)
  PROVE  ChannelSorted'
  <1>1. /\ outc' = Append(outc, s[1]) /\ batch' = batch
        /\ s \in Seq(Jobs) /\ s # <<>> /\ s[1] \in Jobs /\ outc \in Seq(Jobs)
    BY TailOfSeq DEF Push, SendHead, FInv, FlowTypes
  <1>2. Alive /\ ChannelSorted /\ Placed /\ Ordered
    BY DEF Push, SendHead, FInv, Flowing
  <1>3. /\ outc' \in Seq(Jobs) /\ Len(outc') = Len(outc) + 1 /\ Len(outc) \in Nat
        /\ outc'[Len(outc) + 1] = s[1]
        /\ \A i \in 1..Len(outc) : outc'[i] = outc[i]
    BY <1>1, AppendToSeq
  <1>4. InPusher(s[1])
    <2>1. s[1] \in Range(s)
      BY <1>1, TailOfSeq, InSeq
    <2> QED
      BY <2>1 DEF InPusher
  <1>5. ASSUME NEW i \in 1..Len(outc)
        PROVE  /\ outc[i] # s[1]
               /\ batch[outc[i]] = batch[s[1]] => outc[i] < s[1]
    <2>1. InChannel(outc[i]) /\ outc[i] \in Jobs
      BY <1>1, InSeq DEF InChannel
    <2>2. outc[i] # s[1]
      BY <1>2, <1>4, <2>1 DEF Placed
    <2>3. outc[i] \in Taken /\ s[1] \in Taken
      BY <1>1, <1>2, <1>4, <2>1 DEF Placed, Somewhere
    <2>4. batch[outc[i]] = batch[s[1]] => ~(s[1] < outc[i])
      BY <1>2, <1>4, <2>1, <2>3 DEF Ordered
    <2>5. outc[i] \in Nat /\ s[1] \in Nat
      BY <1>1, <2>1 DEF PipelineAssumption
    <2> QED
      BY <2>2, <2>4, <2>5
  <1>6. ASSUME NEW i \in 1..Len(outc'), NEW k \in 1..Len(outc'), i # k
        PROVE  outc'[i] # outc'[k]
    <2>1. /\ i \in 1..Len(outc) \/ i = Len(outc) + 1
          /\ k \in 1..Len(outc) \/ k = Len(outc) + 1
      BY <1>3
    <2> QED
      BY <1>2, <1>3, <1>5, <1>6, <2>1 DEF ChannelSorted
  <1>7. ASSUME NEW i \in 1..Len(outc'), NEW k \in 1..Len(outc'), i < k,
               batch[outc'[i]] = batch[outc'[k]]
        PROVE  outc'[i] < outc'[k]
    <2>1. /\ i \in 1..Len(outc)
          /\ k \in 1..Len(outc) \/ k = Len(outc) + 1
      BY <1>3, <1>7
    <2> QED
      BY <1>2, <1>3, <1>5, <1>7, <2>1 DEF ChannelSorted
  <1> QED
    BY <1>1, <1>3, <1>6, <1>7 DEF ChannelSorted

\* A job goes from its pusher into the channel.
LEMMA PushStep ==
  ASSUME FInv, PipelineAssumption, NEW s \in pushers, Push(s)
  PROVE  FInv'
  <1>1. /\ s \in Seq(Jobs) /\ s # <<>> /\ s[1] \in Jobs
        /\ \A j \in Jobs : InPusher(j)' <=> InPusher(j) /\ j # s[1]
        /\ \A j \in Jobs : InChannel(j)' <=> InChannel(j) \/ j = s[1]
        /\ UNCHANGED <<monitor, hand, running, ended, process, batch>>
    BY PushMoves
  <1>2. Alive /\ Placed /\ Named /\ Ordered
    BY DEF Push, SendHead, FInv, Flowing
  <1>3. InPusher(s[1])
    <2>1. s[1] \in Range(s)
      BY <1>1, TailOfSeq, InSeq
    <2> QED
      BY <2>1 DEF InPusher
  <1>4. Taken' = Taken /\ \A j : Received(j)' <=> Received(j)
    BY <1>1 DEF Taken, Received
  <1>5. Placed'
    BY <1>1, <1>2, <1>3, <1>4 DEF Placed, Somewhere
  <1>6. Named'
    BY <1>1, <1>2, <1>4 DEF Named
  <1>7. Ordered'
    <2> SUFFICES ASSUME NEW j \in Taken, NEW k \in Taken, batch[j] = batch[k], j < k
                 PROVE  /\ Received(k) => Received(j)
                        /\ InChannel(k)' => ~InPusher(j)'
      BY <1>1, <1>4 DEF Ordered
    <2>1. Received(k) => Received(j)
      BY <1>2 DEF Ordered
    <2>2. j \in Jobs /\ k \in Jobs
      BY DEF Taken
    <2>3. CASE k = s[1]
      BY <1>1, <1>2, <2>1, <2>2, <2>3, OnePusher DEF PipelineAssumption
    <2>4. CASE k # s[1]
      BY <1>1, <1>2, <2>1, <2>2, <2>4 DEF Ordered
    <2> QED
      BY <2>3, <2>4
  <1>8. FlowTypes'
    <2>1. /\ outc' = Append(outc, s[1]) /\ Len(outc) < Capacity /\ outc \in Seq(Jobs)
      BY <1>1, TailOfSeq DEF Push, SendHead, FInv, FlowTypes
    <2>2. outc' \in Seq(Jobs) /\ Len(outc') <= Capacity
      BY <1>1, <2>1, AppendToSeq DEF PipelineAssumption
    <2> QED
      BY <1>1, <2>2, PushSorts DEF FInv, FlowTypes, PushersSorted
  <1> QED
    BY <1>5, <1>6, <1>7, <1>8, PushSorts, PushKeepsChannel DEF FInv, Flowing

\* executor.start takes the job at the head of the channel.
LEMMA HeadStep ==
  ASSUME FInv, PipelineAssumption, Receive
  PROVE  FInv'
  <1> DEFINE h == outc[1]
  <1>1. /\ Alive /\ hand = NoJob /\ outc # <<>> /\ outc \in Seq(Jobs)
        /\ hand' = h /\ outc' = Tail(outc)
        /\ UNCHANGED <<monitor, pushers, running, ended, process, batch>>
    BY TailOfSeq DEF Receive, FInv, FlowTypes
  <1>2. /\ PushersSorted /\ PushersApart /\ ChannelSorted
        /\ Placed /\ Named /\ Ordered
    BY <1>1 DEF FInv, Flowing
  <1>3. /\ h \in Jobs /\ h # NoJob /\ Len(outc) \in Nat \ {0}
        /\ outc' \in Seq(Jobs) /\ Len(outc') = Len(outc) - 1
        /\ \A i \in 1..Len(outc') : i + 1 \in 1..Len(outc) /\ outc'[i] = outc[i + 1]
    BY <1>1, TailOfSeq DEF PipelineAssumption, NoJob
  <1>4. InChannel(h)
    BY <1>1, <1>3, InSeq DEF InChannel
  <1>5. \A j \in Jobs : InChannel(j)' <=> InChannel(j) /\ j # h
    <2>1. \A j \in Jobs : InChannel(j)' <=> \E i \in 1..Len(outc') : outc'[i] = j
      BY <1>3, InSeq DEF InChannel
    <2>2. \A j \in Jobs : InChannel(j) <=> \E i \in 1..Len(outc) : outc[i] = j
      BY <1>1, InSeq DEF InChannel
    <2>3. ASSUME NEW j \in Jobs, InChannel(j)' PROVE InChannel(j) /\ j # h
      <3>1. PICK i \in 1..Len(outc') : outc'[i] = j
        BY <2>1, <2>3
      <3>2. i + 1 \in 1..Len(outc) /\ outc[i + 1] = j /\ 1 \in 1..Len(outc) /\ i + 1 # 1
        BY <1>3, <3>1
      <3> QED
        BY <1>2, <2>2, <3>2 DEF ChannelSorted
    <2>4. ASSUME NEW j \in Jobs, InChannel(j), j # h PROVE InChannel(j)'
      <3>1. PICK i \in 1..Len(outc) : outc[i] = j
        BY <2>2, <2>4
      <3>2. i # 1
        BY <2>4, <3>1
      <3>3. i - 1 \in 1..Len(outc') /\ (i - 1) + 1 = i
        BY <1>3, <3>2
      <3>4. outc'[i - 1] = j
        BY <1>3, <3>1, <3>3
      <3> QED
        BY <2>1, <3>3, <3>4
    <2> QED
      BY <2>3, <2>4
  <1>6. \A j \in Jobs : Received(j)' <=> Received(j) \/ j = h
    BY <1>1 DEF Received, NoJob, PipelineAssumption
  <1>7. \A j : InPusher(j)' <=> InPusher(j)
    BY <1>1 DEF InPusher
  <1>8. PushersSorted' /\ PushersApart' /\ Named' /\ Taken' = Taken
    BY <1>1, <1>2 DEF PushersSorted, PushersApart, Named, Taken
  <1>9. ChannelSorted'
    <2>1. \A i, k \in 1..Len(outc') : (i < k <=> i + 1 < k + 1) /\ (i # k <=> i + 1 # k + 1)
      BY <1>3
    <2> QED
      BY <1>1, <1>2, <1>3, <2>1 DEF ChannelSorted
  <1>10. Placed'
    BY <1>1, <1>2, <1>3, <1>4, <1>5, <1>6, <1>7, <1>8 DEF Placed, Somewhere, Received
  <1>11. Ordered'
    <2> SUFFICES ASSUME NEW j \in Taken, NEW k \in Taken, batch[j] = batch[k], j < k
                 PROVE  /\ Received(k)' => Received(j)'
                        /\ InChannel(k)' => ~InPusher(j)'
      BY <1>1, <1>8 DEF Ordered
    <2>1. j \in Jobs /\ k \in Jobs
      BY DEF Taken
    <2>2. /\ Received(k) => Received(j)
          /\ InChannel(k) => ~InPusher(j)
      BY <1>2 DEF Ordered
    <2>3. CASE k = h
      <3>1. ~InPusher(j)
        BY <1>4, <2>2, <2>3
      <3>2. ~InChannel(j)
        <4> SUFFICES ASSUME InChannel(j) PROVE FALSE
          OBVIOUS
        <4>1. PICK i \in 1..Len(outc) : outc[i] = j
          BY <1>1, InSeq DEF InChannel
        <4>2. j \in Nat /\ k \in Nat
          BY <2>1 DEF PipelineAssumption
        <4>3. 1 \in 1..Len(outc) /\ 1 < i
          BY <1>3, <2>3, <4>1, <4>2
        <4>4. k < j
          BY <1>2, <2>3, <4>1, <4>3 DEF ChannelSorted
        <4> QED
          BY <4>2, <4>4
      <3> QED
        BY <1>2, <1>6, <1>5, <1>4, <2>1, <2>3, <3>1, <3>2 DEF Placed, Somewhere
    <2>4. CASE k # h
      BY <1>5, <1>6, <1>7, <2>1, <2>2, <2>4
    <2> QED
      BY <2>3, <2>4
  <1>12. FlowTypes'
    BY <1>1, <1>3 DEF FInv, FlowTypes, PipelineAssumption
  <1> QED
    BY <1>8, <1>9, <1>10, <1>11, <1>12 DEF FInv, Flowing

\* A step after which each job is where it was, or further on with the executor.
LEMMA RunStep ==
  ASSUME FInv, FlowTypes', UNCHANGED <<pushers, outc, batch>>, process' = process,
         \A j \in Jobs : Received(j)' <=> Received(j),
         \A j \in Jobs : (hand = j => j \notin running /\ j \notin ended)
                         /\ (j \in running => j \notin ended)
           => (hand' = j => j \notin running' /\ j \notin ended')
              /\ (j \in running' => j \notin ended')
  PROVE  FInv'
  <1> SUFFICES ASSUME Alive PROVE Flowing'
    BY DEF FInv, Flowing, Alive
  <1>1. /\ PushersSorted /\ PushersApart /\ ChannelSorted
        /\ Placed /\ Named /\ Ordered
    BY DEF FInv, Flowing
  <1>2. /\ PushersSorted' /\ PushersApart' /\ ChannelSorted' /\ Named' /\ Taken' = Taken
        /\ \A j : (InPusher(j)' <=> InPusher(j)) /\ (InChannel(j)' <=> InChannel(j))
    BY <1>1 DEF PushersSorted, PushersApart, ChannelSorted, Named, Taken, InPusher, InChannel
  <1>3. Placed'
    BY <1>1, <1>2 DEF Placed, Somewhere
  <1>4. Ordered'
    BY <1>1, <1>2 DEF Ordered, Taken
  <1> QED
    BY <1>2, <1>3, <1>4 DEF Flowing

\* A job gets a slot, and gives it back.
LEMMA SlotStep ==
  ASSUME FInv, PipelineAssumption, TakeSlot \/ \E j \in Jobs : Finish(j)
  PROVE  FInv'
  <1>1. /\ UNCHANGED <<monitor, pushers, outc, process, batch>>
        /\ hand \in Jobs \cup {NoJob} /\ running \in SUBSET Jobs /\ ended \in SUBSET Jobs
        /\ NoJob \notin Jobs
    BY DEF TakeSlot, Finish, Return, FInv, FlowTypes, PipelineAssumption, NoJob
  <1>2. CASE TakeSlot
    <2>1. /\ hand # NoJob /\ running' = running \cup {hand}
          /\ hand' = NoJob /\ ended' = ended
      BY <1>2 DEF TakeSlot
    <2>2. FlowTypes'
      BY <1>1, <2>1 DEF FInv, FlowTypes
    <2>3. \A j \in Jobs : Received(j)' <=> Received(j)
      BY <1>1, <2>1 DEF Received
    <2> QED
      BY <1>1, <2>1, <2>2, <2>3, RunStep
  <1>3. ASSUME NEW i \in Jobs, Finish(i) PROVE FInv'
    <2>1. /\ i \in running /\ running' = running \ {i}
          /\ hand' = hand /\ ended' = ended \cup {i}
      BY <1>3 DEF Finish, Return
    <2>2. FlowTypes'
      BY <1>1, <2>1 DEF FInv, FlowTypes
    <2>3. \A j \in Jobs : Received(j)' <=> Received(j)
      BY <1>1, <2>1 DEF Received
    <2> QED
      BY <1>1, <2>1, <2>2, <2>3, RunStep
  <1> QED
    BY <1>2, <1>3

\* A select gives jobs that were nowhere to a new pusher.
LEMMA SelectStep ==
  ASSUME FInv, PipelineAssumption, NEW S \in SUBSET Jobs, Select(S)
  PROVE  FInv'
  <1>0. PICK n \in 1..BuffSize : \E s \in [1..n -> S] :
          /\ Range(s) = S
          /\ \A i, k \in 1..n : i < k => s[i] < s[k]
          /\ Take(S, {s})
    BY DEF Select
  <1>1. PICK s \in [1..n -> S] :
          /\ Range(s) = S
          /\ \A i, k \in 1..n : i < k => s[i] < s[k]
          /\ Take(S, {s})
    BY <1>0
  <1> DEFINE b == CHOOSE i \in S : \A k \in S : i <= k
  <1>2. /\ Alive /\ S \in SUBSET (Jobs \ Taken)
        /\ pushers' = pushers \cup {s}
        /\ batch' = [j \in Jobs |-> IF j \in S THEN b ELSE batch[j]]
        /\ UNCHANGED <<monitor, outc, hand, running, ended, process>>
    BY <1>1 DEF Take
  <1>3. /\ PushersSorted /\ PushersApart /\ ChannelSorted
        /\ Placed /\ Named /\ Ordered
    BY <1>2 DEF FInv, Flowing
  <1>4. n \in Nat \ {0} /\ 1 \in 1..n
    BY DEF PipelineAssumption
  <1>5. s \in Seq(Jobs) /\ Len(s) = n /\ s # <<>> /\ DOMAIN s = 1..n
    <2>1. s \in [1..n -> Jobs]
      BY <1>1
    <2> QED
      BY <1>4, <2>1
  <1>6. \A j : j \in S <=> \E i \in 1..n : s[i] = j
    BY <1>1, <1>5 DEF Range
  <1>7. b \in S
    <2>1. \A i \in 1..n : s[1] <= s[i]
      <3> SUFFICES ASSUME NEW i \in 1..n PROVE s[1] <= s[i]
        OBVIOUS
      <3>1. s[1] \in S /\ s[i] \in S
        BY <1>1, <1>4
      <3>2. s[1] \in Nat /\ s[i] \in Nat
        BY <3>1 DEF PipelineAssumption
      <3>3. i = 1 \/ 1 < i
        BY <1>4
      <3>4. i = 1 \/ s[1] < s[i]
        BY <1>1, <1>4, <3>3
      <3> QED
        BY <3>2, <3>4
    <2>2. s[1] \in S /\ \A k \in S : s[1] <= k
      BY <1>4, <1>6, <2>1
    <2> QED
      BY <2>2
  <1> HIDE DEF b
  <1>8. /\ \A j \in S : batch'[j] = b /\ j \in Jobs /\ j \notin Taken /\ ~Somewhere(j)
        /\ \A j \in Jobs : j \notin S => batch'[j] = batch[j]
    BY <1>2, <1>3 DEF Placed
  <1>9. b \in Jobs /\ b # NoJob
    BY <1>7, <1>8 DEF PipelineAssumption, NoJob
  <1>10. \A j \in Taken : j \in Jobs /\ j \notin S /\ batch[j] # b
    <2> SUFFICES ASSUME NEW j \in Taken, batch[j] = b PROVE FALSE
      BY <1>8 DEF Taken
    <2>1. batch[b] = b
      BY <1>3 DEF Named
    <2>2. b \in Taken
      BY <1>9, <2>1 DEF Taken
    <2> QED
      BY <1>7, <1>8, <2>2
  <1>11. \A j \in Jobs : j \in Taken' <=> j \in Taken \/ j \in S
    BY <1>8, <1>9 DEF Taken
  <1>12. Taken' \subseteq Jobs
    BY DEF Taken
  <1>13. /\ \A j : InPusher(j)' <=> InPusher(j) \/ j \in S
         /\ \A j : (InChannel(j)' <=> InChannel(j)) /\ (Received(j)' <=> Received(j))
    BY <1>1, <1>2 DEF InPusher, InChannel, Received
  <1>14. Placed'
    BY <1>2, <1>3, <1>8, <1>11, <1>13 DEF Placed, Somewhere
  <1>15. Named'
    <2> SUFFICES ASSUME NEW j \in Taken'
                 PROVE  batch'[j] \in Jobs /\ batch'[batch'[j]] = batch'[j]
      BY DEF Named
    <2>1. CASE j \in S
      BY <1>7, <1>8, <1>9, <2>1
    <2>2. CASE j \notin S
      <3>1. j \in Taken /\ batch'[j] = batch[j]
        BY <1>8, <1>11, <1>12, <2>2
      <3>2. batch[j] \in Jobs /\ batch[batch[j]] = batch[j] /\ batch[j] # NoJob
        BY <1>3, <3>1 DEF Named, Taken
      <3>3. batch[j] \in Taken
        BY <3>2 DEF Taken
      <3> QED
        BY <1>8, <1>10, <3>1, <3>2, <3>3
    <2> QED
      BY <2>1, <2>2
  <1>16. \A j \in Taken' : (j \in S /\ batch'[j] = b)
                           \/ (j \in Taken /\ j \notin S /\ batch'[j] = batch[j] /\ batch[j] # b)
    BY <1>8, <1>10, <1>11, <1>12
  <1>17. Ordered'
    <2> SUFFICES ASSUME NEW j \in Taken', NEW k \in Taken', batch'[j] = batch'[k], j < k
                 PROVE  /\ Received(k) => Received(j)
                        /\ InChannel(k) => ~InPusher(j)'
      BY <1>13 DEF Ordered
    <2>1. CASE k \in S
      BY <1>8, <2>1 DEF Somewhere
    <2>2. CASE k \notin S
      <3>1. j \in Taken /\ k \in Taken /\ j \notin S /\ batch[j] = batch[k]
        BY <1>16, <2>2
      <3> QED
        BY <1>3, <1>13, <3>1 DEF Ordered
    <2> QED
      BY <2>1, <2>2
  <1>18. ASSUME NEW t \in pushers, NEW i \in 1..Len(t)
         PROVE  t[i] \in Taken /\ batch'[t[i]] = batch[t[i]] /\ batch[t[i]] # b
    <2>1. t \in Seq(Jobs)
      BY <1>3 DEF PushersSorted
    <2>2. t[i] \in Range(t) /\ t[i] \in Jobs
      BY <2>1, InSeq
    <2>3. t[i] \in Taken
      BY <1>3, <2>2 DEF Placed, Somewhere, InPusher
    <2> QED
      BY <1>8, <1>10, <2>3
  <1>19. \A t \in pushers : t \in Seq(Jobs) /\ t # <<>> /\ 1 \in 1..Len(t)
    BY <1>3, TailOfSeq DEF PushersSorted
  <1>20. \A i \in 1..n : batch'[s[i]] = b
    BY <1>6, <1>8
  <1>21. PushersSorted'
    <2> SUFFICES ASSUME NEW t \in pushers'
                 PROVE  /\ t \in Seq(Jobs) /\ t # <<>>
                        /\ \A i, k \in 1..Len(t) : i < k => t[i] < t[k]
                        /\ \A i \in 1..Len(t) : batch'[t[i]] = batch'[t[1]]
      BY DEF PushersSorted
    <2>1. CASE t \in pushers
      BY <1>3, <1>18, <1>19, <2>1 DEF PushersSorted
    <2>2. CASE t = s
      BY <1>1, <1>4, <1>5, <1>20, <2>2
    <2> QED
      BY <1>2, <2>1, <2>2
  <1>22. PushersApart'
    <2> SUFFICES ASSUME NEW t \in pushers', NEW u \in pushers', batch'[t[1]] = batch'[u[1]]
                 PROVE  t = u
      BY DEF PushersApart
    <2>1. ASSUME NEW v \in pushers'
          PROVE  \/ v = s /\ batch'[v[1]] = b
                 \/ v \in pushers /\ batch'[v[1]] = batch[v[1]] /\ batch[v[1]] # b
      <3>1. CASE v \in pushers
        BY <1>18, <1>19, <3>1
      <3>2. CASE v = s
        BY <1>4, <1>20, <3>2
      <3> QED
        BY <1>2, <3>1, <3>2
    <2> QED
      BY <1>3, <2>1 DEF PushersApart
  <1>23. ChannelSorted'
    <2>1. ASSUME NEW i \in 1..Len(outc) PROVE batch'[outc[i]] = batch[outc[i]]
      <3>1. outc[i] \in Range(outc) /\ outc[i] \in Jobs
        BY <1>3, InSeq DEF ChannelSorted
      <3>2. outc[i] \in Taken
        BY <1>3, <3>1 DEF Placed, Somewhere, InChannel
      <3> QED
        BY <1>8, <1>10, <3>2
    <2> QED
      BY <1>2, <1>3, <2>1 DEF ChannelSorted
  <1>24. FlowTypes'
    <2>1. batch' \in [Jobs -> Jobs \cup {NoJob}]
      BY <1>2, <1>9 DEF FInv, FlowTypes
    <2> QED
      BY <1>2, <1>21, <2>1 DEF FInv, FlowTypes, PushersSorted
  <1> QED
    BY <1>14, <1>15, <1>17, <1>21, <1>22, <1>23, <1>24 DEF FInv, Flowing

\* A step that moves no job, of a process that goes on.
LEMMA StillStep ==
  ASSUME FInv, UNCHANGED <<flowVars, batch>>, monitor' \in {"runs", "stopped"},
         process' = process \/ (Alive /\ process' = "unregister")
  PROVE  FInv'
  <1>1. FlowTypes' /\ (Alive' => Alive)
    BY DEF FInv, FlowTypes, Alive, flowVars
  <1>2. PushersSorted => PushersSorted'
    BY DEF PushersSorted, flowVars
  <1>3. PushersApart => PushersApart'
    BY DEF PushersApart, flowVars
  <1>4. ChannelSorted => ChannelSorted'
    BY DEF ChannelSorted, flowVars
  <1>5. /\ Taken' = Taken
        /\ \A j : /\ InPusher(j)' <=> InPusher(j)
                  /\ InChannel(j)' <=> InChannel(j)
                  /\ Received(j)' <=> Received(j)
    BY DEF Taken, InPusher, InChannel, Received, flowVars
  <1>6. Placed => Placed'
    BY <1>5 DEF Placed, Somewhere, flowVars
  <1>7. (Named => Named') /\ (Ordered => Ordered')
    BY <1>5 DEF Named, Ordered, flowVars
  <1> QED
    BY <1>1, <1>2, <1>3, <1>4, <1>6, <1>7 DEF FInv, Flowing

\* What else happens to a process.
LEMMA OtherStep ==
  ASSUME FInv, SelectFails \/ RangeEnds \/ Drain \/ StartReturns \/ ListenOrPingFails
               \/ UNCHANGED vars
  PROVE  FInv'
  <1>1. /\ UNCHANGED <<flowVars, batch>> /\ monitor' \in {monitor, "stopped"}
        /\ process' = process \/ (process = "up" /\ process' = "unregister")
    BY DEF SelectFails, RangeEnds, Drain, Fill, StartReturns, ListenOrPingFails, vars
  <1>2. monitor' \in {"runs", "stopped"} /\ (process = "up" => Alive)
    BY <1>1 DEF FInv, FlowTypes, Alive
  <1> QED
    BY <1>1, <1>2, StillStep

\* The end of the process.
LEMMA EndStep ==
  ASSUME FInv, PipelineAssumption, Unregistered \/ PusherPanics \/ Kill
  PROVE  FInv'
  <1>1. /\ process' = "gone" /\ pushers' = {} /\ outc' = <<>> /\ hand' = NoJob /\ running' = {}
        /\ UNCHANGED <<monitor, ended, batch>>
    BY DEF Unregistered, PusherPanics, Kill, Stop
  <1>2. outc' \in Seq(Jobs) /\ Len(outc') = 0
    BY <1>1
  <1>3. FlowTypes'
    BY <1>1, <1>2 DEF FInv, FlowTypes, PipelineAssumption
  <1> QED
    BY <1>1, <1>3 DEF FInv, Flowing, Alive

\* A worker starts with no job.
LEMMA InitFInv == PipelineAssumption /\ Init => FInv
  <1> SUFFICES ASSUME PipelineAssumption, Init PROVE FInv
    OBVIOUS
  <1>1. outc \in Seq(Jobs) /\ Len(outc) = 0 /\ pushers = {} /\ Taken = {}
    BY DEF Init, Taken
  <1>2. FlowTypes
    BY <1>1 DEF Init, FlowTypes, PipelineAssumption
  <1>3. PushersSorted /\ PushersApart /\ Named /\ Ordered
    BY <1>1 DEF PushersSorted, PushersApart, Named, Ordered
  <1>4. ChannelSorted
    BY <1>1 DEF ChannelSorted
  <1>5. ASSUME NEW j \in Jobs PROVE ~Somewhere(j) /\ hand # j /\ j \notin running
    <2>1. ~InChannel(j) /\ ~InPusher(j)
      <3>1. j \in Range(outc) <=> \E i \in 1..Len(outc) : outc[i] = j
        BY <1>1, InSeq
      <3> QED
        BY <1>1, <3>1 DEF InChannel, InPusher
    <2>2. hand # j /\ j \notin running /\ j \notin ended
      BY DEF Init, PipelineAssumption, NoJob
    <2> QED
      BY <2>1, <2>2 DEF Somewhere, Received
  <1>6. Placed
    BY <1>1, <1>5 DEF Placed, Somewhere
  <1> QED
    BY <1>2, <1>3, <1>4, <1>6 DEF FInv, Flowing

\* Every step keeps the jobs in their places.
LEMMA NextFInv == PipelineAssumption /\ FInv /\ [Next]_vars => FInv'
  <1> SUFFICES ASSUME PipelineAssumption, FInv, [Next]_vars PROVE FInv'
    OBVIOUS
  <1> QED
    BY SelectStep, PushStep, HeadStep, SlotStep, OtherStep, EndStep DEF Next

-----------------------------------------------------------------------------
(* The consequences.                                                       *)

\* A list of five.
LEMMA Five ==
  ASSUME NEW a, NEW b, NEW c, NEW d, NEW e
  PROVE  /\ <<a, b, c, d, e>>[1] = a /\ <<a, b, c, d, e>>[2] = b
         /\ <<a, b, c, d, e>>[3] = c /\ <<a, b, c, d, e>>[4] = d
         /\ <<a, b, c, d, e>>[5] = e
  OBVIOUS

\* Each selected job is in one place on its way.
LEMMA OnePlace == FInv => HeldInOnePlace
  <1> SUFFICES ASSUME FInv, Alive, NEW j \in Taken
               PROVE  \E i \in 1..5 : \A k \in 1..5 : Places(j)[k] <=> k = i
    BY DEF HeldInOnePlace
  <1>1. j \in Jobs /\ Placed
    BY DEF Taken, FInv, Flowing
  <1>2. /\ InPusher(j) \/ InChannel(j) \/ hand = j \/ j \in running \/ j \in ended
        /\ InPusher(j) => ~InChannel(j) /\ hand # j /\ j \notin running /\ j \notin ended
        /\ InChannel(j) => hand # j /\ j \notin running /\ j \notin ended
        /\ hand = j => j \notin running /\ j \notin ended
        /\ j \in running => j \notin ended
    BY <1>1 DEF Placed, Somewhere, Received
  <1>3. /\ Places(j)[1] = InPusher(j) /\ Places(j)[2] = InChannel(j)
        /\ Places(j)[3] = (hand = j) /\ Places(j)[4] = (j \in running)
        /\ Places(j)[5] = (j \in ended)
    BY Five, Zenon DEF Places
  <1>10. \A k \in 1..5 : k = 1 \/ k = 2 \/ k = 3 \/ k = 4 \/ k = 5
    OBVIOUS
  <1>11. 1 # 2 /\ 1 # 3 /\ 1 # 4 /\ 1 # 5 /\ 2 # 3 /\ 2 # 4 /\ 2 # 5 /\ 3 # 4 /\ 3 # 5 /\ 4 # 5
    OBVIOUS
  <1>4. 1 \in 1..5 /\ 2 \in 1..5 /\ 3 \in 1..5 /\ 4 \in 1..5 /\ 5 \in 1..5
    OBVIOUS
  <1>5. CASE InPusher(j)
    BY <1>2, <1>3, <1>4, <1>10, <1>11, <1>5, Zenon
  <1>6. CASE InChannel(j)
    BY <1>2, <1>3, <1>4, <1>10, <1>11, <1>6, Zenon
  <1>7. CASE hand = j
    BY <1>2, <1>3, <1>4, <1>10, <1>11, <1>7, Zenon
  <1>8. CASE j \in running
    BY <1>2, <1>3, <1>4, <1>10, <1>11, <1>8, Zenon
  <1>9. CASE j \in ended
    BY <1>2, <1>3, <1>4, <1>10, <1>11, <1>9, Zenon
  <1> QED
    BY <1>2, <1>5, <1>6, <1>7, <1>8, <1>9

\* Jobs of one select are received in order.
LEMMA InOrder == FInv => BatchOrder
  BY DEF FInv, Flowing, Ordered, BatchOrder

\* The parts of the type invariant are the type invariant.
LEMMA TypesTogether == PipelineAssumption /\ IInv /\ FInv => TypeOK
  <1> SUFFICES ASSUME PipelineAssumption, IInv, FInv PROVE TypeOK
    OBVIOUS
  <1>1. Cardinality(running) \in Nat /\ drained \in Nat /\ Threads \in Nat
        /\ Cardinality(running) + drained <= Threads
    BY FS_CardinalityType DEF IInv, SlotsAccounted, PipelineAssumption
  <1>2. drained \in 0..Threads
    BY <1>1
  <1> QED
    BY <1>1, <1>2 DEF IInv, ClosedForGood, FInv, FlowTypes, TypeOK

\* The places and the order hold throughout, for every number of jobs, pushers
\* and places in the channel.
THEOREM PlacesAndOrder ==
  ASSUME PipelineAssumption PROVE Spec => [](HeldInOnePlace /\ BatchOrder /\ TypeOK)
  <1>1. Init => IInv /\ FInv
    BY InitIInv, InitFInv
  <1>2. IInv /\ FInv /\ [Next]_vars => IInv' /\ FInv'
    BY NextIInv, NextFInv
  <1>3. IInv /\ FInv => HeldInOnePlace /\ BatchOrder /\ TypeOK
    BY OnePlace, InOrder, TypesTogether
  <1> QED
    BY <1>1, <1>2, <1>3, PTL DEF Spec
=============================================================================
