------------------------------ MODULE Pipeline ------------------------------
(***************************************************************************)
(* A worker process from the selection of jobs to their deliveries:        *)
(* Start of internal/worker/worker.go, the pushers of monitor.go and       *)
(* executor.start of executor.go.                                          *)
(*                                                                         *)
(* Each select of the monitor starts a goroutine, a pusher, that sends the *)
(* jobs into a channel of Capacity places.  The executor receives them one *)
(* at a time and gives each to a goroutine of its own, Threads at a time.  *)
(* When a select fails the monitor closes the channel; a pusher that still *)
(* has jobs then panics, and the process ends with all it holds.           *)
(*                                                                         *)
(* Which jobs are due is left open (WorkerMonitor has the clock).  A job   *)
(* that a rebalance has put back and that is selected again counts as      *)
(* another job.                                                            *)
(***************************************************************************)
EXTENDS Integers, FiniteSets, Sequences, Functions

CONSTANTS
  Jobs,       \* jobs of the worker's partition, numbered in order of run_at
  BuffSize,   \* jobs selected at a time (100 in the code)
  Capacity,   \* places of the channel (100)
  Threads     \* executors at a time (4)

PipelineAssumption ==
  /\ Jobs \subseteq Nat \ {0}
  /\ BuffSize \in Nat \ {0} /\ Capacity \in Nat \ {0} /\ Threads \in Nat \ {0}

VARIABLES
  monitor,  \* the monitor's goroutine: "runs", or "stopped", channel closed
  pushers,  \* what each pusher has still to send, a sequence of jobs
  outc,     \* the channel
  exec,     \* executor.start: "range", "drain" or "returned"
  hand,     \* the job it has received and has no slot for yet, or NoJob
  running,  \* the jobs in a slot
  drained,  \* slots that executor.start has filled up on its way out
  ended,    \* the jobs whose process() has returned
  process,  \* the worker process: "up", "unregister" (Start has returned
            \* an error and its defer runs) or "gone"
  batch     \* history: job -> the first job of the select it came with

flowVars == <<pushers, outc, hand, running, ended>>
vars == <<monitor, flowVars, exec, drained, process, batch>>

NoJob == 0
Alive == process # "gone"

\* What the goroutines of the process hold.
InPusher(j) == \E s \in pushers : j \in Range(s)
InChannel(j) == j \in Range(outc)
Taken == {j \in Jobs : batch[j] # NoJob}

TypeOK ==
  /\ monitor \in {"runs", "stopped"}
  /\ \A s \in pushers : s # <<>> /\ s \in Seq(Jobs)
  /\ outc \in Seq(Jobs) /\ Len(outc) <= Capacity
  /\ exec \in {"range", "drain", "returned"}
  /\ hand \in Jobs \cup {NoJob}
  /\ running \in SUBSET Jobs
  /\ drained \in 0..Threads
  /\ Cardinality(running) + drained <= Threads
  /\ ended \in SUBSET Jobs
  /\ process \in {"up", "unregister", "gone"}
  /\ batch \in [Jobs -> Jobs \cup {NoJob}]

Init ==
  /\ monitor = "runs"
  /\ pushers = {}
  /\ outc = <<>>
  /\ exec = "range"
  /\ hand = NoJob
  /\ running = {}
  /\ drained = 0
  /\ ended = {}
  /\ process = "up"
  /\ batch = [j \in Jobs |-> NoJob]

-----------------------------------------------------------------------------
(* The monitor and its pushers.                                            *)

\* A select returns the jobs S, given to the pushers P.
Take(S, P) ==
  /\ Alive /\ monitor = "runs"
  /\ S \in SUBSET (Jobs \ Taken) \ {{}}
  /\ Cardinality(S) <= BuffSize
  /\ pushers' = pushers \cup P
  /\ batch' = [j \in Jobs |-> IF j \in S THEN CHOOSE i \in S : \A k \in S : i <= k
                                         ELSE batch[j]]
  /\ UNCHANGED <<monitor, outc, exec, hand, running, drained, ended, process>>

\* Faulty variant: a goroutine per job.
Select_GoroutinePerJob(S) == Take(S, {<<j>> : j \in S})

\* SelectJobsForExecution returns S in order of run_at and a goroutine starts
\* to push it.  It does not wait for the pushers of earlier selects.
Select(S) ==
  \E n \in 1..BuffSize : \E s \in [1..n -> S] :
    /\ Range(s) = S
    /\ \A i, k \in 1..n : i < k => s[i] < s[k]
    /\ Take(S, {s})

\* The select fails: the error goes to errc, the deferred calls close the
\* channel.  If it was the commit, and was carried out all the same, its jobs
\* stay Pending and nobody in this process has them: Hermes has that as a
\* Select and an Exit.
SelectFails ==
  /\ Alive /\ monitor = "runs"
  /\ monitor' = "stopped"
  /\ UNCHANGED <<flowVars, exec, drained, process, batch>>

\* A pusher goes on to its next job and the channel becomes c.
SendHead(s, c) ==
  /\ Alive /\ monitor = "runs"
  /\ s \in pushers
  /\ outc' = c
  /\ pushers' = (pushers \ {s}) \cup ({Tail(s)} \ {<<>>})
  /\ UNCHANGED <<monitor, exec, hand, running, drained, ended, process, batch>>

\* Faulty variant: a send that does not wait for room.
Push_OrDrop(s) ==
  SendHead(s, IF Len(outc) < Capacity THEN Append(outc, Head(s)) ELSE outc)

\* outc <- jobs[i]: a pusher sends its next job when there is room.
Push(s) == Len(outc) < Capacity /\ SendHead(s, Append(outc, Head(s)))

-----------------------------------------------------------------------------
(* executor.start.                                                         *)

Receive ==
  /\ Alive /\ exec = "range" /\ hand = NoJob
  /\ outc # <<>>
  /\ hand' = Head(outc)
  /\ outc' = Tail(outc)
  /\ UNCHANGED <<monitor, pushers, exec, running, drained, ended, process, batch>>

\* sem <- true, and the job's goroutine starts.
TakeSlot ==
  /\ Alive /\ hand # NoJob
  /\ Cardinality(running) < Threads
  /\ running' = running \cup {hand}
  /\ hand' = NoJob
  /\ UNCHANGED <<monitor, pushers, outc, exec, drained, ended, process, batch>>

\* process() has returned, with an error or without.
Return(j, left) ==
  /\ Alive /\ j \in running
  /\ ended' = ended \cup {j}
  /\ running' = left
  /\ UNCHANGED <<monitor, pushers, outc, exec, hand, drained, process, batch>>

\* Faulty variant: the slot is given back by nobody.
Finish_KeepsSlot(j) == j \notin ended /\ Return(j, running)

\* The deferred <-sem frees the slot.
Finish(j) == Return(j, running \ {j})

\* The channel is closed and empty: the range loop ends.
RangeEnds ==
  /\ Alive /\ exec = "range" /\ hand = NoJob
  /\ outc = <<>> /\ monitor = "stopped"
  /\ exec' = "drain"
  /\ UNCHANGED <<monitor, flowVars, drained, process, batch>>

\* One turn of the loop that takes every slot.
Fill(free) ==
  /\ Alive /\ exec = "drain"
  /\ free
  /\ drained' = drained + 1
  /\ exec' = IF drained' = Threads THEN "returned" ELSE "drain"
  /\ UNCHANGED <<monitor, flowVars, process, batch>>

\* Faulty variant: the loop does not wait for the slots in use.
Drain_NotWaiting == Fill(TRUE)

\* start() returns when it has taken all slots, after the last job gave up
\* its own.
Drain == Fill(Cardinality(running) + drained < Threads)

-----------------------------------------------------------------------------
(* The end of the process.                                                 *)

Stop ==
  /\ Alive
  /\ process' = "gone"
  /\ pushers' = {}
  /\ outc' = <<>>
  /\ hand' = NoJob
  /\ running' = {}
  /\ UNCHANGED <<monitor, exec, drained, ended, batch>>

\* Start's select gets the monitor's error, or the executor's end.
StartReturns ==
  /\ process = "up"
  /\ monitor = "stopped" \/ exec = "returned"
  /\ process' = "unregister"
  /\ UNCHANGED <<monitor, flowVars, exec, drained, batch>>

\* It gets an error of the listener or of a ping.
ListenOrPingFails ==
  /\ process = "up"
  /\ process' = "unregister"
  /\ UNCHANGED <<monitor, flowVars, exec, drained, batch>>

\* unregister has returned, answered or not; runWorker closes the database
\* and main ends.
Unregistered == process = "unregister" /\ Stop

\* A pusher sends to the closed channel.
PusherPanics == monitor = "stopped" /\ pushers # {} /\ Stop

\* The process is killed; it handles no signal.
Kill == Stop

-----------------------------------------------------------------------------
Next ==
  \/ \E S \in SUBSET Jobs : Select(S)
  \/ SelectFails
  \/ \E s \in pushers : Push(s)
  \/ Receive \/ TakeSlot \/ RangeEnds \/ Drain
  \/ \E j \in Jobs : Finish(j)
  \/ StartReturns \/ ListenOrPingFails \/ Unregistered \/ PusherPanics \/ Kill

Spec == Init /\ [][Next]_vars

-----------------------------------------------------------------------------
(* Properties.                                                             *)

Places(j) ==
  << InPusher(j), InChannel(j), hand = j, j \in running, j \in ended >>

\* While the process lives each job it has selected, Pending in the database
\* and of no use to any other worker, is in exactly one place on its way, or
\* its delivery has ended: however many pushers wait for the channel, and
\* after it was closed, none is dropped and none is delivered twice.
HeldInOnePlace ==
  Alive => \A j \in Taken : \E i \in 1..5 :
             \A k \in 1..5 : Places(j)[k] <=> k = i

\* Jobs that were selected together reach the executors in order of run_at.
\* (Those of different selects may overtake each other.)
Received(j) == hand = j \/ j \in running \/ j \in ended
BatchOrder ==
  Alive => \A j, k \in Taken :
             batch[j] = batch[k] /\ j < k /\ Received(k) => Received(j)

\* executor.start returns only when no job is left in the channel or in work:
\* what had been pushed before the channel was closed has been delivered.
DrainedBeforeReturn ==
  Alive /\ exec = "returned" => outc = <<>> /\ hand = NoJob /\ running = {}
=============================================================================
