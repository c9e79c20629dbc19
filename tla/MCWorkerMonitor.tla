--------------------------- MODULE MCWorkerMonitor --------------------------
(* Small instances of WorkerMonitor for TLC. *)
EXTENDS WorkerMonitor, TLC

Symmetry == Permutations(Jobs)
=============================================================================
