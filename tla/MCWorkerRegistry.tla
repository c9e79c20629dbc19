-------------------------- MODULE MCWorkerRegistry --------------------------
(* Small instances of WorkerRegistry for TLC. *)
EXTENDS WorkerRegistry
=============================================================================
