------------------------------ MODULE MCWorker ------------------------------
(* A small worker for TLC. *)
EXTENDS Worker
=============================================================================
