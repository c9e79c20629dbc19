------------------------------ MODULE MCHermes ------------------------------
(* Small instances of Hermes for TLC. *)
EXTENDS Hermes, TLC

\* Workers and jobs are interchangeable; used by safety runs only.
Symmetry == Permutations(Names) \cup Permutations(Jobs)
=============================================================================
