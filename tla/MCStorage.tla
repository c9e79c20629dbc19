------------------------------ MODULE MCStorage -----------------------------
(* Small instances of Storage for TLC. *)
EXTENDS Storage, TLC

\* Jobs are interchangeable; partitions are not used as such, since toAdd is
\* a function on a range of integers.
Symmetry == Permutations(Jobs)
=============================================================================
