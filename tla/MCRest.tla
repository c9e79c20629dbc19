------------------------------- MODULE MCRest -------------------------------
(* Two requests at a time for TLC. *)
EXTENDS Rest
=============================================================================
