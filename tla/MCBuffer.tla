------------------------------ MODULE MCBuffer -------------------------------
(* An instance of Buffer for TLC. *)
EXTENDS Buffer
=============================================================================
