----------------------------- MODULE MCLogFile -------------------------------
(* Instances of LogFile for TLC. *)
EXTENDS LogFile
=============================================================================
