----------------------------- MODULE MCEchoServer -----------------------------
(* Instances of EchoServer for TLC. *)
EXTENDS EchoServer

Requests == 0..(total - 1)
=============================================================================
