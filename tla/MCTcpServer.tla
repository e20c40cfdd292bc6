----------------------------- MODULE MCTcpServer -----------------------------
(* Instances of TcpServer for TLC. *)
EXTENDS TcpServer

CONSTANTS s1, s2

TwoSubLoops == <<s1, s2>>

(* Up to two sub-loops share two connections, and the server is destroyed  *)
(* at any point.                                                           *)
Teardown == [conns |-> 2, subLoops |-> 2, users |-> {}, sends |-> 0, quits |-> TRUE]

(* Another thread sends on a connection, shuts it down and lets go of it,  *)
(* while the server serves or is being destroyed.                          *)
UserThread == [conns |-> 1, subLoops |-> 1, users |-> Users, sends |-> 1, quits |-> TRUE]

ServerLoads == {Teardown, UserThread}
UserLoads   == {[UserThread EXCEPT !.quits = FALSE]}
=============================================================================
