------------------------------ MODULE ByteQueue ------------------------------
(***************************************************************************)
(* What Buffer promises: a queue of bytes.  "call" is the last call, with  *)
(* the bytes it brought or was given.                                      *)
(***************************************************************************)
EXTENDS Naturals, Sequences

VARIABLES contents, call

Init == contents = <<>> /\ call = [op |-> "new", bytes |-> <<>>]

Put ==
  /\ call'.op = "put"
  /\ contents' = contents \o call'.bytes

Get ==
  /\ call'.op = "get"
  /\ contents = call'.bytes \o contents'

Next == Put \/ Get

Spec == Init /\ [][Next]_<<contents, call>>
=============================================================================
