------------------------------ MODULE MCLogging ------------------------------
(* Instances of Logging for TLC. *)
EXTENDS Logging

CONSTANTS w1, w2

Of(k, S) == [kind : {k}, n : S]

(* One line of one item: every int and unsigned of the width, pointers at   *)
(* the boundaries.                                                         *)
AnyLine ==
  [writers |-> {w1}, lines |-> 1, levels |-> {DEBUG, INFO}, perLine |-> 1, async |-> FALSE,
   items |-> Of("int", Ints) \cup Of("pointer", {0, 9, 10, 15, 16, UIntMax})]

(* One line that fills the LogStream, at any byte. *)
LongLine ==
  [writers |-> {w1}, lines |-> 1, levels |-> {TRACE, ERROR}, perLine |-> 4, async |-> FALSE,
   items |-> Of("text", {0, 1, 2, 3, 6}) \cup Of("double", {kMaxNumericSize - 1}) \cup Of("int", {IntMin})]

(* Short and long lines, enough to use up the buffers of AsyncLogging      *)
(* while its back end writes.                                              *)
ManyLines ==
  [writers |-> {w1}, lines |-> MaxLines, levels |-> {INFO}, perLine |-> 1, async |-> TRUE,
   items |-> Of("text", {9})]

(* Threads of which one may abort the process under the others. *)
TwoWriters ==
  [writers |-> {w1, w2}, lines |-> 3, levels |-> {INFO, FATAL}, perLine |-> 0, async |-> TRUE,
   items |-> {}]

(* An int of 8 bits. *)
Min8 == -128

Lens == 1..(SIZE - 1)

Workloads == {AnyLine, LongLine, ManyLines, TwoWriters}
=============================================================================
