------------------------------ MODULE TaskQueue ------------------------------
(***************************************************************************)
(* What an EventLoop promises to the threads that hand it work, without    *)
(* its vectors, flags and eventfd: one queue whose tasks are run one at a  *)
(* time, in the order in which they were queued, until the queue is        *)
(* closed.  A task its own thread asks for may also be run on the spot.    *)
(***************************************************************************)
EXTENDS Sequences, Functions

CONSTANT Tasks

VARIABLES
  queue,   \* tasks waiting, oldest first
  ran,     \* tasks taken from the queue and run, in order
  spot,    \* tasks run on the spot
  closed   \* nothing is run any more

vars == <<queue, ran, spot, closed>>

Known == Range(queue) \cup Range(ran) \cup spot

Init ==
  /\ queue = <<>>
  /\ ran = <<>>
  /\ spot = {}
  /\ closed = FALSE

Enqueue(f) ==
  /\ f \notin Known
  /\ queue' = Append(queue, f)
  /\ UNCHANGED <<ran, spot, closed>>

RunHere(f) ==
  /\ ~closed
  /\ f \notin Known
  /\ spot' = spot \cup {f}
  /\ UNCHANGED <<queue, ran, closed>>

RunOldest ==
  /\ ~closed
  /\ queue # <<>>
  /\ ran' = Append(ran, Head(queue))
  /\ queue' = Tail(queue)
  /\ UNCHANGED <<spot, closed>>

Close ==
  /\ ~closed
  /\ closed' = TRUE
  /\ UNCHANGED <<queue, ran, spot>>

Next ==
  \/ \E f \in Tasks : Enqueue(f) \/ RunHere(f)
  \/ RunOldest
  \/ Close

Spec == Init /\ [][Next]_vars
=============================================================================
