\* Two workers and a caller; tasks call run() as well, one of them throws, and
\* the pool is stopped at any point.  The queue is unlimited, or has one place.
SPECIFICATION FairSpec
CONSTANTS
  Workers = {w1, w2}
  Callers = {c1}
  Tasks = {k1, k2, k3, k4}
  Throwing = {k1}
  QueueSizes = {0, 1}
CHECK_DEADLOCK FALSE
PROPERTIES TakenInOrder StopReturns QueuedIsTaken RunReturns
