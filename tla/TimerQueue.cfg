\* The loop's callbacks and another thread add and cancel timers.
SPECIFICATION FairSpec
CONSTANTS
  Users = {u1}
  Ptrs = {p1, p2}
  MaxTimers = 2
  MaxDelay = 2
  MaxPending = 2
INVARIANTS OneOwner ArmedForEarliest CancelledStaysOut
PROPERTY EveryTimerFires
