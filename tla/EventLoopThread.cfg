\* An owner and one more caller thread, one I/O channel; the eventfd saturates
\* at 2 so that a failing wakeup() write is reached.
CONSTANTS
  Loop = loop
  Callers = {owner, c1}
  Owner = owner
  Functors = {f1, f2}
  IoChannels = {io1}
  WakeupChannel = wakeup
  EventfdMax = 2
  Idle = idle
  Null = null
SPECIFICATION FairThreadSpec
CHECK_DEADLOCK FALSE
INVARIANTS NoLostWakeup LoopOutlivesUse GoneAfterThread
PROPERTIES PromptExecution RunsInOrder StartLoopReturns DestructorEnds EarlyRunByTimeout
