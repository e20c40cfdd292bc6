\* quit() before loop().
CONSTANTS
  Loop = loop
  Callers = {c1}
  Functors = {f1, f2}
  IoChannels = {io1}
  WakeupChannel = wakeup
  EventfdMax = 2
  Idle = idle
SPECIFICATION FairSpec
CHECK_DEADLOCK FALSE
PROPERTY QuitAlwaysStopsLoop
