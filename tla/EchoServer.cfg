\* Two workers and two requests; a spare descriptor and one more, of which
\* other threads may take any at any time, so that accept runs out of them
\* and the spare one may be lost.
SPECIFICATION FairSpec
CONSTANTS
  Workers = {w1, w2}
  total = 2
  messageSize = 2
  Conns <- Requests
  Slots = {1, 2}
  MaxOpens = 1
  LogKeepsErrno = FALSE
  Backlog = 2
  Free = free
  Idle = idle
  File = file
CHECK_DEADLOCK FALSE
INVARIANTS IdleFdOwned EveryRequestCounted ShortOnlyIfSplit
PROPERTIES BacklogAnswered DescriptorsReturn
