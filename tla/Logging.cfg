\* A LogStream of 20 bytes with numbers of at most 6, lines of 10 to 19 bytes
\* and AsyncLogging buffers of 21: two short lines or a long one in each.
SPECIFICATION FairLogSpec
CONSTANTS
  w1 = w1
  w2 = w2
  Writers = {w1, w2}
  Loads <- Workloads
  SIZE = 20
  kMaxNumericSize = 6
  IntMin <- Min8
  UIntMax = 255
  BufSize = 21
  LineLens <- Lens
  MaxLines = 6
  MayStop = TRUE
  Null = null
CHECK_DEADLOCK FALSE
INVARIANTS LinesInOrder EnoughToRecycle EndsOrFull NumbersReadBack FatalLineShown
PROPERTIES EveryLineFlushed StopReturns
