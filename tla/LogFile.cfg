\* Days of three seconds, files of five bytes, a check every three lines.
SPECIFICATION Spec
CONSTANTS
  rollSize_ = 5
  flushInterval_ = 1
  checkEveryN_ = 3
  kRollPerSeconds_ = 3
  LineLens = {1, 4}
  StartTime = 2
  MaxTime = 8
  MaxLines = 8
INVARIANTS NamesDiffer NewDayNewFile
