------------------------------ MODULE LogFile --------------------------------
(***************************************************************************)
(* src/src/logger/LogFile.cc with FileUtil: log lines go to a file that is *)
(* replaced when it is too long and when a new day has begun.              *)
(*                                                                         *)
(* Time is in seconds.  A file name is basename, the second the file was   *)
(* opened in and ".log", so it is modelled by that second (local time is   *)
(* taken never to be set back).  append() and flush() are atomic: they     *)
(* hold mutex_, or one thread alone calls them; the two readings of the    *)
(* clock in one append() are one.                                          *)
(***************************************************************************)
EXTENDS Naturals, Sequences

CONSTANTS
  rollSize_, flushInterval_, checkEveryN_,
  kRollPerSeconds_,    \* the length of a day
  LineLens,            \* the lengths of a log line
  StartTime, MaxTime,  \* the clock goes from one to the other
  MaxLines             \* bound on the calls of append()

ASSUME LogFileAssumption ==
  /\ {rollSize_, flushInterval_, checkEveryN_, kRollPerSeconds_} \subseteq Nat \ {0}
  /\ LineLens \subseteq Nat \ {0}
  /\ StartTime \in Nat \ {0} /\ MaxTime \in Nat /\ MaxLines \in Nat

VARIABLES
  now,
  count_, startOfPeriod_, lastRoll_, lastFlush_,
  files,          \* the names of the files opened so far
  writtenBytes_,  \* of the current file
  buffered,       \* lines of the current file that are not flushed
  stale,          \* lines of the current file appended on a later day than its own
  lines           \* calls of append() so far

vars == <<now, count_, startOfPeriod_, lastRoll_, lastFlush_, files, writtenBytes_, buffered, stale, lines>>

Period(t) == (t \div kRollPerSeconds_) * kRollPerSeconds_

-----------------------------------------------------------------------------
(* rollFile, when the current file has come to these bytes, n lines not    *)
(* flushed and m stale ones.  Closing the old FileUtil flushes it.         *)
MayRoll_AnyTime == TRUE

MayRoll == now > lastRoll_

rollFile(bytes, n, m) ==
  IF MayRoll
    THEN /\ lastRoll_' = now
         /\ lastFlush_' = now
         /\ startOfPeriod_' = Period(now)
         /\ files' = Append(files, now)
         /\ writtenBytes_' = 0 /\ buffered' = 0 /\ stale' = 0
    ELSE /\ writtenBytes_' = bytes /\ buffered' = n /\ stale' = m
         /\ UNCHANGED <<lastRoll_, lastFlush_, startOfPeriod_, files>>

(* append_unlocked.  Every checkEveryN_ lines the clock is looked at. *)
TooLong(bytes) == bytes > rollSize_

CheckDue_OneLater == count_ + 1 > checkEveryN_

CheckDue == count_ + 1 >= checkEveryN_

append(len) ==
  LET bytes == writtenBytes_ + len
      n     == buffered + 1
      m     == IF Period(now) > startOfPeriod_ THEN stale + 1 ELSE stale
      check == ~TooLong(bytes) /\ CheckDue
      late  == now - lastFlush_ > flushInterval_
  IN /\ lines < MaxLines
     /\ lines' = lines + 1
     /\ count_' = IF TooLong(bytes) THEN count_ ELSE IF CheckDue THEN 0 ELSE count_ + 1
     /\ IF TooLong(bytes) \/ (check /\ Period(now) > startOfPeriod_)
          THEN rollFile(bytes, n, m)
          ELSE /\ writtenBytes_' = bytes /\ stale' = m
               /\ buffered' = IF check /\ late THEN 0 ELSE n
               /\ lastFlush_' = IF check /\ late THEN now ELSE lastFlush_
               /\ UNCHANGED <<lastRoll_, startOfPeriod_, files>>
     /\ UNCHANGED now

flush ==
  /\ buffered' = 0
  /\ UNCHANGED <<now, count_, startOfPeriod_, lastRoll_, lastFlush_, files, writtenBytes_, stale, lines>>

Tick ==
  /\ now < MaxTime
  /\ now' = now + 1
  /\ UNCHANGED <<count_, startOfPeriod_, lastRoll_, lastFlush_, files, writtenBytes_, buffered, stale, lines>>

(* The constructor has called rollFile. *)
Init ==
  /\ now = StartTime
  /\ count_ = 0
  /\ startOfPeriod_ = Period(StartTime)
  /\ lastRoll_ = StartTime
  /\ lastFlush_ = StartTime
  /\ files = <<StartTime>>
  /\ writtenBytes_ = 0 /\ buffered = 0 /\ stale = 0
  /\ lines = 0

Next == (\E len \in LineLens : append(len)) \/ flush \/ Tick

Spec == Init /\ [][Next]_vars

-----------------------------------------------------------------------------
(* The type of the state. *)
TypeOK ==
  /\ {now, startOfPeriod_, lastRoll_, lastFlush_, writtenBytes_} \subseteq Nat
  /\ count_ \in 0..(checkEveryN_ - 1)
  /\ files \in Seq(Nat)
  /\ {buffered, stale} \subseteq 0..MaxLines
  /\ lines \in 0..MaxLines

(* No file is opened twice: two rolls in one second would give one name,   *)
(* and the second FileUtil would append to the file of the first.          *)
NamesDiffer == \A i, j \in 1..Len(files) : i < j => files[i] < files[j]

(* A file that is too long is kept only within the second it was opened    *)
(* in: at the first append of any later second it is replaced.             *)
LongOnlyForASecond ==
  [][writtenBytes_' > rollSize_ /\ lines' # lines => lastRoll_ = now]_vars

(* The file of an earlier day is replaced after at most checkEveryN_ lines *)
(* of the new one (the last of them is not counted: it makes the roll),    *)
(* although files replaced for their length leave count_ where it was.     *)
NewDayNewFile == stale < checkEveryN_
=============================================================================
