---------------------------- MODULE AsyncLogging -----------------------------
(***************************************************************************)
(* src/src/logger/AsyncLogging.{h,cc} with FixedBuffer: threads append log *)
(* lines to currentBuffer_ under mutex_; the back-end thread takes the     *)
(* buffers, writes them to the file without mutex_, and gives two of them  *)
(* back.                                                                   *)
(*                                                                         *)
(* A log line is its number in the order of the calls of append().  A      *)
(* buffer is the lines in it and the bytes used; a unique_ptr that has     *)
(* been moved from is Null.                                                *)
(***************************************************************************)
EXTENDS Naturals, Sequences

CONSTANTS
  BufSize,    \* kLargeBuffer
  LineLens,   \* the lengths of a log line
  MaxLines,   \* bound on the calls of append()
  MayStop,    \* whether stop() is ever called
  Null

ASSUME LoggingAssumption ==
  /\ BufSize \in Nat \ {0} /\ MaxLines \in Nat
  /\ LineLens \subseteq 1..(BufSize - 1)   \* a LogStream holds far less than a buffer
  /\ Null \notin [lines : Seq(Nat), used : Nat]

VARIABLES
  running_, currentBuffer_, nextBuffer_, buffers_,
  pc,                                     \* of threadFunc
  newBuffer1, newBuffer2, buffersToWrite, \* its locals
  written,     \* the lines given to the LogFile
  flushed,     \* how many of them were there at its last flush
  owner,       \* the thread that calls start() and stop()
  lines        \* calls of append() so far

front == <<currentBuffer_, nextBuffer_, buffers_>>
back  == <<newBuffer1, newBuffer2, buffersToWrite, written, flushed>>
vars  == <<running_, front, pc, back, owner, lines>>

NewBuffer == [lines |-> <<>>, used |-> 0]

avail(b) == BufSize - b.used

(* FixedBuffer::append does nothing when there is no room. *)
BufferAppend(b, n, len) ==
  IF avail(b) > len THEN [lines |-> Append(b.lines, n), used |-> b.used + len] ELSE b

(* The lines of buffers, one buffer after another. *)
LinesOf(bs) ==
  LET upTo[i \in 0..Len(bs)] == IF i = 0 THEN <<>> ELSE upTo[i - 1] \o bs[i].lines
  IN upTo[Len(bs)]

-----------------------------------------------------------------------------
(* append() in any thread.  notify_one ends a wait_for. *)
Woken == IF pc = "waiting" THEN "collect" ELSE pc

AppendFits(len) ==
  /\ avail(currentBuffer_) > len
  /\ currentBuffer_' = BufferAppend(currentBuffer_, lines + 1, len)
  /\ UNCHANGED <<nextBuffer_, buffers_, pc>>

NextCurrent == IF nextBuffer_ # Null THEN nextBuffer_ ELSE NewBuffer

AppendSpills(len) ==
  /\ avail(currentBuffer_) <= len
  /\ buffers_' = Append(buffers_, currentBuffer_)
  /\ currentBuffer_' = BufferAppend(NextCurrent, lines + 1, len)
  /\ nextBuffer_' = Null
  /\ pc' = Woken

append(len) ==
  /\ lines < MaxLines
  /\ lines' = lines + 1
  /\ AppendFits(len) \/ AppendSpills(len)
  /\ UNCHANGED <<running_, back, owner>>

-----------------------------------------------------------------------------
(* threadFunc *)
TestRunning ==
  /\ pc = "test"
  /\ pc' = IF running_ THEN "lock" ELSE "end"
  /\ UNCHANGED <<running_, front, back, owner, lines>>

(* With mutex_: no full buffer, so it is given back for wait_for. *)
Wait ==
  /\ pc = "lock"
  /\ buffers_ = <<>>
  /\ pc' = "waiting"
  /\ UNCHANGED <<running_, front, back, owner, lines>>

(* flushInterval_ has passed, or the wait ends for no reason. *)
Timeout_Never == FALSE

Timeout ==
  /\ pc = "waiting"
  /\ pc' = "collect"
  /\ UNCHANGED <<running_, front, back, owner, lines>>

(* The rest of the critical section, at once or after the wait. *)
NextIsDue_Always == TRUE

NextIsDue == nextBuffer_ = Null

Collect ==
  /\ pc = "collect" \/ (pc = "lock" /\ buffers_ # <<>>)
  /\ buffersToWrite' = Append(buffers_, currentBuffer_)
  /\ buffers_' = <<>>
  /\ currentBuffer_' = newBuffer1
  /\ newBuffer1' = Null
  /\ nextBuffer_' = IF NextIsDue THEN newBuffer2 ELSE nextBuffer_
  /\ newBuffer2' = IF NextIsDue THEN Null ELSE newBuffer2
  /\ pc' = "write"
  /\ UNCHANGED <<running_, written, flushed, owner, lines>>

Write ==
  /\ pc = "write"
  /\ written' = written \o LinesOf(buffersToWrite)
  /\ pc' = "recycle"
  /\ UNCHANGED <<running_, front, newBuffer1, newBuffer2, buffersToWrite, flushed, owner, lines>>

(* resize(2), then each missing spare buffer is the last one left, reset;  *)
(* back() needs one to be left.                                            *)
reset_NoEffect(b) == b

reset(b) == NewBuffer

Missing == (IF newBuffer1 = Null THEN 1 ELSE 0) + (IF newBuffer2 = Null THEN 1 ELSE 0)

Recycle ==
  LET kept     == IF Len(buffersToWrite) > 2 THEN 2 ELSE Len(buffersToWrite)
      spare(i) == reset(buffersToWrite[kept + 1 - i])
  IN /\ pc = "recycle"
     /\ kept >= Missing
     /\ newBuffer1' = IF newBuffer1 = Null THEN spare(1) ELSE newBuffer1
     /\ newBuffer2' = IF newBuffer2 = Null THEN spare(Missing) ELSE newBuffer2
     /\ buffersToWrite' = <<>>
     /\ flushed' = Len(written)
     /\ pc' = "test"
     /\ UNCHANGED <<running_, front, written, owner, lines>>

End ==
  /\ pc = "end"
  /\ flushed' = Len(written)
  /\ pc' = "done"
  /\ UNCHANGED <<running_, front, newBuffer1, newBuffer2, buffersToWrite, written, owner, lines>>

-----------------------------------------------------------------------------
(* start(), and stop(): the store, notify_one without mutex_, the join.    *)
Start ==
  /\ owner = "new" /\ pc = "new"
  /\ owner' = "started"
  /\ running_' = TRUE
  /\ pc' = "test"
  /\ UNCHANGED <<front, back, lines>>

Stop ==
  /\ MayStop
  /\ owner = "started"
  /\ owner' = "notify"
  /\ running_' = FALSE
  /\ UNCHANGED <<front, pc, back, lines>>

StopNotify ==
  /\ owner = "notify"
  /\ owner' = "join"
  /\ pc' = Woken
  /\ UNCHANGED <<running_, front, back, lines>>

Join ==
  /\ owner = "join"
  /\ pc = "done"
  /\ owner' = "stopped"
  /\ UNCHANGED <<running_, front, pc, back, lines>>

Init ==
  /\ running_ = FALSE
  /\ currentBuffer_ = NewBuffer
  /\ nextBuffer_ = NewBuffer
  /\ buffers_ = <<>>
  /\ pc = "new"
  /\ newBuffer1 = NewBuffer
  /\ newBuffer2 = NewBuffer
  /\ buffersToWrite = <<>>
  /\ written = <<>>
  /\ flushed = 0
  /\ owner = "new"
  /\ lines = 0

BackStep == TestRunning \/ Wait \/ Timeout \/ Collect \/ Write \/ Recycle \/ End

Next ==
  \/ \E len \in LineLens : append(len)
  \/ BackStep
  \/ Start \/ Stop \/ StopNotify \/ Join

Spec == Init /\ [][Next]_vars

(* The back-end thread is scheduled and its wait_for ends; so does the     *)
(* thread in stop().                                                       *)
FairSpec == Spec /\ WF_vars(BackStep) /\ WF_vars(StopNotify \/ Join)

-----------------------------------------------------------------------------
Buffers == [lines : Seq(1..MaxLines), used : 0..(BufSize - 1)]

(* The lines on their way, oldest first. *)
OnTheWay ==
  LinesOf((IF pc = "recycle" THEN <<>> ELSE buffersToWrite) \o Append(buffers_, currentBuffer_))

(* No line is lost, doubled or overtaken between append() and the file,    *)
(* however the buffers are swapped, moved and given back: what is written  *)
(* and what is on its way are all the lines in the order of their append.  *)
LinesInOrder == written \o OnTheWay = [i \in 1..lines |-> i]

(* threadFunc never calls back() on an empty vector, nor hands a null      *)
(* buffer to the front end: when it gives buffers back there are enough of *)
(* them, because a nextBuffer_ that was used up has left a full buffer.    *)
EnoughToRecycle ==
  /\ currentBuffer_ # Null
  /\ pc \in {"write", "recycle"} => Len(buffersToWrite) >= Missing
  /\ pc \in {"new", "test", "lock", "waiting", "collect"} => Missing = 0
  /\ nextBuffer_ = Null => buffers_ # <<>>
=============================================================================
