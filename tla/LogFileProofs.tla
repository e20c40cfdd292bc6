---------------------------- MODULE LogFileProofs ----------------------------
(* When LogFile rolls, for every length of the day, of the files and of the *)
(* interval between two checks.                                             *)
EXTENDS LogFile, TLAPS

(* A later second is not on an earlier day. *)
LEMMA PeriodGrows ==
  ASSUME NEW t \in Nat PROVE Period(t) \in Nat /\ Period(t) <= Period(t + 1)
  <1> DEFINE d == kRollPerSeconds_
             q == t \div d
             p == (t + 1) \div d
  <1>1. d \in Nat \ {0}
    BY LogFileAssumption
  <1>2. q \in Nat /\ p \in Nat /\ q <= p
    BY <1>1, SMT
  <1>3. q * d \in Nat /\ p * d \in Nat /\ q * d <= p * d
    <2> HIDE DEF q, p
    <2> QED BY <1>1, <1>2, SMT
  <1> QED BY <1>3 DEF Period

(* The last file was opened at lastRoll_, in the period startOfPeriod_; a  *)
(* stale line needs a later day and a line that count_ has counted.        *)
IInv ==
  /\ {now, lastRoll_, lastFlush_, writtenBytes_} \subseteq Nat
  /\ count_ \in 0..(checkEveryN_ - 1)
  /\ lines \in 0..MaxLines
  /\ buffered \in 0..lines
  /\ stale \in 0..lines
  /\ files \in Seq(Nat) /\ files # <<>>
  /\ files[Len(files)] = lastRoll_
  /\ lastRoll_ <= now
  /\ startOfPeriod_ = Period(lastRoll_)
  /\ stale <= count_
  /\ stale > 0 => Period(now) > startOfPeriod_
  /\ NamesDiffer

(* A name later than all others can be added. *)
LEMMA NewNameDiffers ==
  ASSUME NEW fs \in Seq(Nat), fs # <<>>, NEW t \in Nat, t > fs[Len(fs)],
         \A i, j \in 1..Len(fs) : i < j => fs[i] < fs[j]
  PROVE  LET gs == Append(fs, t)
         IN /\ gs \in Seq(Nat) /\ gs # <<>> /\ gs[Len(gs)] = t
            /\ \A i, j \in 1..Len(gs) : i < j => gs[i] < gs[j]
  <1> DEFINE gs == Append(fs, t)
  <1>1. gs \in Seq(Nat) /\ Len(gs) = Len(fs) + 1 /\ gs[Len(fs) + 1] = t
    OBVIOUS
  <1>2. \A i \in 1..Len(fs) : gs[i] = fs[i] /\ fs[i] \in Nat
    OBVIOUS
  <1>3. \A i \in 1..Len(fs) : fs[i] < t
    <2> TAKE i \in 1..Len(fs)
    <2>1. Len(fs) \in 1..Len(fs) /\ fs[Len(fs)] \in Nat
      OBVIOUS
    <2>2. fs[i] = fs[Len(fs)] \/ fs[i] < fs[Len(fs)]
      BY <2>1
    <2> QED BY <1>2, <2>1, <2>2
  <1>4. ASSUME NEW i \in 1..Len(gs), NEW j \in 1..Len(gs), i < j
        PROVE  gs[i] < gs[j]
    <2>1. i \in 1..Len(fs)
      BY <1>1, <1>4
    <2>2. CASE j \in 1..Len(fs)
      BY <1>2, <1>4, <2>1, <2>2
    <2>3. CASE j = Len(fs) + 1
      BY <1>1, <1>2, <1>3, <2>1, <2>3
    <2> QED BY <1>1, <2>2, <2>3
  <1> QED BY <1>1, <1>4

(* What rollFile leaves, called with counts that fit the lines so far. *)
LEMMA RollStep ==
  ASSUME IInv, NEW bytes \in Nat, NEW n \in 0..lines', NEW m \in 0..lines',
         rollFile(bytes, n, m), now' = now,
         lines' \in 0..MaxLines, count_' \in 0..(checkEveryN_ - 1),
         ~MayRoll => m = 0
  PROVE  IInv'
  <1>1. CASE MayRoll
    <2>1. /\ files' \in Seq(Nat) /\ files' # <<>>
          /\ files'[Len(files')] = now
          /\ NamesDiffer'
      BY <1>1, NewNameDiffers DEF IInv, NamesDiffer, rollFile, MayRoll
    <2> QED BY <1>1, <2>1 DEF IInv, rollFile
  <1>2. CASE ~MayRoll
    BY <1>2 DEF IInv, rollFile, NamesDiffer
  <1> QED BY <1>1, <1>2

(* One case per way through append(). *)
LEMMA LogStep == IInv /\ [Next]_vars => IInv'
  <1> SUFFICES ASSUME IInv, [Next]_vars PROVE IInv'
    OBVIOUS
  <1> USE LogFileAssumption
  <1>0. now \in Nat /\ Period(now) \in Nat /\ Period(lastRoll_) \in Nat
    BY PeriodGrows DEF IInv
  <1>1. ASSUME NEW len \in LineLens, append(len) PROVE IInv'
    <2> DEFINE bytes == writtenBytes_ + len
               later == Period(now) > startOfPeriod_
               m     == IF later THEN stale + 1 ELSE stale
               check == ~TooLong(bytes) /\ CheckDue
               late  == now - lastFlush_ > flushInterval_
    <2>0. /\ now' = now /\ lines < MaxLines /\ lines' = lines + 1
          /\ count_' = IF TooLong(bytes) THEN count_ ELSE IF CheckDue THEN 0 ELSE count_ + 1
      BY <1>1 DEF append
    <2>a. bytes \in Nat
      BY SMTT(30) DEF IInv
    <2>b. lines' \in 0..MaxLines /\ buffered + 1 \in 0..lines' /\ m \in 0..lines'
      BY <2>0, SMTT(30) DEF IInv
    <2>1. /\ bytes \in Nat /\ now' = now
          /\ lines' = lines + 1 /\ lines' \in 0..MaxLines
          /\ buffered + 1 \in 0..lines' /\ m \in 0..lines'
          /\ count_' = IF TooLong(bytes) THEN count_ ELSE IF CheckDue THEN 0 ELSE count_ + 1
      BY <2>0, <2>a, <2>b
    <2>c. checkEveryN_ \in Nat \ {0} /\ count_ \in 0..(checkEveryN_ - 1)
      BY DEF IInv
    <2>2. count_' \in 0..(checkEveryN_ - 1)
      <3>1. CASE TooLong(bytes)
        BY <2>0, <2>c, <3>1
      <3>2. CASE ~TooLong(bytes) /\ CheckDue
        BY <2>0, <2>c, <3>2
      <3>3. CASE ~TooLong(bytes) /\ ~CheckDue
        <4>1. count_' = count_ + 1
          BY <2>0, <3>3
        <4> QED BY <2>c, <3>3, <4>1 DEF CheckDue
      <3> QED BY <3>1, <3>2, <3>3
    <2>3. later => MayRoll
      BY <1>0 DEF IInv, MayRoll
    <2>4. ~later => m = 0 /\ stale = 0
      BY DEF IInv
    <2>5. CASE TooLong(bytes) \/ (check /\ later)
      <3>1. rollFile(bytes, buffered + 1, m)
        BY <1>1, <2>5 DEF append
      <3> QED BY <2>1, <2>2, <2>3, <2>4, <3>1, RollStep
    <2>6. CASE ~(TooLong(bytes) \/ (check /\ later))
      <3>1. /\ writtenBytes_' = bytes /\ stale' = m
            /\ buffered' = IF check /\ late THEN 0 ELSE buffered + 1
            /\ lastFlush_' = IF check /\ late THEN now ELSE lastFlush_
            /\ UNCHANGED <<lastRoll_, startOfPeriod_, files>>
        BY <1>1, <2>6 DEF append
      <3>2. m <= count_'
        <4>1. CASE CheckDue
          BY <2>1, <2>2, <2>4, <2>6, <4>1
        <4>2. CASE ~CheckDue
          BY <2>1, <2>6, <4>2, SMTT(30) DEF IInv
        <4> QED BY <4>1, <4>2
      <3>3. m > 0 => later
        BY <2>4
      <3> HIDE DEF m, bytes, check, late
      <3>4. {writtenBytes_', lastFlush_', now', lastRoll_'} \subseteq Nat /\ buffered' \in 0..lines'
        BY <2>1, <3>1 DEF IInv
      <3> QED BY <2>1, <2>2, <3>1, <3>2, <3>3, <3>4 DEF IInv, NamesDiffer, Period
    <2> QED BY <2>5, <2>6
  <1>2. CASE flush
    BY <1>2 DEF flush, IInv, NamesDiffer, Period
  <1>3. CASE Tick
    <2>1. now' = now + 1 /\ Period(now)' = Period(now + 1) /\ Period(now + 1) \in Nat
      BY <1>0, <1>3, PeriodGrows DEF Tick, Period
    <2>2. Period(now) <= Period(now)'
      BY <1>0, <2>1, PeriodGrows
    <2>3. UNCHANGED <<count_, startOfPeriod_, lastRoll_, lastFlush_, files, writtenBytes_,
                      buffered, stale, lines>>
      BY <1>3 DEF Tick
    <2>4. Period(lastRoll_)' = Period(lastRoll_) /\ NamesDiffer'
      BY <2>3 DEF Period, IInv, NamesDiffer
    <2>5. stale' > 0 => Period(now)' > startOfPeriod_'
      BY <1>0, <2>1, <2>2, <2>3, SMTT(30) DEF IInv
    <2> QED BY <2>1, <2>3, <2>4, <2>5, SMTT(30) DEF IInv
  <1>4. CASE UNCHANGED vars
    BY <1>4 DEF vars, IInv, NamesDiffer, Period
  <1> QED BY <1>1, <1>2, <1>3, <1>4 DEF Next

(* After the constructor's rollFile() the invariant holds. *)
LEMMA LogInit == Init => IInv
  BY LogFileAssumption DEF Init, IInv, NamesDiffer, Period

(* The counters and times keep their types and count_ never goes beyond    *)
(* its check.                                                              *)
THEOREM LogTypes == Spec => []TypeOK
  <1>1. ASSUME IInv PROVE TypeOK
    <2>1. startOfPeriod_ \in Nat
      BY <1>1, PeriodGrows DEF IInv
    <2>2. {buffered, stale} \subseteq 0..MaxLines
      BY <1>1, LogFileAssumption DEF IInv
    <2> QED BY <1>1, <2>1, <2>2 DEF IInv, TypeOK
  <1> QED BY <1>1, LogInit, LogStep, PTL DEF Spec

(* rollFile never opens a file name twice. *)
THEOREM FilesOpenedOnce == Spec => []NamesDiffer
  <1>1. IInv => NamesDiffer
    BY DEF IInv
  <1> QED BY <1>1, LogInit, LogStep, PTL DEF Spec

(* At most checkEveryN_ lines of a new day go to the file of an old one.   *)
THEOREM DayRolls == Spec => []NewDayNewFile
  <1>1. IInv => NewDayNewFile
    BY LogFileAssumption DEF IInv, NewDayNewFile
  <1> QED BY <1>1, LogInit, LogStep, PTL DEF Spec

(* append() leaves a file too long only in the second that opened it.      *)
THEOREM LongFilesRoll == Spec => LongOnlyForASecond
  <1>1. IInv /\ [Next]_vars =>
          [writtenBytes_' > rollSize_ /\ lines' # lines => lastRoll_ = now]_vars
    <2> SUFFICES ASSUME IInv, Next, writtenBytes_' > rollSize_, lines' # lines
                 PROVE  lastRoll_ = now
      OBVIOUS
    <2> USE LogFileAssumption
    <2>1. PICK len \in LineLens : append(len)
      BY DEF Next, flush, Tick
    <2>2. writtenBytes_ + len \in Nat /\ rollSize_ \in Nat
      BY SMTT(30) DEF IInv
    <2>3. CASE TooLong(writtenBytes_ + len)
      <3>1. ~MayRoll
        BY <2>1, <2>2, <2>3 DEF append, rollFile
      <3> QED BY <3>1 DEF MayRoll, IInv
    <2>4. CASE ~TooLong(writtenBytes_ + len)
      <3>1. \/ \E n, m : rollFile(writtenBytes_ + len, n, m)
            \/ writtenBytes_' = writtenBytes_ + len
        BY <2>1, <2>4, Zenon DEF append
      <3>2. writtenBytes_' \in {writtenBytes_ + len, 0}
        BY <3>1 DEF rollFile
      <3> QED BY <2>2, <2>4, <3>2 DEF TooLong
    <2> QED BY <2>3, <2>4
  <1> QED BY <1>1, LogInit, LogStep, PTL DEF Spec, LongOnlyForASecond
=============================================================================
