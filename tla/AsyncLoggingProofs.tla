------------------------- MODULE AsyncLoggingProofs --------------------------
(***************************************************************************)
(* Theorems about AsyncLogging, for any sizes of buffers and lines: the    *)
(* back end never lacks a buffer to give back (NeverOutOfBuffers), and     *)
(* loses, doubles or reorders no line (LinesStayInOrder).                  *)
(***************************************************************************)
EXTENDS AsyncLogging, SequenceTheorems, WellFoundedInduction, TLAPS

(* The buffers are buffers, or null where a unique_ptr may be. *)
BufferTypes ==
  /\ currentBuffer_ \in Buffers
  /\ nextBuffer_ \in Buffers \cup {Null}
  /\ buffers_ \in Seq(Buffers)
  /\ buffersToWrite \in Seq(Buffers)
  /\ newBuffer1 \in Buffers \cup {Null}
  /\ newBuffer2 \in Buffers \cup {Null}
  /\ lines \in 0..MaxLines

IInv == BufferTypes /\ EnoughToRecycle

(* A unique_ptr that holds a buffer is not null. *)
LEMMA BufferNotNull == \A b \in Buffers : b # Null
  <1>1. ASSUME NEW b \in Buffers
        PROVE  b \in [lines : Seq(Nat), used : Nat]
    <2>1. b.lines \in Seq(Nat)
      BY LoggingAssumption DEF Buffers
    <2>2. b.used \in Nat
      BY LoggingAssumption DEF Buffers
    <2> QED BY <2>1, <2>2 DEF Buffers
  <1> QED BY <1>1, LoggingAssumption

(* A new or reset buffer is a buffer. *)
LEMMA NewIsBuffer == NewBuffer \in Buffers
  <1>1. 0 \in 0..(BufSize - 1)
    BY LoggingAssumption
  <1> QED BY <1>1 DEF NewBuffer, Buffers

(* FixedBuffer::append keeps a buffer a buffer. *)
LEMMA AppendIsBuffer ==
  ASSUME NEW b \in Buffers, NEW n \in 1..MaxLines, NEW len \in LineLens
  PROVE  BufferAppend(b, n, len) \in Buffers
  <1>1. len \in Nat /\ BufSize \in Nat /\ b.used \in Nat
    BY LoggingAssumption DEF Buffers
  <1>2. CASE avail(b) > len
    <2>1. b.used + len \in 0..(BufSize - 1)
      BY <1>1, <1>2 DEF avail
    <2>2. Append(b.lines, n) \in Seq(1..MaxLines)
      BY LoggingAssumption DEF Buffers
    <2> QED BY <1>2, <2>1, <2>2 DEF BufferAppend, Buffers
  <1>3. CASE ~(avail(b) > len)
    BY <1>3 DEF BufferAppend
  <1> QED BY <1>2, <1>3

(* Every step keeps the buffers buffers and never runs out of them. *)
LEMMA RecycleStep == IInv /\ [Next]_vars => IInv'
  <1> SUFFICES ASSUME IInv, [Next]_vars PROVE IInv'
    OBVIOUS
  <1> USE BufferNotNull, NewIsBuffer
  <1>1. ASSUME NEW len \in LineLens, append(len) PROVE IInv'
    <2>1. lines + 1 \in 1..MaxLines
      BY <1>1, LoggingAssumption DEF append, IInv, BufferTypes
    <2>2. CASE AppendFits(len)
      <3>1. currentBuffer_' \in Buffers
        BY <2>1, <2>2, AppendIsBuffer DEF AppendFits, IInv, BufferTypes
      <3> QED BY <1>1, <2>1, <2>2, <3>1
              DEF append, AppendFits, IInv, BufferTypes, EnoughToRecycle, Missing, back
    <2>3. CASE AppendSpills(len)
      <3>1. NextCurrent \in Buffers
        BY DEF NextCurrent, IInv, BufferTypes
      <3>2. currentBuffer_' \in Buffers
        BY <2>1, <2>3, <3>1, AppendIsBuffer DEF AppendSpills
      <3>3. buffers_' \in Seq(Buffers) /\ buffers_' # <<>>
        BY <2>3 DEF AppendSpills, IInv, BufferTypes
      <3> QED BY <1>1, <2>1, <2>3, <3>2, <3>3
              DEF append, AppendSpills, Woken, IInv, BufferTypes, EnoughToRecycle, Missing, back
    <2> QED BY <1>1, <2>2, <2>3 DEF append
  <1>2. CASE TestRunning \/ Wait \/ Timeout
    BY <1>2 DEF TestRunning, Wait, Timeout, IInv, BufferTypes, EnoughToRecycle, Missing, front, back
  <1>3. CASE Collect
    <2>1. Missing = 0 /\ newBuffer1 \in Buffers /\ newBuffer2 \in Buffers
      BY <1>3 DEF Collect, IInv, BufferTypes, EnoughToRecycle, Missing
    <2>2. /\ buffersToWrite' \in Seq(Buffers)
          /\ Len(buffersToWrite') = Len(buffers_) + 1
      BY <1>3 DEF Collect, IInv, BufferTypes
    <2>3. NextIsDue => Len(buffers_) > 0
      BY DEF NextIsDue, IInv, EnoughToRecycle, BufferTypes
    <2>4. BufferTypes'
      BY <1>3, <2>1, <2>2 DEF Collect, IInv, BufferTypes
    <2>5. nextBuffer_' # Null /\ currentBuffer_' # Null
      BY <1>3, <2>1 DEF Collect, NextIsDue
    <2>6. Missing' <= Len(buffersToWrite')
      BY <1>3, <2>1, <2>2, <2>3 DEF Collect, Missing, IInv, BufferTypes
    <2> QED BY <1>3, <2>4, <2>5, <2>6 DEF Collect, IInv, EnoughToRecycle
  <1>4. CASE Write \/ End
    BY <1>4 DEF Write, End, IInv, BufferTypes, EnoughToRecycle, Missing, front
  <1>5. CASE Recycle
    <2>1. newBuffer1' \in Buffers /\ newBuffer2' \in Buffers
      BY <1>5 DEF Recycle, reset, IInv, BufferTypes
    <2>2. BufferTypes'
      BY <1>5, <2>1 DEF Recycle, IInv, BufferTypes, front
    <2>3. Missing' = 0
      BY <2>1 DEF Missing
    <2>4. pc' = "test" /\ UNCHANGED front
      BY <1>5 DEF Recycle
    <2> QED BY <2>2, <2>3, <2>4 DEF IInv, EnoughToRecycle, front
  <1>6. CASE Start \/ Stop \/ StopNotify \/ Join
    <2>1. UNCHANGED <<front, back, lines>>
      BY <1>6 DEF Start, Stop, StopNotify, Join
    <2>2. BufferTypes' /\ Missing' = Missing
      BY <2>1 DEF front, back, IInv, BufferTypes, Missing
    <2>3. \/ pc = "new" /\ pc' = "test"
          \/ pc = "waiting" /\ pc' = "collect"
          \/ pc' = pc
      BY <1>6 DEF Start, Stop, StopNotify, Join, Woken
    <2> QED BY <2>1, <2>2, <2>3 DEF IInv, EnoughToRecycle, front, back
  <1>7. CASE UNCHANGED vars
    BY <1>7 DEF vars, front, back, IInv, BufferTypes, EnoughToRecycle, Missing
  <1> QED BY <1>1, <1>2, <1>3, <1>4, <1>5, <1>6, <1>7 DEF Next, BackStep

(* threadFunc always has the buffers it gives back, and the front end      *)
(* always has one to append to: for every size of the buffers and of the   *)
(* lines, and whatever the threads that log do.                            *)
THEOREM NeverOutOfBuffers == Spec => []EnoughToRecycle
  <1>1. Init => IInv
    BY NewIsBuffer, BufferNotNull, LoggingAssumption
       DEF Init, IInv, BufferTypes, EnoughToRecycle, Missing
  <1>2. IInv => EnoughToRecycle
    BY DEF IInv
  <1> QED BY <1>1, <1>2, RecycleStep, PTL DEF Spec

-----------------------------------------------------------------------------
(* Induction over the natural numbers, for the set where a fact holds. *)
LEMMA InductionOnNat ==
  ASSUME NEW S, 0 \in S, \A n \in Nat : n \in S => n + 1 \in S
  PROVE  Nat \subseteq S
<1> SUFFICES ASSUME Nat \ S # {} PROVE FALSE
  OBVIOUS
<1>1. PICK x \in Nat \ S : \A y \in Nat \ S : ~(<<y, x>> \in OpToRel(<, Nat))
  BY NatLessThanWellFounded, WFMin, Zenon
<1>2. \A y \in Nat \ S : ~(y < x)
  BY <1>1, Zenon DEF OpToRel
<1>3. x # 0
  BY <1>1, Zenon
<1>4. x - 1 \in Nat /\ x - 1 < x /\ (x - 1) + 1 = x
  BY <1>3
<1>5. x - 1 \in S
  BY <1>2, <1>4
<1> QED
  BY <1>1, <1>4, <1>5, Zenon

-----------------------------------------------------------------------------
(* A recursive function over the prefixes of a sequence of buffers. *)
IsLines(f, bs, n) ==
  f = [i \in 0..n |-> IF i = 0 THEN <<>> ELSE f[i - 1] \o bs[i].lines]

(* One step of it. *)
LEMMA LinesAt ==
  ASSUME NEW f, NEW bs, NEW n, IsLines(f, bs, n), NEW i \in 0..n
  PROVE  f[i] = IF i = 0 THEN <<>> ELSE f[i - 1] \o bs[i].lines
BY Zenon DEF IsLines

(* There is one for every length. *)
LEMMA LinesExists ==
  ASSUME NEW bs, NEW n \in Nat
  PROVE  \E f : IsLines(f, bs, n)
<1> DEFINE P == {k \in Nat : \E f : IsLines(f, bs, k)}
<1>0. 0 \in P
  <2>1. IsLines([i \in 0..0 |-> <<>>], bs, 0)
    BY DEF IsLines
  <2> QED
    BY <2>1
<1>1. ASSUME NEW k \in Nat, k \in P
      PROVE  k + 1 \in P
  <2>1. PICK f : IsLines(f, bs, k)
    BY <1>1
  <2> DEFINE v == f[k] \o bs[k + 1].lines
             g == [i \in 0..(k + 1) |-> IF i = k + 1 THEN v ELSE f[i]]
  <2> HIDE DEF v
  <2>2. \A i \in 0..k : g[i] = f[i]
    OBVIOUS
  <2>3. \A i \in 0..(k + 1) : g[i] = IF i = 0 THEN <<>> ELSE g[i - 1] \o bs[i].lines
    <3> SUFFICES ASSUME NEW i \in 0..(k + 1)
                 PROVE  g[i] = IF i = 0 THEN <<>> ELSE g[i - 1] \o bs[i].lines
      BY SMTT(30)
    <3>1. CASE i = k + 1
      <4>1. i # 0 /\ i - 1 = k /\ g[k] = f[k] /\ g[i] = v
        BY <2>2, <3>1
      <4> QED
        BY <3>1, <4>1, Zenon DEF v
    <3>2. CASE i # k + 1
      <4>1. i \in 0..k /\ (i # 0 => i - 1 \in 0..k)
        BY <3>2
      <4>2. f[i] = IF i = 0 THEN <<>> ELSE f[i - 1] \o bs[i].lines
        BY <2>1, <4>1, LinesAt
      <4> QED
        BY <2>2, <4>1, <4>2
    <3> QED
      BY <3>1, <3>2
  <2>4. g = [i \in 0..(k + 1) |-> g[i]]
    OBVIOUS
  <2> HIDE DEF g
  <2>5. IsLines(g, bs, k + 1)
    BY <2>3, <2>4 DEF IsLines
  <2> QED
    BY <2>5
<1> HIDE DEF P
<1>2. n \in P
  BY <1>0, <1>1, InductionOnNat
<1> QED
  BY <1>2 DEF P

(* And only one for the same buffers. *)
LEMMA LinesUnique ==
  ASSUME NEW bs, NEW n \in Nat, NEW m \in Nat, NEW f, NEW g, n <= m,
         IsLines(f, bs, n), IsLines(g, bs, m)
  PROVE  \A i \in 0..n : f[i] = g[i]
<1> DEFINE P == {k \in Nat : k \in 0..n => f[k] = g[k]}
<1>0. 0 \in P
  <2>1. 0 \in 0..n /\ 0 \in 0..m
    OBVIOUS
  <2>2. f[0] = <<>> /\ g[0] = <<>>
    BY <2>1, LinesAt, SMTT(30)
  <2> QED
    BY <2>2
<1>1. ASSUME NEW k \in Nat, k \in P
      PROVE  k + 1 \in P
  <2> SUFFICES ASSUME k + 1 \in 0..n PROVE f[k + 1] = g[k + 1]
    OBVIOUS
  <2>0. k + 1 \in 0..m /\ (k + 1) - 1 = k /\ k + 1 # 0 /\ k \in 0..n
    OBVIOUS
  <2>1. f[k + 1] = IF k + 1 = 0 THEN <<>> ELSE f[(k + 1) - 1] \o bs[k + 1].lines
    BY LinesAt
  <2>2. g[k + 1] = IF k + 1 = 0 THEN <<>> ELSE g[(k + 1) - 1] \o bs[k + 1].lines
    <3>1. k + 1 \in 0..m
      BY <2>0
    <3> QED
      BY <3>1, LinesAt
  <2>3. f[k] = g[k]
    BY <1>1, <2>0
  <2> QED
    BY <2>0, <2>1, <2>2, <2>3, Zenon
<1> HIDE DEF P
<1>2. Nat \subseteq P
  BY <1>0, <1>1, InductionOnNat
<1> QED
  BY <1>2 DEF P

(* What LinesOf computes. *)
LEMMA LinesUnfold ==
  ASSUME NEW bs, Len(bs) \in Nat
  PROVE  \E f : IsLines(f, bs, Len(bs)) /\ LinesOf(bs) = f[Len(bs)]
<1> DEFINE h == CHOOSE g : IsLines(g, bs, Len(bs))
<1>1. IsLines(h, bs, Len(bs))
  BY LinesExists
<1>2. LinesOf(bs) = h[Len(bs)]
  BY DEF LinesOf, IsLines
<1> HIDE DEF h
<1> QED
  BY <1>1, <1>2

(* No buffers, no lines. *)
LEMMA LinesOfEmpty == LinesOf(<<>>) = <<>>
<1>1. PICK f : IsLines(f, <<>>, 0) /\ LinesOf(<<>>) = f[0]
  BY LinesUnfold
<1>2. 0 \in 0..0
  OBVIOUS
<1> QED
  BY <1>1, <1>2, LinesAt

(* Buffers hold a sequence of lines. *)
LEMMA LinesOfType ==
  ASSUME NEW bs \in Seq(Buffers)
  PROVE  LinesOf(bs) \in Seq(Nat)
<1>a. \A x \in Buffers : x.lines \in Seq(Nat)
  BY LoggingAssumption DEF Buffers
<1>0. Len(bs) \in Nat /\ \A i \in 1..Len(bs) : bs[i].lines \in Seq(Nat)
  BY <1>a
<1>1. PICK f : IsLines(f, bs, Len(bs)) /\ LinesOf(bs) = f[Len(bs)]
  BY <1>0, LinesUnfold
<1> DEFINE P == {k \in Nat : k \in 0..Len(bs) => f[k] \in Seq(Nat)}
<1>2. 0 \in P
  <2>1. 0 \in 0..Len(bs)
    BY <1>0
  <2>2. f[0] = <<>>
    BY <1>1, <2>1, LinesAt
  <2> QED
    BY <2>2, EmptySeq, Zenon
<1>3. ASSUME NEW k \in Nat, k \in P
      PROVE  k + 1 \in P
  <2> SUFFICES ASSUME k + 1 \in 0..Len(bs) PROVE f[k + 1] \in Seq(Nat)
    OBVIOUS
  <2>1. k \in 0..Len(bs) /\ (k + 1) - 1 = k /\ k + 1 # 0 /\ k + 1 \in 1..Len(bs)
    BY <1>0
  <2>2. f[k] \in Seq(Nat) /\ bs[k + 1].lines \in Seq(Nat)
    BY <1>0, <1>3, <2>1
  <2>3. f[k + 1] = IF k + 1 = 0 THEN <<>> ELSE f[(k + 1) - 1] \o bs[k + 1].lines
    BY <1>1, LinesAt
  <2> QED
    BY <2>1, <2>2, <2>3, ConcatProperties
<1> HIDE DEF P
<1>4. Len(bs) \in P
  BY <1>0, <1>2, <1>3, InductionOnNat, Zenon
<1> QED
  BY <1>0, <1>1, <1>4 DEF P

(* One more buffer at the end adds its lines at the end. *)
LEMMA LinesOfAppend ==
  ASSUME NEW bs \in Seq(Buffers), NEW b \in Buffers
  PROVE  LinesOf(bs) \in Seq(Nat) /\ LinesOf(Append(bs, b)) = LinesOf(bs) \o b.lines
<1> DEFINE t == Append(bs, b)
           n == Len(bs)
           m == n + 1
<1>0. /\ n \in Nat /\ m \in Nat /\ Len(t) = m /\ t[m] = b /\ m \in 0..m /\ n <= m /\ m # 0 /\ m - 1 = n
      /\ n \in 0..n
      /\ \A i \in 1..n : bs[i] = t[i]
  OBVIOUS
<1> HIDE DEF t
<1>1. PICK f : IsLines(f, t, m) /\ LinesOf(t) = f[m]
  <2> HIDE DEF m
  <2> QED
    BY <1>0, LinesUnfold
<1>2. PICK g : IsLines(g, bs, n) /\ LinesOf(bs) = g[n]
  BY <1>0, LinesUnfold
<1>3. IsLines(g, t, n)
  <2>1. [i \in 0..n |-> IF i = 0 THEN <<>> ELSE g[i - 1] \o bs[i].lines]
          = [i \in 0..n |-> IF i = 0 THEN <<>> ELSE g[i - 1] \o t[i].lines]
    BY <1>0
  <2> QED
    BY <1>2, <2>1 DEF IsLines
<1> HIDE DEF n, m
<1>4. g[n] = f[n]
  <2>1. n \in Nat /\ m \in Nat /\ n <= m /\ n \in 0..n
    BY <1>0
  <2>2. IsLines(g, t, n) /\ IsLines(f, t, m)
    BY <1>1, <1>3
  <2>3. \A i \in 0..n : g[i] = f[i]
    <3> HIDE DEF t
    <3> QED
      BY <2>1, <2>2, LinesUnique
  <2> QED
    BY <2>1, <2>3
<1>5. f[m] = IF m = 0 THEN <<>> ELSE f[m - 1] \o t[m].lines
  <2>1. m \in 0..m /\ IsLines(f, t, m)
    BY <1>0, <1>1
  <2> QED
    BY <2>1, LinesAt
<1>6. LinesOf(t) = LinesOf(bs) \o b.lines
  BY <1>0, <1>1, <1>2, <1>4, <1>5, Zenon
<1> QED
  BY <1>6, LinesOfType DEF t

(* Lists are put together in any grouping. *)
LEMMA ListsAssociative ==
  ASSUME NEW u \in Seq(Nat), NEW v \in Seq(Nat), NEW w \in Seq(Nat)
  PROVE  (u \o v) \o w = u \o (v \o w)
BY ConcatAssociative, SMTT(30)

(* The lines of two runs of buffers. *)
LEMMA LinesOfConcat ==
  ASSUME NEW a \in Seq(Buffers), NEW b \in Seq(Buffers)
  PROVE  LinesOf(a \o b) = LinesOf(a) \o LinesOf(b)
<1> DEFINE p(k) == SubSeq(b, 1, k)
           P == {k \in Nat : k <= Len(b) => LinesOf(a \o p(k)) = LinesOf(a) \o LinesOf(p(k))}
<1>a. LinesOf(a) \in Seq(Nat)
  <2>1. CASE Buffers = {}
    BY <2>1, NewIsBuffer
  <2> QED
    BY LinesOfAppend, NewIsBuffer
<1>0. 0 \in P
  <2>1. p(0) = <<>>
    OBVIOUS
  <2>2. a \o <<>> = a /\ LinesOf(a) \o <<>> = LinesOf(a)
    BY <1>a, ConcatEmptySeq
  <2> QED
    BY <2>1, <2>2, LinesOfEmpty, Zenon
<1>1. ASSUME NEW k \in Nat, k \in P
      PROVE  k + 1 \in P
  <2> SUFFICES ASSUME k + 1 <= Len(b)
               PROVE  LinesOf(a \o p(k + 1)) = LinesOf(a) \o LinesOf(p(k + 1))
    OBVIOUS
  <2> DEFINE x == b[k + 1]
  <2>1. x \in Buffers /\ p(k) \in Seq(Buffers) /\ p(k + 1) = Append(p(k), x)
    OBVIOUS
  <2>2. LinesOf(a \o p(k)) = LinesOf(a) \o LinesOf(p(k))
    BY <1>1
  <2> HIDE DEF p, x, P
  <2>3. a \o Append(p(k), x) = Append(a \o p(k), x) /\ a \o p(k) \in Seq(Buffers)
    BY <2>1, SMTT(30)
  <2>4. /\ LinesOf(Append(a \o p(k), x)) = LinesOf(a \o p(k)) \o x.lines
        /\ LinesOf(Append(p(k), x)) = LinesOf(p(k)) \o x.lines
        /\ LinesOf(p(k)) \in Seq(Nat)
    BY <2>1, <2>3, LinesOfAppend, Zenon
  <2>5. x.lines \in Seq(Nat)
    BY <2>1, LoggingAssumption DEF Buffers
  <2>6. (LinesOf(a) \o LinesOf(p(k))) \o x.lines = LinesOf(a) \o (LinesOf(p(k)) \o x.lines)
    BY <1>a, <2>4, <2>5, ListsAssociative, Zenon
  <2> QED
    BY <2>1, <2>2, <2>3, <2>4, <2>6, Zenon
<1>2. Len(b) \in P
  <2> HIDE DEF P
  <2>1. Nat \subseteq P
    BY <1>0, <1>1, InductionOnNat
  <2> QED
    BY <2>1
<1>3. p(Len(b)) = b
  BY SubSeqFull
<1>4. Len(b) \in Nat /\ Len(b) <= Len(b)
  OBVIOUS
<1> HIDE DEF p
<1> QED
  BY <1>2, <1>3, <1>4

-----------------------------------------------------------------------------
(* The spare buffers are empty, and buffersToWrite is except while it is written. *)
SpareInv ==
  /\ nextBuffer_ \in {NewBuffer, Null}
  /\ newBuffer1 \in {NewBuffer, Null}
  /\ newBuffer2 \in {NewBuffer, Null}
  /\ pc \in {"write", "recycle"} \/ buffersToWrite = <<>>
  /\ written \in Seq(Nat)

OrderInv == IInv /\ SpareInv /\ LinesInOrder

(* The buffers whose lines are on their way before those of currentBuffer_. *)
Ahead == (IF pc = "recycle" THEN <<>> ELSE buffersToWrite) \o buffers_

(* The lines of currentBuffer_ are the last. *)
LEMMA OnTheWayEnds ==
  ASSUME BufferTypes
  PROVE  /\ Ahead \in Seq(Buffers) /\ LinesOf(Ahead) \in Seq(Nat)
         /\ currentBuffer_.lines \in Seq(Nat)
         /\ OnTheWay = LinesOf(Ahead) \o currentBuffer_.lines
         /\ OnTheWay \in Seq(Nat)
<1> DEFINE x == IF pc = "recycle" THEN <<>> ELSE buffersToWrite
<1>1. x \in Seq(Buffers) /\ buffers_ \in Seq(Buffers) /\ currentBuffer_ \in Buffers
  BY DEF BufferTypes
<1>2. Ahead = x \o buffers_ /\ OnTheWay = LinesOf(x \o Append(buffers_, currentBuffer_))
  BY DEF Ahead, OnTheWay
<1> HIDE DEF x
<1>3. x \o Append(buffers_, currentBuffer_) = Append(x \o buffers_, currentBuffer_)
      /\ x \o buffers_ \in Seq(Buffers)
  BY <1>1
<1>4. currentBuffer_.lines \in Seq(Nat)
  BY <1>1, LoggingAssumption DEF Buffers
<1>5. LinesOf(Ahead) \in Seq(Nat) /\ OnTheWay = LinesOf(Ahead) \o currentBuffer_.lines
  BY <1>1, <1>2, <1>3, LinesOfAppend, Zenon
<1>6. LinesOf(Ahead) \o currentBuffer_.lines \in Seq(Nat)
  BY <1>4, <1>5
<1> QED
  BY <1>2, <1>3, <1>4, <1>5, <1>6, Zenon

(* A line added to the end of the last list. *)
LEMMA AppendLast ==
  ASSUME NEW u \in Seq(Nat), NEW v \in Seq(Nat), NEW n \in Nat
  PROVE  u \o Append(v, n) = Append(u \o v, n)
OBVIOUS

(* append() puts its line behind all the others, in the buffer in use or in a new one. *)
LEMMA OrderAppend ==
  ASSUME OrderInv, NEW len \in LineLens, append(len), BufferTypes'
  PROVE  LinesInOrder' /\ SpareInv'
<1>0. /\ lines' = lines + 1 /\ lines \in Nat /\ len \in Nat /\ len < BufSize
      /\ UNCHANGED <<newBuffer1, newBuffer2, buffersToWrite, written>>
  BY LoggingAssumption DEF append, back, OrderInv, IInv, BufferTypes
<1>t. /\ BufferTypes /\ SpareInv /\ written \in Seq(Nat)
      /\ LinesOf(Ahead) \in Seq(Nat) /\ currentBuffer_.lines \in Seq(Nat)
      /\ OnTheWay = LinesOf(Ahead) \o currentBuffer_.lines /\ OnTheWay \in Seq(Nat)
      /\ Ahead \in Seq(Buffers) /\ currentBuffer_ \in Buffers
  BY OnTheWayEnds, SMTT(30) DEF OrderInv, IInv, SpareInv, BufferTypes
<1>u. (OnTheWay = LinesOf(Ahead) \o currentBuffer_.lines)'
  BY OnTheWayEnds, PTL
<1>1. OnTheWay' = Append(OnTheWay, lines + 1) /\ SpareInv'
  <2>1. CASE AppendFits(len)
    <3>1. /\ Ahead' = Ahead /\ SpareInv'
          /\ currentBuffer_'.lines = Append(currentBuffer_.lines, lines + 1)
      BY <1>0, <1>t, <2>1 DEF AppendFits, BufferAppend, Ahead, SpareInv
    <3>2. OnTheWay' = LinesOf(Ahead) \o Append(currentBuffer_.lines, lines + 1)
      BY <1>u, <3>1
    <3>3. lines + 1 \in Nat
      BY <1>0
    <3> QED
      BY <1>t, <3>1, <3>2, <3>3, AppendLast, Zenon
  <2>2. CASE AppendSpills(len)
    <3>1. NextCurrent = NewBuffer
      BY <1>t DEF NextCurrent, SpareInv
    <3>2. currentBuffer_'.lines = <<lines + 1>>
      <4>1. avail(NewBuffer) > len
        BY <1>0, LoggingAssumption DEF avail, NewBuffer
      <4>2. currentBuffer_' = [lines |-> Append(NewBuffer.lines, lines + 1), used |-> NewBuffer.used + len]
        BY <2>2, <3>1, <4>1 DEF AppendSpills, BufferAppend
      <4> QED
        BY <4>2 DEF NewBuffer
    <3>3. Ahead' = Append(Ahead, currentBuffer_) /\ SpareInv'
      <4>1. /\ buffers_' = Append(buffers_, currentBuffer_) /\ pc' = Woken /\ nextBuffer_' = Null
        BY <2>2 DEF AppendSpills
      <4>2. /\ pc' = "recycle" <=> pc = "recycle"
            /\ pc \in {"write", "recycle"} => pc' = pc
        BY <4>1 DEF Woken
      <4>3. SpareInv'
        BY <1>0, <1>t, <4>1, <4>2 DEF SpareInv
      <4> DEFINE x == IF pc = "recycle" THEN <<>> ELSE buffersToWrite
      <4>4. buffers_ \in Seq(Buffers) /\ x \in Seq(Buffers)
        BY <1>t DEF BufferTypes
      <4>5. Ahead = x \o buffers_ /\ Ahead' = x \o Append(buffers_, currentBuffer_)
        BY <1>0, <4>1, <4>2, Zenon DEF Ahead
      <4> HIDE DEF x
      <4>6. x \o Append(buffers_, currentBuffer_) = Append(x \o buffers_, currentBuffer_)
        BY <1>t, <4>4, SMTT(30)
      <4> QED
        BY <4>3, <4>5, <4>6
    <3>4. LinesOf(Ahead') = LinesOf(Ahead) \o currentBuffer_.lines
      BY <1>t, <3>3, LinesOfAppend
    <3> QED
      BY <1>0, <1>t, <1>u, <3>2, <3>3, <3>4, SMTT(30)
  <2> QED
    BY <2>1, <2>2 DEF append
<1>2. written' \o OnTheWay' = Append(written \o OnTheWay, lines + 1)
  <2>1. lines + 1 \in Nat /\ written' = written
    BY <1>0
  <2> QED
    BY <1>t, <1>1, <2>1, AppendLast, Zenon
<1>3. [i \in 1..(lines + 1) |-> i] = Append([i \in 1..lines |-> i], lines + 1)
  BY <1>0
<1> QED
  BY <1>0, <1>1, <1>2, <1>3, Zenon DEF OrderInv, LinesInOrder

(* threadFunc takes the buffers in their order and writes them out. *)
LEMMA OrderBack ==
  ASSUME OrderInv, Collect \/ Write \/ Recycle, BufferTypes'
  PROVE  LinesInOrder' /\ SpareInv'
<1>t. /\ BufferTypes /\ SpareInv /\ LinesInOrder /\ EnoughToRecycle /\ written \in Seq(Nat)
      /\ buffers_ \in Seq(Buffers) /\ buffersToWrite \in Seq(Buffers) /\ currentBuffer_ \in Buffers
      /\ Append(buffers_, currentBuffer_) \in Seq(Buffers) /\ <<>> \in Seq(Buffers)
  BY DEF OrderInv, IInv, SpareInv, BufferTypes
<1> DEFINE q == Append(buffers_, currentBuffer_)
<1>q. q \in Seq(Buffers) /\ <<>> \o q = q /\ LinesOf(q) \in Seq(Nat)
  BY <1>t, LinesOfAppend, ConcatEmptySeq, Zenon
<1>1. CASE Collect
  <2>1. /\ buffersToWrite = <<>> /\ pc # "recycle" /\ newBuffer1 = NewBuffer /\ newBuffer2 = NewBuffer
    BY <1>1, <1>t DEF Collect, SpareInv, EnoughToRecycle, Missing
  <2>2. /\ buffersToWrite' = q /\ buffers_' = <<>> /\ currentBuffer_' = NewBuffer
        /\ UNCHANGED <<written, lines>> /\ pc' = "write" /\ SpareInv'
    BY <1>1, <1>t, <2>1 DEF Collect, SpareInv
  <2> HIDE DEF q
  <2>3. OnTheWay = LinesOf(q)
    BY <1>q, <2>1 DEF OnTheWay, q
  <2>4. OnTheWay' = LinesOf(q \o Append(<<>>, NewBuffer))
    BY <2>2 DEF OnTheWay
  <2>5. q \o Append(<<>>, NewBuffer) = Append(q, NewBuffer)
    BY <1>q, NewIsBuffer
  <2>6. LinesOf(Append(q, NewBuffer)) = LinesOf(q) \o <<>>
    BY <1>q, NewIsBuffer, LinesOfAppend, Zenon DEF NewBuffer
  <2>7. OnTheWay' = OnTheWay
    BY <1>q, <2>3, <2>4, <2>5, <2>6, ConcatEmptySeq, Zenon
  <2> QED
    BY <1>t, <2>2, <2>7 DEF LinesInOrder
<1>2. CASE Write
  <2>1. /\ pc = "write" /\ pc' = "recycle" /\ written' = written \o LinesOf(buffersToWrite)
        /\ UNCHANGED <<buffers_, currentBuffer_, nextBuffer_, newBuffer1, newBuffer2, buffersToWrite, lines>>
    BY <1>2 DEF Write, front
  <2>2. LinesOf(buffersToWrite) \in Seq(Nat)
    BY <1>t, NewIsBuffer, LinesOfAppend
  <2> HIDE DEF q
  <2>3. OnTheWay = LinesOf(buffersToWrite) \o LinesOf(q)
    BY <1>t, <1>q, <2>1, LinesOfConcat, Zenon DEF OnTheWay, q
  <2>4. OnTheWay' = LinesOf(q)
    BY <1>q, <2>1 DEF OnTheWay, q
  <2>5. (written \o LinesOf(buffersToWrite)) \o LinesOf(q) = written \o (LinesOf(buffersToWrite) \o LinesOf(q))
    BY <1>t, <1>q, <2>2, ListsAssociative, Zenon
  <2>6. written' \o OnTheWay' = written \o OnTheWay
    BY <2>1, <2>3, <2>4, <2>5, Zenon
  <2>7. SpareInv'
    BY <1>t, <2>1, <2>2 DEF SpareInv
  <2> QED
    BY <1>t, <2>1, <2>6, <2>7 DEF LinesInOrder
<1>3. CASE Recycle
  <2>1. /\ pc = "recycle" /\ pc' = "test" /\ buffersToWrite' = <<>>
        /\ UNCHANGED <<buffers_, currentBuffer_, nextBuffer_, written, lines>>
        /\ newBuffer1' \in {newBuffer1, NewBuffer} /\ newBuffer2' \in {newBuffer2, NewBuffer}
    BY <1>3 DEF Recycle, front, reset
  <2>2. OnTheWay' = OnTheWay
    BY <2>1 DEF OnTheWay
  <2> QED
    BY <1>t, <2>1, <2>2 DEF LinesInOrder, SpareInv
<1> QED
  BY <1>1, <1>2, <1>3

(* Every step keeps the lines in order. *)
LEMMA OrderStep == OrderInv /\ [Next]_vars => OrderInv'
<1> SUFFICES ASSUME OrderInv, [Next]_vars PROVE OrderInv'
  OBVIOUS
<1>1. IInv'
  BY RecycleStep DEF OrderInv
<1>2. ASSUME NEW len \in LineLens, append(len)
      PROVE  OrderInv'
  BY <1>1, <1>2, OrderAppend DEF OrderInv, IInv
<1>3. CASE Collect \/ Write \/ Recycle
  BY <1>1, <1>3, OrderBack DEF OrderInv, IInv
<1>4. CASE TestRunning \/ Wait \/ Timeout \/ End \/ Start \/ Stop \/ StopNotify \/ Join \/ UNCHANGED vars
  <2>1. UNCHANGED <<buffers_, currentBuffer_, nextBuffer_, newBuffer1, newBuffer2, buffersToWrite,
                    written, lines>>
    BY <1>4 DEF TestRunning, Wait, Timeout, End, Start, Stop, StopNotify, Join, vars, front, back
  <2>2. pc' = pc \/ (pc \notin {"write", "recycle"} /\ pc' # "recycle")
    BY <1>4 DEF TestRunning, Wait, Timeout, End, Start, Stop, StopNotify, Join, Woken, vars
  <2>3. OnTheWay' = OnTheWay
    BY <2>1, <2>2 DEF OnTheWay
  <2> QED
    BY <1>1, <2>1, <2>2, <2>3 DEF OrderInv, SpareInv, LinesInOrder
<1> QED
  BY <1>2, <1>3, <1>4 DEF Next, BackStep

(* AsyncLogging, for every size of the buffers and the lines and for any   *)
(* number of lines: none is lost, doubled or overtaken on its way to the   *)
(* file.                                                                   *)
THEOREM LinesStayInOrder == Spec => []LinesInOrder
<1>1. Init => OrderInv
  <2> SUFFICES ASSUME Init PROVE OrderInv
    OBVIOUS
  <2>1. IInv
    BY NewIsBuffer, BufferNotNull, LoggingAssumption
       DEF Init, IInv, BufferTypes, EnoughToRecycle, Missing
  <2>2. SpareInv
    BY DEF Init, SpareInv
  <2>3. OnTheWay = <<>>
    <3>1. /\ Ahead = <<>> /\ currentBuffer_.lines = <<>>
      BY DEF Init, Ahead, NewBuffer
    <3>2. OnTheWay = LinesOf(Ahead) \o currentBuffer_.lines
      BY <2>1, OnTheWayEnds DEF IInv
    <3> QED
      BY <3>1, <3>2, LinesOfEmpty
  <2>4. LinesInOrder
    BY <2>3 DEF Init, LinesInOrder
  <2> QED
    BY <2>1, <2>2, <2>4 DEF OrderInv
<1>2. OrderInv => LinesInOrder
  BY DEF OrderInv
<1> QED
  BY <1>1, <1>2, OrderStep, PTL DEF Spec
=============================================================================
