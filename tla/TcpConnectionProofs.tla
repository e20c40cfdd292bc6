------------------------- MODULE TcpConnectionProofs -------------------------
(* Theorems about TcpConnection, for any threads, number and length of     *)
(* messages and high-water mark: the byte stream and its half-close.       *)
EXTENDS TcpConnection, SequenceTheorems, TLAPS

Byte  == Int
Later == [op : {"shutdown", "destoryed", "writeComplete"}] \cup [op : {"send"}, msg : Int]
         \cup [op : {"highWaterMark"}, len : Int]

Conn ==
  [state_ : States, events : SUBSET {"R", "W"}, index : Indices, accepted : Seq(Byte),
   out : Seq(Byte), sent : Seq(Byte), wrShut : BOOLEAN, late : BOOLEAN,
   cb : Seq({"UP", "DOWN"}), todo : Seq(Later), closes : Nat]

(* The invariant of the stream, rs saying that the peer has reset it.      *)
(* Bytes are missing only after a write on a broken socket, and from then  *)
(* on nothing is buffered: every later write is refused too.               *)
Whole(c)      == c.sent \o c.out = c.accepted
Broken(c, rs) ==
  /\ \E lost \in Seq(Byte) : c.sent \o lost = c.accepted
  /\ c.out = <<>> /\ ~isWriting(c)
  /\ c.late \/ rs

Stream(c, rs) ==
  /\ Whole(c) \/ Broken(c, rs)
  /\ c.late => c.wrShut
  /\ isWriting(c) => c.out # <<>>
  /\ ~IsDown(c) /\ c.out # <<>> => isWriting(c)
  /\ ~IsDown(c) /\ c.wrShut => c.out = <<>>

-----------------------------------------------------------------------------
(* The fields the stream is about. *)
SameStream(c, d) ==
  /\ d.accepted = c.accepted /\ d.out = c.out /\ d.sent = c.sent
  /\ d.wrShut = c.wrShut /\ d.late = c.late

(* A step that leaves the bytes alone keeps the stream, if it keeps or ends the watch. *)
LEMMA StreamFrame ==
  ASSUME NEW c \in Conn, NEW d \in Conn, NEW rs \in BOOLEAN, SameStream(c, d), Stream(c, rs),
         \/ (isWriting(d) <=> isWriting(c)) /\ (IsDown(c) => IsDown(d))
         \/ ~isWriting(d) /\ IsDown(d)
  PROVE  Stream(d, rs)
BY Zenon DEF Stream, SameStream, Whole, Broken

(* What the member functions' small steps change. *)
LEMMA SetState ==
  ASSUME NEW c \in Conn, NEW s \in States
  PROVE  /\ setState(c, s) \in Conn /\ SameStream(c, setState(c, s))
         /\ setState(c, s).events = c.events /\ setState(c, s).cb = c.cb
         /\ setState(c, s).todo = c.todo
BY Zenon DEF setState, Conn, SameStream

(* loop_->queueInLoop. *)
LEMMA QueueInLoop ==
  ASSUME NEW c \in Conn, NEW f \in Later
  PROVE  /\ queueInLoop(c, f) \in Conn /\ SameStream(c, queueInLoop(c, f))
         /\ queueInLoop(c, f).events = c.events /\ queueInLoop(c, f).cb = c.cb
         /\ queueInLoop(c, f).state_ = c.state_
<1>1. Append(c.todo, f) \in Seq(Later)
  BY DEF Conn
<1> QED
  BY <1>1, Zenon DEF queueInLoop, Conn, SameStream

(* connectionCallback_ notes UP or DOWN. *)
LEMMA ConnectionCallback ==
  ASSUME NEW c \in Conn, NEW what \in {"UP", "DOWN"}
  PROVE  /\ connectionCallback(c, what) \in Conn /\ SameStream(c, connectionCallback(c, what))
         /\ connectionCallback(c, what).events = c.events
         /\ IsDown(connectionCallback(c, what)) <=> what = "DOWN"
<1>1. c.cb \in Seq({"UP", "DOWN"})
  BY DEF Conn
<1>2. /\ Append(c.cb, what) \in Seq({"UP", "DOWN"}) /\ Append(c.cb, what) # <<>>
      /\ Append(c.cb, what)[Len(Append(c.cb, what))] = what
  BY <1>1
<1>3. connectionCallback(c, what).cb = Append(c.cb, what)
  BY DEF connectionCallback, Conn
<1>4. IsDown(connectionCallback(c, what)) <=> what = "DOWN"
  BY <1>2, <1>3, SMTT(30) DEF IsDown
<1> QED
  BY <1>2, <1>4, Zenon DEF connectionCallback, Conn, SameStream

(* The enable and disable functions change the channel only. *)
LEMMA ChannelOps ==
  ASSUME NEW c \in Conn
  PROVE  /\ enableReading(c) \in Conn /\ SameStream(c, enableReading(c))
         /\ isWriting(enableReading(c)) <=> isWriting(c)
         /\ enableReading(c).cb = c.cb
         /\ enableWriting(c) \in Conn /\ SameStream(c, enableWriting(c))
         /\ isWriting(enableWriting(c)) /\ enableWriting(c).cb = c.cb
         /\ disableWriting(c) \in Conn /\ SameStream(c, disableWriting(c))
         /\ ~isWriting(disableWriting(c)) /\ disableWriting(c).cb = c.cb
         /\ disableWriting(c).state_ = c.state_
         /\ disableAll(c) \in Conn /\ SameStream(c, disableAll(c))
         /\ ~isWriting(disableAll(c)) /\ disableAll(c).cb = c.cb
         /\ removeChannel(c) \in Conn /\ SameStream(c, removeChannel(c))
         /\ removeChannel(c).events = c.events /\ removeChannel(c).cb = c.cb
<1> USE DEF updateChannel, Conn, SameStream, isWriting, Indices
<1>1. /\ enableReading(c) \in Conn /\ SameStream(c, enableReading(c))
      /\ isWriting(enableReading(c)) <=> isWriting(c)
      /\ enableReading(c).cb = c.cb
  BY ZenonT(30) DEF enableReading
<1>2. /\ enableWriting(c) \in Conn /\ SameStream(c, enableWriting(c))
      /\ isWriting(enableWriting(c)) /\ enableWriting(c).cb = c.cb
  BY ZenonT(30) DEF enableWriting
<1>3. /\ disableWriting(c) \in Conn /\ SameStream(c, disableWriting(c))
      /\ ~isWriting(disableWriting(c)) /\ disableWriting(c).cb = c.cb
      /\ disableWriting(c).state_ = c.state_
  BY Zenon DEF disableWriting
<1>4. /\ disableAll(c) \in Conn /\ SameStream(c, disableAll(c))
      /\ ~isWriting(disableAll(c)) /\ disableAll(c).cb = c.cb
  BY Zenon DEF disableAll
<1>5. /\ removeChannel(c) \in Conn /\ SameStream(c, removeChannel(c))
      /\ removeChannel(c).events = c.events /\ removeChannel(c).cb = c.cb
  BY Zenon DEF removeChannel
<1> QED
  BY <1>1, <1>2, <1>3, <1>4, <1>5, SMTT(30)

-----------------------------------------------------------------------------
(* Concatenation, as used here. *)
LEMMA Associative ==
  ASSUME NEW s \in Seq(Byte), NEW t \in Seq(Byte), NEW u \in Seq(Byte)
  PROVE  (s \o t) \o u = s \o (t \o u) /\ t \o u \in Seq(Byte)
<1>1. (s \o t) \o u = s \o (t \o u)
  BY ConcatAssociative, SMTT(30)
<1> QED
  BY <1>1

(* The same with a name for \o, which the provers take as it is. *)
Cat(s, t) == s \o t

LEMMA CatAssociative ==
  ASSUME NEW s \in Seq(Byte), NEW t \in Seq(Byte), NEW u \in Seq(Byte)
  PROVE  Cat(Cat(s, t), u) = Cat(s, Cat(t, u))
BY Associative, Zenon DEF Cat

(* A message is what write() took and the rest. *)
LEMMA Split ==
  ASSUME NEW data \in Seq(Byte), NEW n \in 0..Len(data)
  PROVE  LET part == SubSeq(data, 1, n)
             rest == SubSeq(data, n + 1, Len(data))
         IN /\ part \in Seq(Byte) /\ rest \in Seq(Byte)
            /\ part \o rest = data
            /\ rest = <<>> <=> n = Len(data)
            /\ n = 0 => part = <<>> /\ rest = data
<1> DEFINE part == SubSeq(data, 1, n)
           rest == SubSeq(data, n + 1, Len(data))
<1>1. Len(data) \in Nat
  OBVIOUS
<1>2. part \in Seq(Byte) /\ rest \in Seq(Byte) /\ Len(rest) = Len(data) - n
  BY <1>1
<1>3. part \o rest = SubSeq(data, 1, Len(data))
  <2>1. 1 \in 1..Len(data) + 1 /\ n \in 1 - 1..Len(data) /\ Len(data) \in n..Len(data)
    BY <1>1
  <2> QED
    BY <2>1, ConcatAdjacentSubSeq, Zenon
<1>4. SubSeq(data, 1, Len(data)) = data
  BY SubSeqFull
<1>5. rest = <<>> <=> n = Len(data)
  <2> HIDE DEF rest
  <2>1. Len(<<>>) = 0 /\ (rest # <<>> => Len(rest) # 0)
    BY <1>2, EmptySeq
  <2> QED
    BY <1>1, <1>2, <2>1
<1>6. n = 0 => part = <<>> /\ rest = data
  BY <1>4
<1> QED
  BY <1>2, <1>3, <1>4, <1>5, <1>6, Zenon

(* write(2) takes some of the bytes, or none on a broken socket. *)
LEMMA WriteTakes ==
  ASSUME NEW c \in Conn, NEW data \in Seq(Byte), NEW rs \in BOOLEAN,
         NEW r \in WriteResults(c, Len(data), rs)
  PROVE  LET d == Write(c, data, r)
         IN /\ Taken(r) \in 0..Len(data)
            /\ r = EPIPE <=> c.wrShut \/ rs
            /\ r = EPIPE => Taken(r) = 0
            /\ d \in Conn
            /\ d.sent = c.sent \o SubSeq(data, 1, Taken(r))
            /\ d.late = (c.late \/ c.wrShut)
            /\ d.accepted = c.accepted /\ d.out = c.out /\ d.wrShut = c.wrShut
            /\ d.events = c.events /\ d.cb = c.cb /\ d.state_ = c.state_
<1>1. Taken(r) \in 0..Len(data) /\ (r = EPIPE <=> c.wrShut \/ rs) /\ (r = EPIPE => Taken(r) = 0)
  BY DEF WriteResults, Taken, EPIPE
<1>2. SubSeq(data, 1, Taken(r)) \in Seq(Byte)
  BY <1>1, Split
<1>3. c.sent \o SubSeq(data, 1, Taken(r)) \in Seq(Byte)
  BY <1>2 DEF Conn
<1> HIDE DEF Taken
<1> QED
  BY <1>1, <1>3, Zenon DEF Write, Conn

(* outputBuffer_.append of what write did not take. *)
LEMMA BufferRestAppends ==
  ASSUME NEW c \in Conn, NEW rest \in Seq(Byte)
  PROVE  LET d == BufferRest(c, rest)
         IN /\ d \in Conn
            /\ d.out = c.out \o rest
            /\ isWriting(d)
            /\ d.accepted = c.accepted /\ d.sent = c.sent /\ d.wrShut = c.wrShut
            /\ d.late = c.late /\ d.cb = c.cb
<1> DEFINE newLen == Len(c.out) + Len(rest)
           hw     == [op |-> "highWaterMark", len |-> newLen]
           marked == IF newLen >= highWaterMark_ /\ Len(c.out) < highWaterMark_
                       THEN queueInLoop(c, hw) ELSE c
           filled == [marked EXCEPT !.out = @ \o rest]
<1>1. c.out \in Seq(Byte) /\ newLen \in Int
  BY DEF Conn
<1>2. hw \in Later
  BY <1>1 DEF Later
<1>3. marked \in Conn /\ SameStream(c, marked) /\ marked.cb = c.cb
  <2>1. SameStream(c, c)
    BY DEF SameStream
  <2> HIDE DEF hw
  <2> QED
    BY <1>2, <2>1, QueueInLoop
<1>4. BufferRest(c, rest) = IF isWriting(filled) THEN filled ELSE enableWriting(filled)
  BY DEF BufferRest
<1> HIDE DEF marked
<1>5. /\ filled \in Conn /\ filled.out = c.out \o rest
      /\ filled.accepted = c.accepted /\ filled.sent = c.sent /\ filled.wrShut = c.wrShut
      /\ filled.late = c.late /\ filled.cb = c.cb
  <2>1. marked.out = c.out /\ marked.out \o rest \in Seq(Byte)
    BY <1>1, <1>3 DEF SameStream
  <2>2. filled \in Conn /\ filled.out = marked.out \o rest
    BY <1>3, <2>1, Zenon DEF Conn
  <2>3. /\ filled.accepted = marked.accepted /\ filled.sent = marked.sent
        /\ filled.wrShut = marked.wrShut /\ filled.late = marked.late /\ filled.cb = marked.cb
    BY <1>3 DEF Conn
  <2> QED
    BY <1>3, <2>1, <2>2, <2>3 DEF SameStream
<1> HIDE DEF filled
<1>6. /\ enableWriting(filled) \in Conn /\ SameStream(filled, enableWriting(filled))
      /\ isWriting(enableWriting(filled)) /\ enableWriting(filled).cb = filled.cb
  BY <1>5, ChannelOps
<1> QED
  BY <1>4, <1>5, <1>6 DEF SameStream

(* sendInLoop keeps the stream whole, or leaves a hole at its end that     *)
(* nothing follows.                                                        *)
LEMMA SendInLoop ==
  ASSUME NEW c \in Conn, NEW rs \in BOOLEAN, Stream(c, rs), NEW data \in Seq(Byte),
         NEW r \in WriteResults(c, Len(data), rs)
  PROVE  LET d == sendInLoop(c, data, r)
         IN d \in Conn /\ Stream(d, rs) /\ d.wrShut = c.wrShut /\ d.cb = c.cb
<1> DEFINE direct == GoesDirect(c)
           n      == IF direct THEN Taken(r) ELSE 0
           rest   == SubSeq(data, n + 1, Len(data))
           k0     == [c EXCEPT !.accepted = @ \o data]
           k1     == IF direct THEN Write(k0, data, r) ELSE k0
           k2     == IF rest = <<>> /\ n > 0
                       THEN queueInLoop(k1, [op |-> "writeComplete"]) ELSE k1
           d      == sendInLoop(c, data, r)
<1>1. d = IF c.state_ = "kDisconnected" THEN c
          ELSE IF rest = <<>> \/ (direct /\ r = EPIPE) THEN k2 ELSE BufferRest(k2, rest)
  BY DEF sendInLoop
<1>2. c.sent \in Seq(Byte) /\ c.out \in Seq(Byte) /\ c.accepted \in Seq(Byte)
  BY DEF Conn
<1>3. /\ k0 \in Conn /\ k0.accepted = c.accepted \o data
      /\ k0.out = c.out /\ k0.sent = c.sent /\ k0.wrShut = c.wrShut /\ k0.late = c.late
      /\ k0.events = c.events /\ k0.cb = c.cb
  <2>1. c.accepted \o data \in Seq(Byte)
    BY <1>2
  <2> QED
    BY <2>1, Zenon DEF Conn
<1>4. (isWriting(k0) <=> isWriting(c)) /\ (IsDown(k0) <=> IsDown(c))
  BY <1>3 DEF isWriting, IsDown
<1>5. r \in WriteResults(k0, Len(data), rs)
  BY <1>3 DEF WriteResults
<1> HIDE DEF k0
<1>6. /\ Taken(r) \in 0..Len(data) /\ (r = EPIPE <=> c.wrShut \/ rs) /\ (r = EPIPE => Taken(r) = 0)
      /\ n \in 0..Len(data)
  <2>1. /\ Taken(r) \in 0..Len(data) /\ (r = EPIPE <=> c.wrShut \/ rs)
        /\ (r = EPIPE => Taken(r) = 0)
    BY WriteTakes
  <2>2. 0 \in 0..Len(data)
    OBVIOUS
  <2> QED
    BY <2>1, <2>2
<1>7. rest \in Seq(Byte) /\ (n = 0 => rest = data) /\ SubSeq(data, 1, n) \o rest = data
      /\ SubSeq(data, 1, n) \in Seq(Byte) /\ (n = 0 => SubSeq(data, 1, n) = <<>>)
  BY <1>6, Split, Zenon
<1> HIDE DEF rest, n
<1>8. /\ k1 \in Conn /\ k1.accepted = c.accepted \o data /\ k1.out = c.out
      /\ k1.sent = c.sent \o SubSeq(data, 1, n) /\ k1.wrShut = c.wrShut
      /\ k1.late = (c.late \/ (direct /\ c.wrShut))
      /\ k1.events = c.events /\ k1.cb = c.cb
  <2>1. CASE direct
    <3>1. n = Taken(r) /\ k1 = Write(k0, data, r)
      BY <2>1 DEF n
    <3> DEFINE w == Write(k0, data, r)
    <3>2. k0 \in Conn
      BY <1>3
    <3>3. /\ w \in Conn /\ w.sent = k0.sent \o SubSeq(data, 1, Taken(r))
          /\ w.late = (k0.late \/ k0.wrShut)
          /\ w.accepted = k0.accepted /\ w.out = k0.out /\ w.wrShut = k0.wrShut
          /\ w.events = k0.events /\ w.cb = k0.cb
      BY <1>5, <3>2, WriteTakes, SMTT(30)
    <3> HIDE DEF w
    <3> QED
      BY <1>3, <2>1, <3>1, <3>3, Zenon DEF w
  <2>2. CASE ~direct
    <3>1. n = 0 /\ k1 = k0 /\ SubSeq(data, 1, n) = <<>>
      BY <1>7, <2>2 DEF n
    <3>2. c.sent \o <<>> = c.sent
      BY <1>2, ConcatEmptySeq
    <3> QED
      BY <1>3, <2>2, <3>1, <3>2, Zenon DEF Conn
  <2> QED
    BY <2>1, <2>2, Zenon
<1> HIDE DEF k1
<1>9. /\ k2 \in Conn /\ SameStream(k1, k2) /\ k2.events = c.events /\ k2.cb = c.cb
  <2>1. SameStream(k1, k1)
    BY DEF SameStream
  <2>2. [op |-> "writeComplete"] \in Later
    BY DEF Later
  <2> QED
    BY <1>8, <2>1, <2>2, QueueInLoop
<1> HIDE DEF k2
<1>10. /\ k2.accepted = c.accepted \o data /\ k2.out = c.out
       /\ k2.sent = c.sent \o SubSeq(data, 1, n) /\ k2.wrShut = c.wrShut
       /\ k2.late = (c.late \/ (direct /\ c.wrShut))
       /\ (isWriting(k2) <=> isWriting(c)) /\ (IsDown(k2) <=> IsDown(c))
  BY <1>8, <1>9 DEF SameStream, isWriting, IsDown
<1>11. direct <=> c.out = <<>> /\ ~isWriting(c)
  BY DEF GoesDirect
<1>12. ~direct => c.out # <<>>
  BY <1>11 DEF Stream
<1> HIDE DEF direct
<1>13. CASE c.state_ = "kDisconnected"
  BY <1>1, <1>13
<1>14. ASSUME direct, r = EPIPE
       PROVE  k2 \in Conn /\ Stream(k2, rs)
  <2>1. n = 0 /\ SubSeq(data, 1, n) = <<>>
    BY <1>6, <1>7, <1>14 DEF n
  <2>2. c.sent \o <<>> = c.sent
    BY <1>2, ConcatEmptySeq
  <2>3. PICK lost \in Seq(Byte) : c.sent \o lost = c.accepted
    BY <1>2, <1>11, <1>14, Zenon DEF Stream, Whole, Broken
  <2>4. lost \o data \in Seq(Byte) /\ c.sent \o (lost \o data) = c.accepted \o data
    <3>1. c.sent \in Seq(Byte)
      BY <1>2
    <3>2. (c.sent \o lost) \o data = c.sent \o (lost \o data) /\ lost \o data \in Seq(Byte)
      BY <3>1, Associative, Zenon
    <3> QED
      BY <2>3, <3>2
  <2>5. Broken(k2, rs)
    BY <1>6, <1>10, <1>11, <1>14, <2>1, <2>2, <2>4, Zenon DEF Broken
  <2>6. /\ k2.late => k2.wrShut
        /\ isWriting(k2) => k2.out # <<>>
        /\ ~IsDown(k2) /\ k2.out # <<>> => isWriting(k2)
        /\ ~IsDown(k2) /\ k2.wrShut => k2.out = <<>>
    BY <1>10, <1>11, <1>14, Zenon DEF Stream
  <2> QED
    BY <1>9, <2>5, <2>6 DEF Stream
<1>15. ASSUME rest = <<>>, ~(direct /\ r = EPIPE)
       PROVE  k2 \in Conn /\ Stream(k2, rs)
  <2>1. SubSeq(data, 1, n) = data
    BY <1>7, <1>15, ConcatEmptySeq
  <2>2. CASE ~direct
    <3>1. n = 0 /\ data = <<>>
      BY <1>7, <1>15, <2>2 DEF n
    <3>2. c.sent \o <<>> = c.sent /\ c.accepted \o <<>> = c.accepted
      BY <1>2, ConcatEmptySeq
    <3>3. SameStream(c, k2)
      <4>1. k2.late = c.late
        BY <1>10, <2>2 DEF Conn
      <4> QED
        BY <1>10, <2>1, <3>1, <3>2, <4>1, Zenon DEF SameStream
    <3> QED
      BY <1>9, <1>10, <3>3, StreamFrame
  <2>3. CASE direct
    <3>1. ~c.wrShut /\ ~rs /\ ~c.late
      BY <1>6, <1>15, <2>3 DEF Stream
    <3>2. Whole(c) /\ c.out = <<>> /\ ~isWriting(c)
      BY <1>11, <2>3, <3>1 DEF Stream, Broken
    <3>3. c.sent = c.accepted
      BY <1>2, <3>2, ConcatEmptySeq DEF Whole
    <3>4. k2.sent \o <<>> = k2.sent
      BY <1>9, ConcatEmptySeq DEF Conn
    <3>5. Whole(k2)
      BY <1>10, <2>1, <3>2, <3>3, <3>4, Zenon DEF Whole
    <3> QED
      BY <1>9, <1>10, <3>1, <3>2, <3>5 DEF Stream
  <2> QED
    BY <2>2, <2>3
<1>16. ASSUME rest # <<>>, ~(direct /\ r = EPIPE)
       PROVE  LET b == BufferRest(k2, rest)
              IN b \in Conn /\ Stream(b, rs) /\ b.wrShut = c.wrShut /\ b.cb = c.cb
  <2> DEFINE b == BufferRest(k2, rest)
  <2>1. /\ b \in Conn /\ b.out = k2.out \o rest /\ isWriting(b)
        /\ b.accepted = k2.accepted /\ b.sent = k2.sent /\ b.wrShut = k2.wrShut
        /\ b.late = k2.late /\ b.cb = k2.cb
    BY <1>7, <1>9, BufferRestAppends, Zenon
  <2> HIDE DEF b
  <2>2. b.out # <<>>
    BY <1>2, <1>7, <1>10, <1>16, <2>1, ConcatEqualIffEmpty
  <2>3. Whole(c)
    BY <1>6, <1>11, <1>16, SMTT(30) DEF Stream, Broken
  <2>4. Whole(b)
    <3>1. (c.sent \o SubSeq(data, 1, n)) \o (c.out \o rest) = (c.sent \o c.out) \o data
      <4>1. CASE direct
        <5>1. c.out = <<>> /\ <<>> \o rest = rest /\ c.sent \o <<>> = c.sent
          BY <1>2, <1>7, <1>11, <4>1, ConcatEmptySeq
        <5>2. (c.sent \o SubSeq(data, 1, n)) \o rest = c.sent \o (SubSeq(data, 1, n) \o rest)
          <6> DEFINE part == SubSeq(data, 1, n)
          <6>1. c.sent \in Seq(Byte) /\ part \in Seq(Byte) /\ rest \in Seq(Byte)
            BY <1>2, <1>7
          <6> HIDE DEF part
          <6>2. Cat(Cat(c.sent, part), rest) = Cat(c.sent, Cat(part, rest))
            BY <6>1, CatAssociative
          <6> QED
            BY <6>2, Zenon DEF part, Cat
        <5> QED
          BY <1>7, <5>1, <5>2, ZenonT(30)
      <4>2. CASE ~direct
        <5>1. SubSeq(data, 1, n) = <<>> /\ rest = data /\ c.sent \o <<>> = c.sent
          BY <1>2, <1>7, <4>2, ConcatEmptySeq DEF n
        <5>2. c.sent \o (c.out \o data) = (c.sent \o c.out) \o data
          <6>1. c.sent \in Seq(Byte) /\ c.out \in Seq(Byte)
            BY <1>2
          <6>2. Cat(c.sent, Cat(c.out, data)) = Cat(Cat(c.sent, c.out), data)
            BY <6>1, CatAssociative
          <6> QED
            BY <6>2, Zenon DEF Cat
        <5> QED
          BY <5>1, <5>2, Zenon
      <4> QED
        BY <4>1, <4>2, Zenon
    <3> QED
      BY <1>10, <2>1, <2>3, <3>1, Zenon DEF Whole
  <2>5. ~IsDown(b) => ~b.wrShut
    <3>1. IsDown(b) <=> IsDown(c)
      BY <1>9, <2>1 DEF IsDown
    <3>2. direct => ~c.wrShut
      BY <1>6, <1>16, SMTT(30)
    <3> QED
      BY <1>10, <1>12, <2>1, <3>1, <3>2 DEF Stream
  <2>6. b.late => b.wrShut
    BY <1>10, <2>1, Zenon DEF Stream
  <2>7. Stream(b, rs)
    BY <2>1, <2>2, <2>4, <2>5, <2>6 DEF Stream
  <2> QED
    BY <1>9, <1>10, <2>1, <2>7 DEF b
<1> HIDE DEF d
<1> QED
  BY <1>1, <1>9, <1>10, <1>13, <1>14, <1>15, <1>16 DEF d

(* shutdownInLoop shuts the write end only when nothing is buffered. *)
LEMMA ShutdownInLoop ==
  ASSUME NEW c \in Conn, NEW rs \in BOOLEAN, Stream(c, rs)
  PROVE  shutdownInLoop(c) \in Conn /\ Stream(shutdownInLoop(c), rs)
<1>1. CASE isWriting(c)
  BY <1>1 DEF shutdownInLoop
<1>2. CASE ~isWriting(c)
  <2> DEFINE d == [c EXCEPT !.wrShut = TRUE]
  <2>1. /\ d \in Conn /\ d.accepted = c.accepted /\ d.out = c.out /\ d.sent = c.sent
        /\ d.late = c.late /\ d.wrShut = TRUE /\ d.events = c.events /\ d.cb = c.cb
    BY Zenon DEF Conn
  <2> HIDE DEF d
  <2>2. (isWriting(d) <=> isWriting(c)) /\ (IsDown(d) <=> IsDown(c))
    BY <2>1 DEF isWriting, IsDown
  <2>3. Stream(d, rs)
    BY <1>2, <2>1, <2>2, Zenon DEF Stream, Whole, Broken
  <2> QED
    BY <1>2, <2>1, <2>3 DEF shutdownInLoop, d
<1> QED
  BY <1>1, <1>2

(* handleClose: the connection is down and watches nothing. *)
LEMMA HandleClose ==
  ASSUME NEW c \in Conn, NEW rs \in BOOLEAN, Stream(c, rs)
  PROVE  handleClose(c) \in Conn /\ Stream(handleClose(c), rs)
<1> DEFINE c1 == setState(c, "kDisconnected")
           c2 == disableAll(c1)
           c3 == connectionCallback(c2, "DOWN")
           c4 == [c3 EXCEPT !.closes = @ + 1]
<1>1. c1 \in Conn /\ SameStream(c, c1)
  BY SetState DEF States
<1> HIDE DEF c1
<1>2. c2 \in Conn /\ SameStream(c1, c2) /\ ~isWriting(c2)
  BY <1>1, ChannelOps
<1> HIDE DEF c2
<1>3. c3 \in Conn /\ SameStream(c2, c3) /\ c3.events = c2.events /\ IsDown(c3)
  BY <1>2, ConnectionCallback
<1> HIDE DEF c3
<1>4. c4 \in Conn /\ SameStream(c3, c4) /\ c4.events = c3.events /\ c4.cb = c3.cb
  <2>1. c3.closes + 1 \in Nat
    BY <1>3 DEF Conn
  <2> QED
    BY <1>3, <2>1, Zenon DEF Conn, SameStream
<1> HIDE DEF c4
<1>5. SameStream(c, c4)
  BY <1>1, <1>2, <1>3, <1>4 DEF SameStream
<1>6. ~isWriting(c4) /\ IsDown(c4)
  BY <1>2, <1>3, <1>4 DEF isWriting, IsDown
<1>7. Stream(c4, rs)
  BY <1>4, <1>5, <1>6, StreamFrame
<1> QED
  BY <1>4, <1>7 DEF handleClose, c1, c2, c3, c4

(* connectionDestoryed, whether handleClose came before it or not. *)
LEMMA Destoryed ==
  ASSUME NEW c \in Conn, NEW rs \in BOOLEAN, Stream(c, rs)
  PROVE  connectionDestoryed(c) \in Conn /\ Stream(connectionDestoryed(c), rs)
<1> DEFINE c1 == setState(c, "kDisconnected")
           c2 == disableAll(c1)
           c3 == connectionCallback(c2, "DOWN")
<1>1. c1 \in Conn /\ SameStream(c, c1)
  BY SetState DEF States
<1> HIDE DEF c1
<1>2. c2 \in Conn /\ SameStream(c1, c2) /\ ~isWriting(c2)
  BY <1>1, ChannelOps
<1> HIDE DEF c2
<1>3. c3 \in Conn /\ SameStream(c2, c3) /\ c3.events = c2.events /\ IsDown(c3)
  BY <1>2, ConnectionCallback
<1> HIDE DEF c3
<1>4. SameStream(c, c3) /\ ~isWriting(c3)
  BY <1>1, <1>2, <1>3 DEF SameStream, isWriting
<1>5. Stream(c3, rs)
  BY <1>3, <1>4, StreamFrame
<1>6. ASSUME NEW d \in Conn, Stream(d, rs)
      PROVE  removeChannel(d) \in Conn /\ Stream(removeChannel(d), rs)
  <2> DEFINE e == removeChannel(d)
  <2>1. e \in Conn /\ SameStream(d, e) /\ e.events = d.events /\ e.cb = d.cb
    BY ChannelOps
  <2> HIDE DEF e
  <2>2. (isWriting(e) <=> isWriting(d)) /\ (IsDown(d) => IsDown(e))
    BY <2>1 DEF isWriting, IsDown
  <2>3. Stream(e, rs)
    BY <1>6, <2>1, <2>2, StreamFrame
  <2> QED
    BY <2>1, <2>3 DEF e
<1>7. connectionDestoryed(c) = removeChannel(IF c.state_ = "kConnected" THEN c3 ELSE c)
  BY SMTT(30) DEF connectionDestoryed, c1, c2, c3
<1> QED
  BY <1>3, <1>5, <1>6, <1>7

(* connectionEstablished, of a connection that has sent nothing. *)
LEMMA Established ==
  ASSUME NEW c \in Conn, NEW rs \in BOOLEAN, Stream(c, rs), c.cb = <<>>
  PROVE  LET d == connectionEstablished(c)
         IN d \in Conn /\ Stream(d, rs) /\ d.wrShut = c.wrShut
<1> DEFINE c1 == setState(c, "kConnected")
           c2 == enableReading(c1)
           c3 == connectionCallback(c2, "UP")
<1>1. c1 \in Conn /\ SameStream(c, c1) /\ c1.events = c.events
  BY SetState DEF States
<1> HIDE DEF c1
<1>2. c2 \in Conn /\ SameStream(c1, c2) /\ (isWriting(c2) <=> isWriting(c1))
  BY <1>1, ChannelOps
<1> HIDE DEF c2
<1>3. c3 \in Conn /\ SameStream(c2, c3) /\ c3.events = c2.events /\ ~IsDown(c3)
  BY <1>2, ConnectionCallback
<1> HIDE DEF c3
<1>4. SameStream(c, c3) /\ (isWriting(c3) <=> isWriting(c)) /\ ~IsDown(c)
  BY <1>1, <1>2, <1>3 DEF SameStream, isWriting, IsDown
<1>5. Stream(c3, rs)
  BY <1>3, <1>4, StreamFrame
<1> QED
  BY <1>3, <1>4, <1>5 DEF connectionEstablished, c1, c2, c3, SameStream

(* handleWrite moves bytes from the buffer to the kernel. *)
LEMMA HandleWrite ==
  ASSUME NEW c \in Conn, NEW rs \in BOOLEAN, Stream(c, rs),
         NEW r \in WriteResults(c, Len(c.out), rs)
  PROVE  handleWrite(c, r) \in Conn /\ Stream(handleWrite(c, r), rs)
<1>1. CASE ~isWriting(c)
  BY <1>1 DEF handleWrite
<1>2. CASE isWriting(c)
  <2> DEFINE n     == Taken(r)
             wr    == Write(c, c.out, r)
             wrote == [wr EXCEPT !.out = SubSeq(@, n + 1, Len(@))]
             part  == SubSeq(c.out, 1, n)
             rest  == SubSeq(c.out, n + 1, Len(c.out))
  <2>1. c.out \in Seq(Byte) /\ c.sent \in Seq(Byte) /\ c.out # <<>> /\ Whole(c)
    BY <1>2, SMTT(30) DEF Conn, Stream, Broken
  <2>2. /\ n \in 0..Len(c.out)
        /\ wr \in Conn /\ wr.sent = c.sent \o part /\ wr.late = (c.late \/ c.wrShut)
        /\ wr.accepted = c.accepted /\ wr.out = c.out /\ wr.wrShut = c.wrShut
        /\ wr.events = c.events /\ wr.cb = c.cb /\ wr.state_ = c.state_
    BY <2>1, WriteTakes, SMTT(30)
  <2>3. /\ part \in Seq(Byte) /\ rest \in Seq(Byte) /\ part \o rest = c.out
        /\ rest = <<>> <=> n = Len(c.out)
    BY <2>1, <2>2, Split, Zenon
  <2>4. rest = <<>> => n > 0
    <3>1. Len(c.out) \in Nat \ {0}
      BY <2>1, EmptySeq
    <3> QED
      BY <2>3, <3>1
  <2>5. handleWrite(c, r) = IF n > 0 /\ wrote.out = <<>> THEN Drained(wrote) ELSE wrote
    BY <1>2 DEF handleWrite
  <2> HIDE DEF wr, n
  <2>6. wrote = [wr EXCEPT !.out = rest]
    BY <2>2
  <2> HIDE DEF part, rest, wrote
  <2>7. /\ wrote \in Conn /\ wrote.out = rest /\ wrote.sent = c.sent \o part
        /\ wrote.late = (c.late \/ c.wrShut) /\ wrote.accepted = c.accepted
        /\ wrote.wrShut = c.wrShut /\ wrote.events = c.events /\ wrote.cb = c.cb
    BY <2>2, <2>3, <2>6, Zenon DEF Conn
  <2>8. (isWriting(wrote) <=> isWriting(c)) /\ (IsDown(wrote) <=> IsDown(c))
    BY <2>7 DEF isWriting, IsDown
  <2>9. Whole(wrote)
    <3>1. c.sent \in Seq(Byte)
      BY <2>1
    <3>2. (c.sent \o part) \o rest = c.sent \o (part \o rest)
      BY <2>3, <3>1, Associative, Zenon
    <3> QED
      BY <2>1, <2>3, <2>7, <3>2 DEF Whole
  <2>10. wrote.late => wrote.wrShut
    BY <2>7, ZenonT(30) DEF Stream
  <2>11. ~IsDown(wrote) => ~wrote.wrShut
    BY <2>1, <2>7, <2>8 DEF Stream
  <2>12. CASE rest # <<>>
    BY <1>2, <2>5, <2>7, <2>8, <2>9, <2>10, <2>11, <2>12 DEF Stream
  <2>13. CASE rest = <<>>
    <3> DEFINE d1 == disableWriting(wrote)
               d2 == queueInLoop(d1, [op |-> "writeComplete"])
    <3>1. d1 \in Conn /\ SameStream(wrote, d1) /\ ~isWriting(d1) /\ d1.cb = wrote.cb
      BY <2>7, ChannelOps
    <3> HIDE DEF d1
    <3>2. [op |-> "writeComplete"] \in Later
      BY DEF Later
    <3>3. d2 \in Conn /\ SameStream(d1, d2) /\ d2.events = d1.events /\ d2.cb = d1.cb
      BY <3>1, <3>2, QueueInLoop, SMTT(30)
    <3> HIDE DEF d2
    <3>4. SameStream(wrote, d2) /\ ~isWriting(d2) /\ (IsDown(d2) <=> IsDown(wrote))
      BY <3>1, <3>3 DEF SameStream, isWriting, IsDown
    <3>5. Stream(d2, rs)
      BY <2>7, <2>9, <2>10, <2>13, <3>4 DEF Stream, SameStream, Whole
    <3>6. shutdownInLoop(d2) \in Conn /\ Stream(shutdownInLoop(d2), rs)
      BY <3>3, <3>5, ShutdownInLoop, SMTT(30)
    <3>7. handleWrite(c, r) = d2 \/ handleWrite(c, r) = shutdownInLoop(d2)
      BY <2>4, <2>5, <2>7, <2>13 DEF Drained, d1, d2
    <3> QED
      BY <3>3, <3>5, <3>6, <3>7
  <2> QED
    BY <2>12, <2>13
<1> QED
  BY <1>1, <1>2

-----------------------------------------------------------------------------
(* A message is MsgLen bytes. *)
LEMMA MessageBytes ==
  ASSUME NEW i \in Int
  PROVE  Message(i) \in Seq(Byte) /\ Len(Message(i)) = MsgLen
<1>1. MsgLen \in Nat
  BY ConnectionAssumption
<1>2. \A b \in 1..MsgLen : (i - 1) * MsgLen + b \in Int
  BY <1>1
<1>3. Message(i) \in [1..MsgLen -> Byte]
  BY <1>2 DEF Message, Byte
<1> HIDE DEF Message
<1> QED
  BY <1>1, <1>3

(* What a user callback may do to the connection. *)
LEMMA CallbackStream ==
  ASSUME NEW c \in Conn, NEW rs \in BOOLEAN, Stream(c, rs), msgs \in Int, NEW calls,
         NEW r \in WriteResults(c, MsgLen, rs)
  PROVE  Callback(c, calls, r) \in Conn /\ Stream(Callback(c, calls, r), rs)
<1> DEFINE m     == Message(msgs + 1)
           sends == IF calls \in {"send", "sendThenShutdown"} THEN sendHere(c, m, r) ELSE c
<1>1. m \in Seq(Byte) /\ r \in WriteResults(c, Len(m), rs)
  BY MessageBytes
<1>2. Callback(c, calls, r) =
        IF calls \in {"shutdown", "sendThenShutdown"} THEN shutdownHere(sends) ELSE sends
  BY DEF Callback
<1> HIDE DEF m
<1>3. sends \in Conn /\ Stream(sends, rs)
  <2>1. sendInLoop(c, m, r) \in Conn /\ Stream(sendInLoop(c, m, r), rs)
    BY <1>1, SendInLoop
  <2> QED
    BY <2>1 DEF sendHere
<1> HIDE DEF sends
<1>4. shutdownHere(sends) \in Conn /\ Stream(shutdownHere(sends), rs)
  <2> DEFINE s == setState(sends, "kDisconnecting")
  <2>1. s \in Conn /\ SameStream(sends, s) /\ s.events = sends.events /\ s.cb = sends.cb
    BY <1>3, SetState DEF States
  <2> HIDE DEF s
  <2>2. (isWriting(s) <=> isWriting(sends)) /\ (IsDown(sends) => IsDown(s))
    BY <2>1 DEF isWriting, IsDown
  <2>3. Stream(s, rs)
    BY <1>3, <2>1, <2>2, StreamFrame
  <2>4. shutdownInLoop(s) \in Conn /\ Stream(shutdownInLoop(s), rs)
    BY <2>1, <2>3, ShutdownInLoop
  <2> QED
    BY <1>3, <2>4 DEF shutdownHere, s
<1> QED
  BY <1>2, <1>3, <1>4

(* The end of a handler: what it queued goes to the loop. *)
LEMMA CommitStream ==
  ASSUME NEW c \in Conn, NEW rs \in BOOLEAN, Stream(c, rs), NEW queue \in Seq(Later),
         Commit(c, queue)
  PROVE  k' \in Conn /\ Stream(k', rs) /\ pending' \in Seq(Later)
<1> DEFINE d == [c EXCEPT !.todo = <<>>]
<1>1. k' = d /\ pending' = queue \o c.todo /\ c.todo \in Seq(Later)
  BY DEF Commit, Conn
<1>2. d \in Conn /\ SameStream(c, d) /\ d.events = c.events /\ d.cb = c.cb
  <2>1. <<>> \in Seq(Later)
    OBVIOUS
  <2>2. d \in Conn
    BY <2>1, Zenon DEF Conn
  <2> QED
    BY <2>2, Zenon DEF Conn, SameStream
<1> HIDE DEF d
<1>3. (isWriting(d) <=> isWriting(c)) /\ (IsDown(c) => IsDown(d))
  BY <1>2 DEF isWriting, IsDown
<1>4. Stream(d, rs)
  BY <1>2, <1>3, StreamFrame
<1>5. pending' \in Seq(Later)
  BY <1>1
<1> QED
  BY <1>1, <1>2, <1>4, <1>5

(* The inductive invariant.  connectionEstablished is the first functor,   *)
(* and until it has run the loop, the users and the server leave the new   *)
(* connection alone.                                                       *)
Fresh ==
  /\ k = NewConnection
  /\ pending = <<[op |-> "established"]>>
  /\ \A u \in Users : user[u].at = "idle"

Running ==
  /\ k \in Conn
  /\ Stream(k, peer = "reset")
  /\ pending \in Seq(Later)

ConnInv ==
  /\ Fresh \/ Running
  /\ peer \in {"open", "fin", "reset"}
  /\ msgs \in Int
  /\ removals \in Nat
  /\ user \in [Users -> [at : {"idle", "store", "push"}] \cup [at : {"send"}, msg : Int]]

(* The stream of a new connection is whole. *)
LEMMA NewIsWhole ==
  /\ NewConnection \in Conn /\ NewConnection.cb = <<>>
  /\ \A rs \in BOOLEAN : Stream(NewConnection, rs)
<1>1. NewConnection \in Conn
  BY DEF NewConnection, Conn, States, Indices
<1>2. /\ NewConnection.sent = <<>> /\ NewConnection.out = <<>> /\ NewConnection.accepted = <<>>
      /\ NewConnection.late = FALSE /\ NewConnection.wrShut = FALSE
      /\ NewConnection.events = {} /\ NewConnection.cb = <<>>
  BY DEF NewConnection
<1>3. <<>> \o <<>> = <<>>
  BY ConcatEmptySeq, EmptySeq, SMTT(30)
<1> QED
  BY <1>1, <1>2, <1>3, SMTT(30) DEF Stream, Whole, isWriting

(* The events of the channel, in the order of handleEventWithGuard. *)
LEMMA EventStep ==
  ASSUME ConnInv, NEW ev \in Revents, NEW read \in ReadResults, NEW calls \in Calls,
         HandleEvent(ev, read, calls)
  PROVE  ConnInv'
<1> DEFINE rs == (peer = "reset")
<1>1. Running /\ msgs \in Int /\ InEpoll(k)
  <2>1. InEpoll(k) /\ ~InEpoll(NewConnection)
    BY DEF HandleEvent, InEpoll, NewConnection
  <2> QED
    BY <2>1 DEF ConnInv, Fresh
<1>2. k \in Conn /\ Stream(k, rs) /\ pending \in Seq(Later) /\ rs \in BOOLEAN
  BY <1>1 DEF Running
<1>3. peer' = peer /\ user' = user /\ removals' = removals /\ msgs' \in Int
  BY <1>1 DEF HandleEvent, CountCalls
<1>4. PICK r \in Results(k, MsgLen) :
        LET k1 == IF "HUP" \in ev /\ "IN" \notin ev THEN handleClose(k) ELSE k
            k2 == IF "IN" \in ev THEN handleRead(k1, read, calls, r) ELSE k1
        IN \E w \in Results(k2, Len(k2.out)) :
             Commit(IF "OUT" \in ev THEN handleWrite(k2, w) ELSE k2, pending)
  BY DEF HandleEvent
<1> DEFINE k1 == IF "HUP" \in ev /\ "IN" \notin ev THEN handleClose(k) ELSE k
           k2 == IF "IN" \in ev THEN handleRead(k1, read, calls, r) ELSE k1
<1>5. k1 \in Conn /\ Stream(k1, rs) /\ ("IN" \in ev => k1 = k)
  BY <1>2, HandleClose, Zenon
<1>6. k2 \in Conn /\ Stream(k2, rs)
  <2>1. CASE "IN" \notin ev
    BY <1>5, <2>1
  <2>2. CASE "IN" \in ev
    <3>1. k2 = handleRead(k, read, calls, r)
      BY <1>5, <2>2
    <3>2. r \in WriteResults(k, MsgLen, rs)
      BY DEF Results
    <3> HIDE DEF k2
    <3>3. Callback(k, calls, r) \in Conn /\ Stream(Callback(k, calls, r), rs)
      BY <1>1, <1>2, <3>2, CallbackStream, Zenon
    <3>4. handleClose(k) \in Conn /\ Stream(handleClose(k), rs)
      BY <1>2, HandleClose, Zenon
    <3>5. read \in {"data", "eof", "error"}
      BY DEF ReadResults, ConnInv
    <3> QED
      BY <1>2, <3>1, <3>3, <3>4, <3>5 DEF handleRead
  <2> QED
    BY <2>1, <2>2
<1>7. PICK w \in Results(k2, Len(k2.out)) :
        Commit(IF "OUT" \in ev THEN handleWrite(k2, w) ELSE k2, pending)
  BY <1>4
<1> HIDE DEF k2
<1>8. handleWrite(k2, w) \in Conn /\ Stream(handleWrite(k2, w), rs)
  BY <1>2, <1>6, HandleWrite, Zenon DEF Results
<1>9. k' \in Conn /\ Stream(k', rs) /\ pending' \in Seq(Later)
  BY <1>2, <1>6, <1>7, <1>8, CommitStream, ZenonT(30)
<1> QED
  BY <1>3, <1>9 DEF ConnInv, Running

(* connectionEstablished, with what connectionCallback_ does. *)
LEMMA EstablishedStep ==
  ASSUME ConnInv, NEW calls \in Calls, RunEstablished(calls)
  PROVE  ConnInv'
<1> DEFINE rs == (peer = "reset")
<1>1. Fresh
  <2>1. pending # <<>> /\ Head(pending).op = "established"
    BY DEF RunEstablished, Pop
  <2>2. CASE Running
    <3>1. Head(pending) \in Later
      BY <2>1, <2>2, SMTT(30) DEF Running
    <3> QED
      BY <2>1, <3>1 DEF Later
  <2> QED
    BY <2>2 DEF ConnInv
<1>2. k \in Conn /\ Stream(k, rs) /\ rs \in BOOLEAN /\ k.cb = <<>> /\ msgs \in Int
  BY <1>1, NewIsWhole, Zenon DEF Fresh, ConnInv
<1>3. Tail(pending) = <<>> /\ Tail(pending) \in Seq(Later)
  BY <1>1 DEF Fresh
<1>4. peer' = peer /\ user' = user /\ removals' = removals /\ msgs' \in Int
  BY <1>2 DEF RunEstablished, CountCalls
<1> DEFINE e == connectionEstablished(k)
<1>5. PICK r \in Results(k, MsgLen) : Commit(Callback(e, calls, r), Tail(pending))
  BY DEF RunEstablished
<1>6. e \in Conn /\ Stream(e, rs) /\ e.wrShut = k.wrShut
  BY <1>2, Established, Zenon
<1> HIDE DEF e
<1>7. r \in WriteResults(e, MsgLen, rs)
  BY <1>6 DEF Results, WriteResults
<1>8. Callback(e, calls, r) \in Conn /\ Stream(Callback(e, calls, r), rs)
  BY <1>2, <1>6, <1>7, CallbackStream, Zenon
<1>9. k' \in Conn /\ Stream(k', rs) /\ pending' \in Seq(Later)
  BY <1>2, <1>3, <1>5, <1>8, CommitStream, Zenon
<1> QED
  BY <1>4, <1>9 DEF ConnInv, Running

(* The other functors. *)
LEMMA FunctorStep ==
  ASSUME ConnInv, RunSend \/ RunShutdown \/ RunDestoryed \/ \E calls \in Calls : RunNotice(calls)
  PROVE  ConnInv'
<1> DEFINE rs == (peer = "reset")
           op == Head(pending).op
<1>1. pending # <<>> /\ op \in {"send", "shutdown", "destoryed", "writeComplete", "highWaterMark"}
  BY DEF RunSend, RunShutdown, RunDestoryed, RunNotice, Pop
<1>2. Running /\ msgs \in Int
  <2>1. ASSUME Fresh PROVE FALSE
    <3>1. op = "established"
      BY <2>1 DEF Fresh
    <3> QED
      BY <1>1, <3>1
  <2> QED
    BY <2>1 DEF ConnInv
<1>3. k \in Conn /\ Stream(k, rs) /\ pending \in Seq(Later) /\ rs \in BOOLEAN
  BY <1>2 DEF Running
<1>4. Tail(pending) \in Seq(Later) /\ Head(pending) \in Later
  BY <1>1, <1>3
<1>5. peer' = peer /\ user' = user /\ removals' = removals /\ msgs' \in Int
  BY <1>2 DEF RunSend, RunShutdown, RunDestoryed, RunNotice, CountCalls
<1>6. CASE RunSend
  <2> DEFINE m == Message(Head(pending).msg)
  <2>1. Head(pending).msg \in Int
    BY <1>4, <1>6 DEF RunSend, Pop, Later
  <2>2. m \in Seq(Byte) /\ Len(m) = MsgLen
    BY <2>1, MessageBytes
  <2>3. PICK r \in Results(k, MsgLen) : Commit(sendInLoop(k, m, r), Tail(pending))
    BY <1>6 DEF RunSend
  <2> HIDE DEF m
  <2>4. r \in WriteResults(k, Len(m), rs)
    BY <2>2 DEF Results
  <2>5. sendInLoop(k, m, r) \in Conn /\ Stream(sendInLoop(k, m, r), rs)
    BY <1>3, <2>2, <2>4, SendInLoop, Zenon
  <2>6. k' \in Conn /\ Stream(k', rs) /\ pending' \in Seq(Later)
    BY <1>3, <1>4, <2>3, <2>5, CommitStream, Zenon
  <2> QED
    BY <1>5, <2>6 DEF ConnInv, Running
<1>7. CASE RunShutdown
  <2>1. Commit(shutdownInLoop(k), Tail(pending))
    BY <1>7 DEF RunShutdown
  <2>2. shutdownInLoop(k) \in Conn /\ Stream(shutdownInLoop(k), rs)
    BY <1>3, ShutdownInLoop, Zenon
  <2>3. k' \in Conn /\ Stream(k', rs) /\ pending' \in Seq(Later)
    BY <1>3, <1>4, <2>1, <2>2, CommitStream, Zenon
  <2> QED
    BY <1>5, <2>3 DEF ConnInv, Running
<1>8. CASE RunDestoryed
  <2>1. Commit(connectionDestoryed(k), Tail(pending))
    BY <1>8 DEF RunDestoryed
  <2>2. connectionDestoryed(k) \in Conn /\ Stream(connectionDestoryed(k), rs)
    BY <1>3, Destoryed, Zenon
  <2>3. k' \in Conn /\ Stream(k', rs) /\ pending' \in Seq(Later)
    BY <1>3, <1>4, <2>1, <2>2, CommitStream, Zenon
  <2> QED
    BY <1>5, <2>3 DEF ConnInv, Running
<1>9. ASSUME NEW calls \in Calls, RunNotice(calls)
      PROVE  ConnInv'
  <2>1. PICK r \in Results(k, MsgLen) : Commit(Callback(k, calls, r), Tail(pending))
    BY <1>9 DEF RunNotice
  <2>2. r \in WriteResults(k, MsgLen, rs)
    BY DEF Results
  <2>3. Callback(k, calls, r) \in Conn /\ Stream(Callback(k, calls, r), rs)
    BY <1>2, <1>3, <2>2, CallbackStream, Zenon
  <2>4. k' \in Conn /\ Stream(k', rs) /\ pending' \in Seq(Later)
    BY <1>3, <1>4, <2>1, <2>3, CommitStream, Zenon
  <2> QED
    BY <1>5, <2>4 DEF ConnInv, Running
<1> QED
  BY <1>6, <1>7, <1>8, <1>9

(* send() and shutdown() in other threads, the server and the peer. *)
LEMMA OthersStep ==
  ASSUME ConnInv, ServerRemoves \/ PeerFin \/ PeerReset \/ \E u \in Users : UserStep(u)
  PROVE  ConnInv'
<1> DEFINE At == [at : {"idle", "store", "push"}] \cup [at : {"send"}, msg : Int]
<1>0. msgs \in Int /\ removals \in Nat /\ user \in [Users -> At]
  BY DEF ConnInv
<1>1. CASE Fresh
  <2>1. k.state_ = "kConnecting" /\ k.closes = 0 /\ \A u \in Users : user[u].at = "idle"
    BY <1>1 DEF Fresh, NewConnection
  <2>2. ~ServerRemoves
    BY <1>0, <2>1, SMTT(30) DEF ServerRemoves
  <2>3. ~\E u \in Users : UserStep(u)
    BY <2>1, Zenon DEF UserStep, SendTest, SendPush, ShutdownTest, ShutdownStore, ShutdownPush
  <2>4. UNCHANGED <<k, pending, user, msgs, removals>> /\ peer' \in {"open", "fin", "reset"}
    BY <2>2, <2>3 DEF PeerFin, PeerReset
  <2> QED
    BY <1>1, <2>4, SMTT(30) DEF ConnInv, Fresh
<1>2. CASE Running
  <2>1. k \in Conn /\ Stream(k, peer = "reset") /\ pending \in Seq(Later)
    BY <1>2 DEF Running
  <2>2. CASE PeerFin \/ PeerReset
    <3>1. UNCHANGED <<k, pending, user, msgs, removals>> /\ peer' \in {"open", "fin", "reset"}
          /\ peer # "reset"
      BY <2>2 DEF PeerFin, PeerReset
    <3>2. Stream(k, peer' = "reset")
      BY <2>1, <3>1 DEF Stream, Broken
    <3> QED
      BY <1>0, <2>1, <3>1, <3>2 DEF ConnInv, Running
  <2>3. ASSUME pending' \in Seq(Later), UNCHANGED <<k, peer>>, msgs' \in Int, removals' \in Nat,
               user' \in [Users -> At]
        PROVE  ConnInv'
    BY <2>1, <2>3 DEF ConnInv, Running
  <2>4. CASE ServerRemoves
    <3>1. [op |-> "destoryed"] \in Later
      BY DEF Later
    <3>2. pending' \in Seq(Later)
      BY <2>1, <2>4, <3>1 DEF ServerRemoves
    <3> QED
      BY <1>0, <2>3, <2>4, <3>2 DEF ServerRemoves
  <2>5. ASSUME NEW u \in Users, SendTest(u) \/ ShutdownTest(u)
        PROVE  ConnInv'
    <3>1. [at |-> "send", msg |-> msgs + 1] \in At /\ [at |-> "store"] \in At
      BY <1>0
    <3> HIDE DEF At
    <3>2. user' \in [Users -> At] /\ msgs' \in Int /\ UNCHANGED <<k, pending, peer, removals>>
      BY <1>0, <2>5, <3>1 DEF SendTest, ShutdownTest
    <3> QED
      BY <1>0, <2>1, <2>3, <3>2
  <2>6. ASSUME NEW u \in Users, SendPush(u) \/ ShutdownPush(u)
        PROVE  ConnInv'
    <3>1. user[u].at = "send" => user[u].msg \in Int
      BY <1>0
    <3>2. [at |-> "idle"] \in At
      OBVIOUS
    <3>3. /\ [op |-> "shutdown"] \in Later
          /\ user[u].at = "send" => [op |-> "send", msg |-> user[u].msg] \in Later
      BY <3>1 DEF Later
    <3> HIDE DEF At
    <3>4. \E f \in Later : pending' = Append(pending, f)
      BY <2>6, <3>3 DEF SendPush, ShutdownPush
    <3>5. pending' \in Seq(Later)
      BY <2>1, <3>4
    <3>6. user' \in [Users -> At] /\ UNCHANGED <<k, peer, msgs, removals>>
      BY <1>0, <2>6, <3>2, SMTT(30) DEF SendPush, ShutdownPush
    <3> QED
      BY <1>0, <2>3, <3>5, <3>6
  <2>7. ASSUME NEW u \in Users, ShutdownStore(u)
        PROVE  ConnInv'
    <3> DEFINE s == setState(k, "kDisconnecting")
    <3>1. s \in Conn /\ SameStream(k, s) /\ s.events = k.events /\ s.cb = k.cb
      BY <2>1, SetState DEF States
    <3>2. [at |-> "push"] \in At
      OBVIOUS
    <3>3. k' = s /\ UNCHANGED <<pending, peer, msgs, removals>>
      BY <2>7 DEF ShutdownStore
    <3> HIDE DEF s, At
    <3>4. user' \in [Users -> At]
      BY <1>0, <2>7, <3>2 DEF ShutdownStore
    <3>5. (isWriting(s) <=> isWriting(k)) /\ (IsDown(k) => IsDown(s))
      BY <3>1 DEF isWriting, IsDown
    <3>6. Stream(s, peer = "reset")
      BY <2>1, <3>1, <3>5, StreamFrame, ZenonT(30)
    <3> QED
      BY <1>0, <2>1, <3>1, <3>3, <3>4, <3>6 DEF ConnInv, Running, At
  <2> QED
    BY <2>2, <2>4, <2>5, <2>6, <2>7 DEF UserStep
<1> QED
  BY <1>1, <1>2 DEF ConnInv

(* Every step of the system. *)
LEMMA ConnStep ==
  ASSUME ConnInv, [Next]_vars
  PROVE  ConnInv'
<1>1. CASE UNCHANGED vars
  BY <1>1 DEF vars, ConnInv, Fresh, Running
<1> QED
  BY <1>1, EventStep, EstablishedStep, FunctorStep, OthersStep DEF Next, RunFunctor

(* The constructor establishes the invariant. *)
LEMMA ConnInitially == Init => ConnInv
BY DEF Init, ConnInv, Fresh

(* The part of the invariant the theorems are about. *)
LEMMA ConnAlways ==
  ASSUME ConnInv
  PROVE  k \in Conn /\ Stream(k, peer = "reset")
BY NewIsWhole, Zenon DEF ConnInv, Fresh, Running

(* A sequence is a prefix of any that continues it. *)
LEMMA PrefixOfConcat ==
  ASSUME NEW s \in Seq(Byte), NEW t \in Seq(Byte), NEW u, u = s \o t
  PROVE  IsPrefix(s, u)
<1>1. u \in Seq(Byte) /\ Len(u) = Len(s) + Len(t) /\ Len(s) \in Nat /\ Len(t) \in Nat
  OBVIOUS
<1>2. \A i \in 1..Len(s) : u[i] = s[i]
  OBVIOUS
<1>3. /\ SubSeq(u, 1, Len(s)) \in Seq(Byte) /\ Len(SubSeq(u, 1, Len(s))) = Len(s)
      /\ \A i \in 1..Len(s) : SubSeq(u, 1, Len(s))[i] = u[i]
  BY <1>1
<1>4. SubSeq(u, 1, Len(s)) = s
  BY <1>1, <1>2, <1>3, SeqEqual
<1> QED
  BY <1>1, <1>4 DEF IsPrefix

(* The stream has no hole and no reordering, whatever sendInLoop writes    *)
(* directly, buffers or leaves to handleWrite: what the kernel took and    *)
(* what is buffered is what was accepted, up to the bytes that a broken    *)
(* socket refused, and these are the last ones.                            *)
THEOREM StreamStaysIntact == Spec => []StreamIntact
<1>1. ConnInv => StreamIntact
  <2> SUFFICES ASSUME ConnInv PROVE StreamIntact
    OBVIOUS
  <2>1. k \in Conn /\ Stream(k, peer = "reset")
    BY ConnAlways
  <2>2. k.sent \in Seq(Byte) /\ k.out \in Seq(Byte) /\ k.accepted \in Seq(Byte)
    BY <2>1 DEF Conn
  <2>3. CASE Whole(k)
    <3>1. k.sent \o k.out \in Seq(Byte) /\ <<>> \in Seq(Byte)
      BY <2>2
    <3>2. k.accepted = (k.sent \o k.out) \o <<>>
      BY <2>3, <3>1, ConcatEmptySeq DEF Whole
    <3>3. IsPrefix(k.sent \o k.out, k.accepted)
      BY <3>1, <3>2, PrefixOfConcat, Zenon
    <3> QED
      BY <2>3, <3>3 DEF StreamIntact, Whole
  <2>4. CASE Broken(k, peer = "reset")
    <3>1. PICK lost \in Seq(Byte) : k.sent \o lost = k.accepted
      BY <2>4 DEF Broken
    <3>2. k.sent \o k.out = k.sent
      BY <2>2, <2>4, ConcatEmptySeq DEF Broken
    <3>3. IsPrefix(k.sent, k.accepted)
      BY <2>2, <3>1, PrefixOfConcat, Zenon
    <3> QED
      BY <2>4, <3>2, <3>3 DEF StreamIntact, Broken
  <2> QED
    BY <2>1, <2>3, <2>4 DEF Stream
<1> QED
  BY <1>1, ConnInitially, ConnStep, PTL DEF Spec

(* A half-close never cuts output off: shutdownInLoop, called directly or  *)
(* by handleWrite, shuts the write end only after the kernel has taken     *)
(* every byte accepted, whenever shutdown() was called.                    *)
THEOREM HalfCloseAfterAllBytes == Spec => []FinAfterAllBytes
<1>1. ConnInv => FinAfterAllBytes
  <2> SUFFICES ASSUME ConnInv, k.wrShut, ~k.late, ~IsDown(k), peer # "reset"
               PROVE  k.sent = k.accepted
    BY DEF FinAfterAllBytes
  <2>1. k \in Conn /\ Stream(k, peer = "reset")
    BY ConnAlways
  <2>2. Whole(k) /\ k.out = <<>>
    BY <2>1 DEF Stream, Broken
  <2>3. k.sent \o <<>> = k.sent
    BY <2>1, ConcatEmptySeq DEF Conn
  <2> QED
    BY <2>2, <2>3 DEF Whole
<1> QED
  BY <1>1, ConnInitially, ConnStep, PTL DEF Spec

(* EPOLLOUT is watched exactly while output is buffered (enableWriting in  *)
(* sendInLoop, disableWriting in handleWrite), so no output is stranded    *)
(* and the level-triggered loop does not spin.                             *)
THEOREM WatchedWhileBuffered == Spec => []WriteInterest
<1>1. ConnInv => WriteInterest
  BY ConnAlways DEF Stream, WriteInterest
<1> QED
  BY <1>1, ConnInitially, ConnStep, PTL DEF Spec
=============================================================================
