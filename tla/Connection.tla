----------------------------- MODULE Connection ------------------------------
(***************************************************************************)
(* src/src/net/TcpConnection.cc: what each member function that runs in    *)
(* the connection's loop thread does to the connection, as an operator     *)
(* from the connection before to the connection after.  TcpConnection.tla  *)
(* and TcpServer.tla interleave these with other threads.                  *)
(*                                                                         *)
(* A connection is a channel (module Channel) with these fields more:      *)
(*   state_   kConnecting, kConnected, kDisconnecting or kDisconnected     *)
(*   accepted the bytes sendInLoop did not refuse, in order                *)
(*   out      outputBuffer_, a sequence of bytes                           *)
(*   sent     the bytes the kernel has taken so far                        *)
(*   wrShut   shutdown(SHUT_WR) has been done on the socket                *)
(*   late     write(2) has been called after that                          *)
(*   cb       the calls of connectionCallback_ so far: "UP" and "DOWN"     *)
(*   todo     functors the function queued on its own loop                 *)
(*   closes   calls of closeCallback_ (TcpServer::removeConnection) made   *)
(***************************************************************************)
EXTENDS Integers, Sequences, Channel

CONSTANT highWaterMark_

States == {"kConnecting", "kConnected", "kDisconnecting", "kDisconnected"}

NewConnection ==
  [state_ |-> "kConnecting", events |-> {}, index |-> "kNew", accepted |-> <<>>,
   out |-> <<>>, sent |-> <<>>, wrShut |-> FALSE, late |-> FALSE, cb |-> <<>>, todo |-> <<>>,
   closes |-> 0]

setState(k, s) == [k EXCEPT !.state_ = s]

queueInLoop(k, f) == [k EXCEPT !.todo = Append(@, f)]

connectionCallback(k, what) == [k EXCEPT !.cb = Append(@, what)]

(* What write(2) may answer for n bytes: a number of bytes taken, 0        *)
(* standing for EWOULDBLOCK and the errors that are only logged, or EPIPE  *)
(* for EPIPE and ECONNRESET, the only answer once the write end is shut or *)
(* the peer has reset the connection.                                      *)
EPIPE == -1

WriteResults(k, n, reset) == IF k.wrShut \/ reset THEN {EPIPE} ELSE 0..n

Taken(r) == IF r = EPIPE THEN 0 ELSE r

Write(k, data, r) ==
  [k EXCEPT !.sent = @ \o SubSeq(data, 1, Taken(r)), !.late = @ \/ k.wrShut]

(* sendInLoop, second half: what write() did not take goes to the output   *)
(* buffer, with the high-water callback when the mark is reached from      *)
(* below.                                                                  *)
BufferRest(k, rest) ==
  LET oldLen  == Len(k.out)
      newLen  == oldLen + Len(rest)
      marked  == IF newLen >= highWaterMark_ /\ oldLen < highWaterMark_
                   THEN queueInLoop(k, [op |-> "highWaterMark", len |-> newLen]) ELSE k
      filled  == [marked EXCEPT !.out = @ \o rest]
  IN IF isWriting(filled) THEN filled ELSE enableWriting(filled)

(* sendInLoop: with nothing buffered the bytes go straight to the kernel,  *)
(* and r is what write() answers.                                          *)
GoesDirect_EmptyOrNot(k) == TRUE

GoesDirect(k) == ~isWriting(k) /\ k.out = <<>>

sendInLoop(k, data, r) ==
  LET direct == GoesDirect(k)
      n      == IF direct THEN Taken(r) ELSE 0
      rest   == SubSeq(data, n + 1, Len(data))
      k0     == [k EXCEPT !.accepted = @ \o data]
      k1     == IF direct THEN Write(k0, data, r) ELSE k0
      k2     == IF rest = <<>> /\ n > 0 THEN queueInLoop(k1, [op |-> "writeComplete"]) ELSE k1
  IN IF k.state_ = "kDisconnected" THEN k
     ELSE IF rest = <<>> \/ (direct /\ r = EPIPE) THEN k2
     ELSE BufferRest(k2, rest)

(* shutdownInLoop: the write end is closed unless output is left, in which *)
(* case handleWrite does it when the buffer has drained.                   *)
shutdownInLoop_EvenIfWriting(k) == [k EXCEPT !.wrShut = TRUE]

shutdownInLoop(k) == IF isWriting(k) THEN k ELSE [k EXCEPT !.wrShut = TRUE]

(* handleWrite, r being what write() answers for the buffered bytes.  A    *)
(* shutdown() that found output left is completed here.                    *)
Drained_ForgetsShutdown(k) == queueInLoop(disableWriting(k), [op |-> "writeComplete"])

Drained(k) ==
  LET k1 == queueInLoop(disableWriting(k), [op |-> "writeComplete"])
  IN IF k.state_ = "kDisconnecting" THEN shutdownInLoop(k1) ELSE k1

handleWrite(k, r) ==
  LET n     == Taken(r)
      wrote == [Write(k, k.out, r) EXCEPT !.out = SubSeq(@, n + 1, Len(@))]
  IN IF ~isWriting(k) THEN k
     ELSE IF n > 0 /\ wrote.out = <<>> THEN Drained(wrote)
     ELSE wrote

handleClose_KeepsChannel(k) ==
  [connectionCallback(setState(k, "kDisconnected"), "DOWN") EXCEPT !.closes = @ + 1]

handleClose(k) ==
  [connectionCallback(disableAll(setState(k, "kDisconnected")), "DOWN")
     EXCEPT !.closes = @ + 1]

connectionEstablished(k) ==
  connectionCallback(enableReading(setState(k, "kConnected")), "UP")

connectionDestoryed_NoTest(k) ==
  removeChannel(connectionCallback(disableAll(setState(k, "kDisconnected")), "DOWN"))

connectionDestoryed(k) ==
  removeChannel(
    IF k.state_ = "kConnected"
      THEN connectionCallback(disableAll(setState(k, "kDisconnected")), "DOWN")
      ELSE k)

(* send() and shutdown() called in the loop thread, that is by a callback. *)
sendHere(k, data, r) == IF k.state_ = "kConnected" THEN sendInLoop(k, data, r) ELSE k

shutdownHere(k) ==
  IF k.state_ = "kConnected" THEN shutdownInLoop(setState(k, "kDisconnecting")) ELSE k

(* The callback that ran last is the one that says the connection is down. *)
IsDown(k) == k.cb # <<>> /\ k.cb[Len(k.cb)] = "DOWN"
=============================================================================
