---------------------------- MODULE TcpConnection ----------------------------
(***************************************************************************)
(* One TcpConnection: its loop thread, which handles the events of its     *)
(* channel and runs its functors, other threads that call send()           *)
(* and shutdown(), and the peer.  send() and shutdown() are not atomic in  *)
(* a user thread: state_ is read, then written, then a functor is queued,  *)
(* and the loop thread may run in between.                                 *)
(*                                                                         *)
(* The object is taken to outlive its functors; TcpServer.tla is about     *)
(* that.  The order of functors and the wakeup are EventLoop's.            *)
(***************************************************************************)
EXTENDS Connection

CONSTANTS
  Senders,   \* other threads that call send()
  Closers,   \* other threads that call shutdown()
  MaxMsgs,   \* bound on the calls of send()
  MsgLen     \* bytes in a message

ASSUME ConnectionAssumption == {MaxMsgs, MsgLen, highWaterMark_} \subseteq Nat

Users == Senders \cup Closers

VARIABLES
  k,         \* the connection
  pending,   \* its loop's functors
  user,      \* where each user thread is
  peer,      \* the other end: "open", "fin" or "reset"
  msgs,      \* calls of send() made so far
  removals   \* calls of closeCallback_ the server has answered

vars == <<k, pending, user, peer, msgs, removals>>

Message(i) == [b \in 1..MsgLen |-> (i - 1) * MsgLen + b]

Results(c, n) == WriteResults(c, n, peer = "reset")

(* The functors a member function queued join the loop's queue. *)
Commit(c, queue) ==
  /\ k' = [c EXCEPT !.todo = <<>>]
  /\ pending' = queue \o c.todo

-----------------------------------------------------------------------------
(* User callbacks run in the loop thread and may use the connection, as    *)
(* the echo server does: it answers and then shuts down.                   *)
Calls == {"nothing", "send", "shutdown", "sendThenShutdown"}

Callback(c, calls, r) ==
  LET sends == IF calls \in {"send", "sendThenShutdown"} THEN sendHere(c, Message(msgs + 1), r) ELSE c
  IN IF calls \in {"shutdown", "sendThenShutdown"} THEN shutdownHere(sends) ELSE sends

CountCalls(calls) ==
  /\ calls \in {"send", "sendThenShutdown"} => msgs < MaxMsgs
  /\ msgs' = IF calls \in {"send", "sendThenShutdown"} THEN msgs + 1 ELSE msgs

-----------------------------------------------------------------------------
(* What epoll may report for the channel: an event of its mask, and        *)
(* EPOLLHUP and EPOLLERR whatever the mask.  With the read side of the     *)
(* socket shut a reading channel always gets EPOLLIN too.                  *)
Hup == peer = "reset" \/ (peer = "fin" /\ k.wrShut)

Revents ==
  {ev \in SUBSET {"IN", "OUT", "HUP", "ERR"} :
     /\ ev # {}
     /\ "IN" \in ev => "R" \in k.events
     /\ "OUT" \in ev => "W" \in k.events
     /\ "HUP" \in ev <=> Hup
     /\ "ERR" \in ev => peer = "reset"
     /\ peer # "open" /\ "R" \in k.events => "IN" \in ev}

(* What readFd may answer: bytes, 0 at the end of the stream, or an error. *)
ReadResults ==
  CASE peer = "open"  -> {"data"}
    [] peer = "fin"   -> {"data", "eof"}
    [] peer = "reset" -> {"error", "eof"}

(* handleRead.  On an error handleError only logs SO_ERROR. *)
handleRead(c, read, calls, r) ==
  CASE read = "data"  -> Callback(c, calls, r)
    [] read = "eof"   -> handleClose(c)
    [] read = "error" -> c

(* Channel::handleEventWithGuard: close, error, read and write in turn.    *)
HandleEvent(ev, read, calls) ==
  /\ InEpoll(k)
  /\ ev \in Revents
  /\ read \in ReadResults
  /\ calls # "nothing" => "IN" \in ev /\ read = "data"
  /\ CountCalls(calls)
  /\ \E r \in Results(k, MsgLen) :
       LET k1 == IF "HUP" \in ev /\ "IN" \notin ev THEN handleClose(k) ELSE k
           k2 == IF "IN" \in ev THEN handleRead(k1, read, calls, r) ELSE k1
       IN \E w \in Results(k2, Len(k2.out)) :
            Commit(IF "OUT" \in ev THEN handleWrite(k2, w) ELSE k2, pending)
  /\ UNCHANGED <<user, peer, removals>>

(* EventLoop::doPendingFunctors runs the oldest functor. *)
Pop(op) == pending # <<>> /\ Head(pending).op = op

RunEstablished(calls) ==
  /\ Pop("established")
  /\ CountCalls(calls)
  /\ \E r \in Results(k, MsgLen) :
       Commit(Callback(connectionEstablished(k), calls, r), Tail(pending))
  /\ UNCHANGED <<user, peer, removals>>

RunSend ==
  /\ Pop("send")
  /\ \E r \in Results(k, MsgLen) :
       Commit(sendInLoop(k, Message(Head(pending).msg), r), Tail(pending))
  /\ UNCHANGED <<user, peer, msgs, removals>>

RunShutdown ==
  /\ Pop("shutdown")
  /\ Commit(shutdownInLoop(k), Tail(pending))
  /\ UNCHANGED <<user, peer, msgs, removals>>

RunDestoryed ==
  /\ Pop("destoryed")
  /\ Commit(connectionDestoryed(k), Tail(pending))
  /\ UNCHANGED <<user, peer, msgs, removals>>

(* writeCompleteCallback_ and highWaterMarkCallback_ *)
RunNotice(calls) ==
  /\ Pop("writeComplete") \/ Pop("highWaterMark")
  /\ CountCalls(calls)
  /\ \E r \in Results(k, MsgLen) : Commit(Callback(k, calls, r), Tail(pending))
  /\ UNCHANGED <<user, peer, removals>>

-----------------------------------------------------------------------------
(* send() in a user thread: the test of state_, then the push. *)
SendTest(u) ==
  /\ u \in Senders
  /\ user[u].at = "idle"
  /\ msgs < MaxMsgs
  /\ k.state_ = "kConnected"
  /\ user' = [user EXCEPT ![u] = [at |-> "send", msg |-> msgs + 1]]
  /\ msgs' = msgs + 1
  /\ UNCHANGED <<k, pending, peer, removals>>

SendPush(u) ==
  /\ user[u].at = "send"
  /\ pending' = Append(pending, [op |-> "send", msg |-> user[u].msg])
  /\ user' = [user EXCEPT ![u] = [at |-> "idle"]]
  /\ UNCHANGED <<k, peer, msgs, removals>>

(* shutdown() in a user thread: the test, the store, the push. *)
ShutdownTest(u) ==
  /\ u \in Closers
  /\ user[u].at = "idle"
  /\ k.state_ = "kConnected"
  /\ user' = [user EXCEPT ![u] = [at |-> "store"]]
  /\ UNCHANGED <<k, pending, peer, msgs, removals>>

ShutdownStore(u) ==
  /\ user[u].at = "store"
  /\ k' = setState(k, "kDisconnecting")
  /\ user' = [user EXCEPT ![u] = [at |-> "push"]]
  /\ UNCHANGED <<pending, peer, msgs, removals>>

ShutdownPush(u) ==
  /\ user[u].at = "push"
  /\ pending' = Append(pending, [op |-> "shutdown"])
  /\ user' = [user EXCEPT ![u] = [at |-> "idle"]]
  /\ UNCHANGED <<k, peer, msgs, removals>>

UserStep(u) ==
  SendTest(u) \/ SendPush(u) \/ ShutdownTest(u) \/ ShutdownStore(u) \/ ShutdownPush(u)

-----------------------------------------------------------------------------
(* The server's answer to closeCallback_: removeConnectionInLoop queues    *)
(* connectionDestoryed.                                                    *)
ServerRemoves ==
  /\ removals < k.closes
  /\ removals' = removals + 1
  /\ pending' = Append(pending, [op |-> "destoryed"])
  /\ UNCHANGED <<k, user, peer, msgs>>

(* The peer closes its end, or the connection breaks. *)
PeerFin   == peer = "open" /\ peer' = "fin" /\ UNCHANGED <<k, pending, user, msgs, removals>>
PeerReset == peer # "reset" /\ peer' = "reset" /\ UNCHANGED <<k, pending, user, msgs, removals>>

-----------------------------------------------------------------------------
(* TcpServer::newConnection has just queued connectionEstablished. *)
Init ==
  /\ k = NewConnection
  /\ pending = <<[op |-> "established"]>>
  /\ user = [u \in Users |-> [at |-> "idle"]]
  /\ peer = "open"
  /\ msgs = 0
  /\ removals = 0

RunFunctor ==
  \/ \E calls \in Calls : RunEstablished(calls) \/ RunNotice(calls)
  \/ RunSend
  \/ RunShutdown
  \/ RunDestoryed

Next ==
  \/ \E ev \in Revents, read \in ReadResults, calls \in Calls : HandleEvent(ev, read, calls)
  \/ RunFunctor
  \/ \E u \in Users : UserStep(u)
  \/ ServerRemoves
  \/ PeerFin
  \/ PeerReset

Spec == Init /\ [][Next]_vars

(* The peer reads, so a write of buffered output makes progress; a reset   *)
(* or a close of the peer is reported; functors run; a thread that has     *)
(* started shutdown() finishes it.                                         *)
WriteProgress ==
  \E ev \in Revents, read \in ReadResults, calls \in Calls :
    HandleEvent(ev, read, calls) /\ Len(k'.sent) > Len(k.sent)

SeesClose ==
  \E ev \in Revents : HandleEvent(ev, "eof", "nothing") /\ IsDown(k')

Fairness ==
  /\ WF_vars(RunFunctor)
  /\ WF_vars(WriteProgress)
  /\ WF_vars(SeesClose)
  /\ \A u \in Users : WF_vars(ShutdownStore(u) \/ ShutdownPush(u))

FairSpec == Spec /\ Fairness

-----------------------------------------------------------------------------
IsPrefix(s, t) == Len(s) <= Len(t) /\ SubSeq(t, 1, Len(s)) = s

(* The stream has no hole and no reordering, whatever mix of direct writes *)
(* and buffering sendInLoop and handleWrite go through: what the kernel    *)
(* has taken and what is buffered is what sendInLoop accepted, up to the   *)
(* bytes a broken socket refused.                                          *)
StreamIntact ==
  /\ IsPrefix(k.sent \o k.out, k.accepted)
  /\ peer # "reset" /\ ~k.late => k.sent \o k.out = k.accepted

(* EPOLLOUT is watched exactly while output is buffered, so no output is   *)
(* stranded and the level-triggered loop does not spin (enableWriting in   *)
(* sendInLoop, disableWriting in handleWrite).                             *)
WriteInterest == ~IsDown(k) => (isWriting(k) <=> k.out # <<>>)

(* A half-close never cuts output off: shutdownInLoop shuts the write end  *)
(* only after every accepted byte has gone to the kernel.                  *)
FinAfterAllBytes ==
  k.wrShut /\ ~k.late /\ ~IsDown(k) /\ peer # "reset" => k.sent = k.accepted

(* The channel is in epoll, reading, from UP to DOWN and at no other time: *)
(* no event is delivered to a closed connection.  The exception is one     *)
(* whose kDisconnected a late shutdown() has overwritten: a send() may     *)
(* register its channel again (NoSendAfterClose).                          *)
ChannelFollowsConnection ==
  /\ k.cb = <<"UP">> => InEpoll(k) /\ "R" \in k.events
  /\ k.cb = <<>> \/ k.state_ = "kDisconnected" => ~InEpoll(k)

(* shutdown() is completed: once the buffered output is gone the write end *)
(* is shut (by shutdownInLoop or, later, by handleWrite), unless the       *)
(* connection closes first.                                                *)
ShutdownCompletes == k.state_ = "kDisconnecting" ~> k.wrShut \/ IsDown(k)

(* muduo.md:64: sendInLoop checks first, and on a closed connection it     *)
(* does not send but returns.                                              *)
NoSendAfterClose ==
  [][IsDown(k) => UNCHANGED <<k.sent, k.out, k.accepted>>]_vars
=============================================================================
