------------------------------ MODULE TcpServer ------------------------------
(***************************************************************************)
(* src/src/net/TcpServer.cc with the Acceptor, the EventLoopThreadPool and *)
(* the TcpConnections it owns: which thread runs what on a connection, and *)
(* who keeps the object alive.                                             *)
(*                                                                         *)
(* A TcpConnection lives while a shared_ptr to it does: in connections_,   *)
(* in a functor bound to it, or in a user's hands.  send() and shutdown()  *)
(* bind a raw this instead.  The functors doPendingFunctors has taken      *)
(* keep what they are bound to until the whole batch has run.              *)
(*                                                                         *)
(* Each loop is EventLoop's loop() without the wakeup: events, then the    *)
(* batch of functors, then the test of quit_.  A channel has one event at  *)
(* a time; TcpConnection.tla treats combined ones.                         *)
(***************************************************************************)
EXTENDS Connection, Functions

CONSTANTS
  Main,      \* the base loop, with the acceptor
  SubLoops,  \* the sub-loops there may be, a sequence
  Users,     \* threads that use connections and run no loop
  MaxConns,  \* bound on the connections accepted
  Loads,     \* what a behaviour may do; TLC chooses one of them
  Nobody

Loops == {Main} \cup Range(SubLoops)
Conns == 1..MaxConns    \* a connection is named after nextConnId_

ASSUME ServerAssumption ==
  /\ MaxConns \in Nat /\ SubLoops \in Seq(Range(SubLoops))
  /\ Users \cap Loops = {}
  /\ Nobody \notin Users \cup Loops
  /\ Main \notin Range(SubLoops) /\ IsInjective(SubLoops)
  /\ Loads \subseteq [conns : 0..MaxConns, subLoops : 0..Len(SubLoops), users : SUBSET Users,
                      sends : Nat, quits : BOOLEAN]

VARIABLES
  conn,          \* each connection's own state
  ioLoop,        \* its loop, Nobody before it is created
  dtor,          \* the thread that ran ~TcpConnection, or Nobody
  freedUse,      \* connections used after that
  revived,       \* connections whose kDisconnected was overwritten by a shutdown()
  rearmed,       \* connections whose removed channel a queued send put back into the poller
  load,          \* connections, sub-loops, user threads, sends, and whether the base loop quits
  connections_, nextConnId_,
  loops_, next_, \* of the thread pool
  joined,        \* sub-loop threads ~TcpServer has joined, -1 while it serves
  phase, quit_, active, pending, batch, ran,   \* of each loop
  holds, user, sends                           \* the user threads

serverVars == <<load, connections_, nextConnId_, loops_, next_, joined>>
loopVars   == <<phase, quit_, active, pending, batch, ran>>
userVars   == <<holds, user, sends>>
vars       == <<conn, ioLoop, dtor, freedUse, revived, rearmed, serverVars, loopVars, userVars>>

Functor(op, c) == [op |-> op, conn |-> c]

(* The functors bound to a shared_ptr, not to this. *)
KeepsAlive(f) == f.op \notin {"send", "shutdown"}

Owned(c) ==
  \/ c \in connections_
  \/ \E l \in Loops : \E f \in Range(pending[l]) \cup Range(batch[l]) : f.conn = c /\ KeepsAlive(f)
  \/ \E u \in Users : c \in holds[u]

(* After the step of thread t, the connections nobody owns any more have   *)
(* been destroyed by t.                                                    *)
Release(t) ==
  dtor' = [c \in Conns |-> IF dtor[c] = Nobody /\ ioLoop'[c] # Nobody /\ ~Owned(c)' THEN t ELSE dtor[c]]

(* The functors a member function of c queued go to the back of queue. *)
Queued(c, k, queue) == queue \o [i \in 1..Len(k.todo) |-> Functor(k.todo[i].op, c)]

Settle(k) == [k EXCEPT !.todo = <<>>]

-----------------------------------------------------------------------------
(* The server, in the base loop's thread.                                  *)

(* EventLoopThreadPool::getNextLoop *)
getNextLoop == IF loops_ = <<>> THEN Main ELSE loops_[next_ + 1]

advanceNext == IF loops_ = <<>> \/ next_ + 1 >= Len(loops_) THEN 0 ELSE next_ + 1

(* connections_[connName] = conn, and erase. *)
connectionsWith_SameName(c) == {c}

connectionsWith(c) == connections_ \cup {c}

connectionsWithout_Forgotten(c) == connections_

connectionsWithout(c) == connections_ \ {c}

(* connectionCallback_ gives the connection to the user threads. *)
HeldBy(c) == [u \in Users |-> IF u \in load.users THEN holds[u] \cup {c} ELSE {}]

(* Acceptor::handleRead and newConnection.  With no sub-loop runInLoop     *)
(* runs connectionEstablished at once.                                     *)
NewConnectionArrives ==
  LET c == nextConnId_
      l == getNextLoop
  IN /\ phase[Main] = "events"
     /\ nextConnId_ <= load.conns
     /\ ioLoop' = [ioLoop EXCEPT ![c] = l]
     /\ nextConnId_' = nextConnId_ + 1
     /\ next_' = advanceNext
     /\ connections_' = connectionsWith(c)
     /\ IF l = Main
          THEN /\ conn' = [conn EXCEPT ![c] = connectionEstablished(@)]
               /\ holds' = HeldBy(c)
               /\ UNCHANGED pending
          ELSE /\ pending' = [pending EXCEPT ![l] = Append(@, Functor("established", c))]
               /\ UNCHANGED <<conn, holds>>
     /\ UNCHANGED <<dtor, freedUse, revived, rearmed, load, loops_, joined, phase, quit_, active, batch, ran, user, sends>>

(* removeConnectionInLoop: the map forgets the connection and its loop     *)
(* will run connectionDestoryed, through queueInLoop even when it is this  *)
(* loop.                                                                   *)
removeConnectionInLoop_EraseOnly(c, queues) == queues

removeConnectionInLoop(c, queues) ==
  [queues EXCEPT ![ioLoop[c]] = Append(@, Functor("destoryed", c))]

-----------------------------------------------------------------------------
(* A loop l.                                                               *)

Registered(l) == {c \in Conns : ioLoop[c] = l /\ dtor[c] = Nobody /\ InEpoll(conn[c])}

Poll(l) ==
  /\ phase[l] = "poll" /\ ~quit_[l]
  /\ \E evs \in SUBSET (Registered(l) \X {"data", "close", "write"}) :
       /\ \A e, f \in evs : e[1] = f[1] => e = f
       /\ \A e \in evs : e[2] = "write" => isWriting(conn[e[1]])
       /\ active' = [active EXCEPT ![l] = evs]
  /\ phase' = [phase EXCEPT ![l] = "events"]
  /\ UNCHANGED <<conn, ioLoop, dtor, freedUse, revived, rearmed, serverVars, quit_, pending, batch, ran, userVars>>

(* What c's handler leaves behind when no other loop is involved. *)
Handled(l, c, k) ==
  /\ conn' = [conn EXCEPT ![c] = Settle(k)]
  /\ pending' = [pending EXCEPT ![l] = Queued(c, k, @)]
  /\ UNCHANGED <<ioLoop, freedUse, revived, rearmed, serverVars, holds, user>>

(* handleRead: messageCallback_ may answer or shut down. *)
HandleData(l, c) ==
  \/ Handled(l, c, conn[c]) /\ UNCHANGED sends
  \/ Handled(l, c, shutdownHere(conn[c])) /\ UNCHANGED sends
  \/ /\ sends < load.sends
     /\ sends' = sends + 1
     /\ \E r \in WriteResults(conn[c], 1, FALSE) : Handled(l, c, sendHere(conn[c], <<0>>, r))

HandleWrite(l, c) ==
  /\ \E r \in WriteResults(conn[c], Len(conn[c].out), FALSE) :
       Handled(l, c, handleWrite(conn[c], r))
  /\ UNCHANGED sends

(* handleClose, whose closeCallback_ is removeConnection: runInLoop on the *)
(* base loop.                                                              *)
HandleClose(l, c) ==
  /\ conn' = [conn EXCEPT ![c] = handleClose(@)]
  /\ IF l = Main
       THEN /\ connections_' = connectionsWithout(c)
            /\ pending' = removeConnectionInLoop(c, pending)
       ELSE /\ pending' = [pending EXCEPT ![Main] = Append(@, Functor("remove", c))]
            /\ UNCHANGED connections_
  /\ UNCHANGED <<ioLoop, freedUse, revived, rearmed, nextConnId_, load, loops_, next_, joined, userVars>>

HandleEvent(l) ==
  /\ phase[l] = "events"
  /\ \E e \in active[l] :
       LET c == e[1] IN
       /\ active' = [active EXCEPT ![l] = @ \ {e}]
       /\ IF dtor[c] # Nobody
            THEN /\ freedUse' = freedUse \cup {c}
                 /\ UNCHANGED <<conn, ioLoop, revived, rearmed, serverVars, pending, userVars>>
            ELSE \/ e[2] = "data" /\ HandleData(l, c)
                 \/ e[2] = "write" /\ HandleWrite(l, c)
                 \/ e[2] = "close" /\ HandleClose(l, c)
  /\ UNCHANGED <<phase, quit_, batch, ran>>
  /\ Release(l)

(* doPendingFunctors: the swap. *)
BeginFunctors(l) ==
  /\ phase[l] = "events"
  /\ active[l] = {}
  /\ phase' = [phase EXCEPT ![l] = "functors"]
  /\ batch' = [batch EXCEPT ![l] = pending[l]]
  /\ pending' = [pending EXCEPT ![l] = <<>>]
  /\ ran' = [ran EXCEPT ![l] = 0]
  /\ UNCHANGED <<conn, ioLoop, dtor, freedUse, revived, rearmed, serverVars, quit_, active, userVars>>

RunEstablished(l, c) ==
  /\ conn' = [conn EXCEPT ![c] = connectionEstablished(@)]
  /\ holds' = HeldBy(c)
  /\ UNCHANGED <<connections_, pending, rearmed>>

RunDestoryed(l, c) ==
  /\ conn' = [conn EXCEPT ![c] = connectionDestoryed(@)]
  /\ UNCHANGED <<connections_, pending, holds, rearmed>>

RunRemove(l, c) ==
  /\ connections_' = connectionsWithout(c)
  /\ pending' = removeConnectionInLoop(c, pending)
  /\ UNCHANGED <<conn, holds, rearmed>>

RunMember(l, c, after) ==
  /\ conn' = [conn EXCEPT ![c] = Settle(after)]
  /\ pending' = [pending EXCEPT ![l] = Queued(c, after, @)]
  /\ rearmed' = IF conn[c].index = "kNew" /\ after.index # "kNew" THEN rearmed \cup {c} ELSE rearmed
  /\ UNCHANGED <<connections_, holds>>

RunNotice == UNCHANGED <<conn, connections_, pending, holds, rearmed>>

(* The next functor of the batch.  One whose connection is gone is         *)
(* recorded and has no modelled effect.                                    *)
RunFunctor(l) ==
  /\ phase[l] = "functors"
  /\ ran[l] < Len(batch[l])
  /\ LET f == batch[l][ran[l] + 1]
         c == f.conn
     IN IF dtor[c] # Nobody
          THEN freedUse' = freedUse \cup {c} /\ RunNotice
          ELSE /\ UNCHANGED freedUse
               /\ \/ f.op = "established" /\ RunEstablished(l, c)
                  \/ f.op = "destoryed" /\ RunDestoryed(l, c)
                  \/ f.op = "remove" /\ RunRemove(l, c)
                  \/ f.op = "send" /\ \E r \in WriteResults(conn[c], 1, FALSE) :
                                         RunMember(l, c, sendInLoop(conn[c], <<0>>, r))
                  \/ f.op = "shutdown" /\ RunMember(l, c, shutdownInLoop(conn[c]))
                  \/ f.op \in {"writeComplete", "highWaterMark"} /\ RunNotice
  /\ ran' = [ran EXCEPT ![l] = @ + 1]
  /\ UNCHANGED <<ioLoop, nextConnId_, load, loops_, next_, joined, phase, quit_, active, batch, user, sends, revived>>
  /\ Release(l)

(* The local vector of doPendingFunctors goes, and with it what it held    *)
(* and how far it was.                                                     *)
EndFunctors(l) ==
  /\ phase[l] = "functors"
  /\ ran[l] = Len(batch[l])
  /\ phase' = [phase EXCEPT ![l] = "poll"]
  /\ batch' = [batch EXCEPT ![l] = <<>>]
  /\ ran' = [ran EXCEPT ![l] = 0]
  /\ UNCHANGED <<conn, ioLoop, freedUse, revived, rearmed, serverVars, quit_, active, pending, userVars>>
  /\ Release(l)

(* loop() returns.  A sub-loop's EventLoop is a local of threadFunc and    *)
(* goes with its functors; the base loop outlives the server.              *)
ExitLoop(l) ==
  /\ phase[l] = "poll" /\ quit_[l]
  /\ phase' = [phase EXCEPT ![l] = "exited"]
  /\ pending' = [pending EXCEPT ![l] = IF l = Main THEN @ ELSE <<>>]
  /\ UNCHANGED <<conn, ioLoop, freedUse, revived, rearmed, serverVars, quit_, active, batch, ran, userVars>>
  /\ Release(l)

-----------------------------------------------------------------------------
(* The end of the server: the base loop is told to quit, and when its      *)
(* loop() has returned its thread destroys the server.                     *)
QuitMain ==
  /\ load.quits
  /\ ~quit_[Main]
  /\ quit_' = [quit_ EXCEPT ![Main] = TRUE]
  /\ UNCHANGED <<conn, ioLoop, dtor, freedUse, revived, rearmed, serverVars, phase, active, pending, batch, ran, userVars>>

(* ~TcpServer, its body: each connection leaves the map and its loop is    *)
(* given connectionDestoryed, on the spot if that is the base loop.        *)
DestroyServerConn(c) ==
  /\ phase[Main] = "exited" /\ joined = -1
  /\ c \in connections_
  /\ connections_' = connections_ \ {c}
  /\ IF ioLoop[c] = Main
       THEN conn' = [conn EXCEPT ![c] = connectionDestoryed(@)] /\ UNCHANGED pending
       ELSE /\ pending' = [pending EXCEPT ![ioLoop[c]] = Append(@, Functor("destoryed", c))]
            /\ UNCHANGED conn
  /\ UNCHANGED <<ioLoop, freedUse, revived, rearmed, nextConnId_, load, loops_, next_, joined, phase, quit_, active, batch, ran, userVars>>
  /\ Release(Main)

DestroyServerBodyEnds ==
  /\ phase[Main] = "exited" /\ joined = -1
  /\ connections_ = {}
  /\ joined' = 0
  /\ UNCHANGED <<conn, ioLoop, dtor, freedUse, revived, rearmed, connections_, nextConnId_, load, loops_, next_, loopVars, userVars>>

(* Its members: ~EventLoopThread of each sub-loop quits it and joins it.   *)
QuitSubLoop_Skipped == FALSE

QuitSubLoop ==
  /\ joined \in 0..(Len(loops_) - 1)
  /\ ~quit_[loops_[joined + 1]]
  /\ quit_' = [quit_ EXCEPT ![loops_[joined + 1]] = TRUE]
  /\ UNCHANGED <<conn, ioLoop, dtor, freedUse, revived, rearmed, serverVars, phase, active, pending, batch, ran, userVars>>

JoinSubLoop ==
  /\ joined \in 0..(Len(loops_) - 1)
  /\ phase[loops_[joined + 1]] = "exited"
  /\ joined' = joined + 1
  /\ UNCHANGED <<conn, ioLoop, dtor, freedUse, revived, rearmed, connections_, nextConnId_, load, loops_, next_, loopVars, userVars>>

(* The base loop goes last, with the functors that were left in it. *)
DestroyMainLoop ==
  /\ joined = Len(loops_)
  /\ phase[Main] = "exited"
  /\ phase' = [phase EXCEPT ![Main] = "destroyed"]
  /\ pending' = [pending EXCEPT ![Main] = <<>>]
  /\ UNCHANGED <<conn, ioLoop, freedUse, revived, rearmed, serverVars, quit_, active, batch, ran, userVars>>
  /\ Release(Main)

-----------------------------------------------------------------------------
(* User threads; they were given the connection by connectionCallback_.    *)
SendTest(u, c) ==
  /\ user[u].at = "idle" /\ c \in holds[u]
  /\ sends < load.sends
  /\ conn[c].state_ = "kConnected"
  /\ user' = [user EXCEPT ![u] = [at |-> "send", conn |-> c]]
  /\ sends' = sends + 1
  /\ UNCHANGED <<conn, ioLoop, dtor, freedUse, revived, rearmed, serverVars, loopVars, holds>>

ShutdownTest(u, c) ==
  /\ user[u].at = "idle" /\ c \in holds[u]
  /\ conn[c].state_ = "kConnected"
  /\ user' = [user EXCEPT ![u] = [at |-> "store", conn |-> c]]
  /\ UNCHANGED <<conn, ioLoop, dtor, freedUse, revived, rearmed, serverVars, loopVars, holds, sends>>

ShutdownStore(u) ==
  /\ user[u].at = "store"
  /\ conn' = [conn EXCEPT ![user[u].conn] = setState(@, "kDisconnecting")]
  /\ revived' = IF IsDown(conn[user[u].conn]) THEN revived \cup {user[u].conn} ELSE revived
  /\ user' = [user EXCEPT ![u] = [@ EXCEPT !.at = "shutdown"]]
  /\ UNCHANGED <<ioLoop, dtor, freedUse, rearmed, serverVars, loopVars, holds, sends>>

(* The push that ends send() or shutdown(). *)
PushRaw(u) ==
  /\ user[u].at \in {"send", "shutdown"}
  /\ LET c == user[u].conn
     IN pending' = [pending EXCEPT ![ioLoop[c]] = Append(@, Functor(user[u].at, c))]
  /\ user' = [user EXCEPT ![u] = [at |-> "idle"]]
  /\ UNCHANGED <<conn, ioLoop, dtor, freedUse, revived, rearmed, serverVars, phase, quit_, active, batch, ran, holds, sends>>

(* The user's TcpConnectionPtr goes out of scope. *)
DropConn(u, c) ==
  /\ user[u].at = "idle" /\ c \in holds[u]
  /\ holds' = [holds EXCEPT ![u] = @ \ {c}]
  /\ UNCHANGED <<conn, ioLoop, freedUse, revived, rearmed, serverVars, loopVars, user, sends>>
  /\ Release(u)

-----------------------------------------------------------------------------
(* setThreadNum has chosen how many sub-loops start() creates. *)
Init ==
  /\ load \in Loads
  /\ \E n \in 0..load.subLoops : loops_ = SubSeq(SubLoops, 1, n)
  /\ conn = [c \in Conns |-> NewConnection]
  /\ ioLoop = [c \in Conns |-> Nobody]
  /\ dtor = [c \in Conns |-> Nobody]
  /\ freedUse = {}
  /\ revived = {}
  /\ rearmed = {}
  /\ connections_ = {}
  /\ nextConnId_ = 1
  /\ next_ = 0
  /\ joined = -1
  /\ phase = [l \in Loops |-> IF l \in {Main} \cup Range(loops_) THEN "poll" ELSE "unused"]
  /\ quit_ = [l \in Loops |-> FALSE]
  /\ active = [l \in Loops |-> {}]
  /\ pending = [l \in Loops |-> <<>>]
  /\ batch = [l \in Loops |-> <<>>]
  /\ ran = [l \in Loops |-> 0]
  /\ holds = [u \in Users |-> {}]
  /\ user = [u \in Users |-> [at |-> "idle"]]
  /\ sends = 0

LoopStep(l) ==
  Poll(l) \/ HandleEvent(l) \/ BeginFunctors(l) \/ RunFunctor(l) \/ EndFunctors(l) \/ ExitLoop(l)

Destroy ==
  \/ \E c \in Conns : DestroyServerConn(c)
  \/ DestroyServerBodyEnds
  \/ QuitSubLoop
  \/ JoinSubLoop
  \/ DestroyMainLoop

UserStep(u) ==
  \/ \E c \in Conns : SendTest(u, c) \/ ShutdownTest(u, c) \/ DropConn(u, c)
  \/ ShutdownStore(u)
  \/ PushRaw(u)

Next ==
  \/ NewConnectionArrives
  \/ \E l \in Loops : LoopStep(l)
  \/ QuitMain
  \/ Destroy
  \/ \E u \in Users : UserStep(u)

Spec == Init /\ [][Next]_vars

(* Every thread is scheduled: the base loop's, which also runs ~TcpServer, *)
(* those of the sub-loops, and the user threads, which let go of their     *)
(* connections in the end.                                                 *)
Fairness ==
  /\ WF_vars(LoopStep(Main) \/ Destroy)
  /\ \A l \in Range(SubLoops) : WF_vars(LoopStep(l))
  /\ \A u \in Users : WF_vars(UserStep(u))

FairSpec == Spec /\ Fairness

-----------------------------------------------------------------------------
Created(c) == ioLoop[c] # Nobody
Alive(c)   == Created(c) /\ dtor[c] = Nobody
Over       == phase[Main] = "destroyed"

(* No functor reaches a connection after ~TcpConnection.  muduo.md:64      *)
(* answers the question of a functor bound to a raw this with the test of  *)
(* the connection's state before it sends.                                 *)
NoUseAfterFree == freedUse = {}

(* No pointer to a channel outlives it: when the last shared_ptr to a      *)
(* connection goes, connectionDestoryed has taken its channel out of the   *)
(* poller's channels_, and no list of active channels has it, unless the   *)
(* loop itself is over.                                                    *)
(* The exception: ~TcpServer can reach connectionDestoryed while state_ is *)
(* kDisconnecting and leave it so; a send() that tested kConnected before  *)
(* then gets past sendInLoop's test of kDisconnected, and enableWriting    *)
(* puts the removed channel back.                                          *)
ChannelLeftPoller ==
  \A c \in Conns \ rearmed : dtor[c] # Nobody =>
    /\ conn[c].index = "kNew" \/ phase[ioLoop[c]] \in {"exited", "destroyed"}
    /\ \A l \in Loops : \A e \in active[l] : e[1] # c

(* The server keeps every connection that is not closed: a client is       *)
(* forgotten only after handleClose or in ~TcpServer.                      *)
ServedUntilClosed ==
  joined = -1 /\ phase[Main] # "exited" =>
    \A c \in Conns : Created(c) /\ ~IsDown(conn[c]) => c \in connections_

(* connectionCallback_ sees a connection up and down in turn, and at most  *)
(* once each, whichever of handleClose and connectionDestoryed comes first *)
(* and even when both are on their way at the destruction of the server.   *)
(* The exception: another thread's shutdown() tested kConnected before     *)
(* handleClose and stores kDisconnecting after it.  The connection then    *)
(* counts as up once more, and goes down again.                            *)
UpDownInTurn ==
  \A c \in Conns \ revived : conn[c].cb \in {<<>>, <<"UP">>, <<"UP", "DOWN">>}

(* A closed connection is destroyed: the way through the base loop's and   *)
(* its own loop's queues always ends, and no reference is left behind.     *)
ClosedIsReleased == \A c \in Conns : IsDown(conn[c]) ~> dtor[c] # Nobody

(* Destroying the server ends, with every sub-loop joined and no           *)
(* connection leaked, whatever was queued or being handled at the time.    *)
TeardownEnds == quit_[Main] ~> Over /\ \A c \in Conns : ~Alive(c)
=============================================================================
