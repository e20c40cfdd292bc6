------------------------------ MODULE EchoServer ------------------------------
(***************************************************************************)
(* src/example/testserver.cc against src/example/stress_client.cc, over    *)
(* the Acceptor.  The server reads what has arrived of a message, sends it *)
(* back and shuts the connection down for writing; it lets go of the       *)
(* connection when the client has closed it.                               *)
(*                                                                         *)
(* A connection's handlers run one at a time in its sub loop.  What        *)
(* TcpServer and TcpConnection do below them is the matter of their own    *)
(* modules; here the socket takes all that is sent at once.                *)
(***************************************************************************)
EXTENDS StressClient

VARIABLES
  state,  \* of the server's TcpConnections
  split   \* connections of which the first read did not have the whole message

serverVars == <<state, split>>
allVars == <<acceptVars, wire, clientVars, serverVars>>

(* connectionEstablished, in the sub loop: the channel is registered. *)
Establish(c) ==
  /\ c \in served /\ state[c] = "connecting"
  /\ state' = [state EXCEPT ![c] = "connected"]
  /\ UNCHANGED <<acceptVars, wire, clientVars, split>>

(* handleRead and onMessage: retrieveAllAsString, send, shutdown. The      *)
(* last two do nothing on a connection that is not connected.              *)
Reply_ShutdownFirst(c) ==
  IF state[c] = "connected"
    THEN fin' = fin \cup {c} /\ UNCHANGED toClient
    ELSE UNCHANGED <<toClient, fin>>

Reply(c) ==
  IF state[c] = "connected"
    THEN /\ toClient' = [toClient EXCEPT ![c] = @ + toServer[c]]
         /\ fin' = fin \cup {c}
    ELSE UNCHANGED <<toClient, fin>>

onMessage(c) ==
  /\ state[c] \in {"connected", "disconnecting"}
  /\ toServer[c] > 0
  /\ Reply(c)
  /\ toServer' = [toServer EXCEPT ![c] = 0]
  /\ state' = [state EXCEPT ![c] = "disconnecting"]
  /\ split' = IF state[c] = "connected" /\ toServer[c] < messageSize THEN split \cup {c} ELSE split
  /\ UNCHANGED <<acceptVars, clientVars>>

(* read() returns 0, or the connection was reset because the client closed *)
(* it with bytes unread: handleClose.                                      *)
handleClose(c) ==
  /\ state[c] \in {"connected", "disconnecting"}
  /\ c \in closed
  /\ toServer[c] = 0 \/ toClient[c] > 0
  /\ state' = [state EXCEPT ![c] = "disconnected"]
  /\ UNCHANGED <<acceptVars, wire, clientVars, split>>

(* removeConnectionInLoop, connectionDestoryed, and ~Socket closes. *)
Release_Leaks(c) == FALSE

Release(c) ==
  /\ state[c] = "disconnected" /\ c \notin ended
  /\ \E s \in Slots : fds[s] = c /\ CloseFd(s)
  /\ UNCHANGED <<backlog, idleFd_, apc, served, raced, wire, clientVars, serverVars>>

ServeConn(c) == Establish(c) \/ onMessage(c) \/ handleClose(c) \/ Release(c)

MainLoop == handleRead /\ UNCHANGED <<wire, clientVars, serverVars>>

OtherThreads == (OpenFile \/ CloseFile) /\ UNCHANGED <<wire, clientVars, serverVars>>

Client(w) == worker(w) /\ UNCHANGED serverVars

Init ==
  /\ AcceptInit
  /\ ClientInit
  /\ state = [c \in Conns |-> "connecting"]
  /\ split = {}

Next ==
  \/ MainLoop \/ OtherThreads
  \/ \E c \in Conns : ServeConn(c)
  \/ \E w \in Workers : Client(w)

Spec == Init /\ [][Next]_allVars

(* Every thread is scheduled, and every blocking call of the client ends,  *)
(* if only by its timeout.  Other threads need not open or close anything. *)
FairSpec ==
  /\ Spec
  /\ WF_allVars(MainLoop)
  /\ \A c \in Conns : WF_allVars(ServeConn(c))
  /\ \A w \in Workers : WF_allVars(Client(w))

-----------------------------------------------------------------------------
(* stress_test_report.md: the server echoes what it was sent.  A client    *)
(* that reads the end of the stream before it has its message back had the *)
(* message cut in two on the way to onMessage, which shuts down after the  *)
(* first part, or was turned away for want of a descriptor.                *)
ShortOnlyIfSplit == short \subseteq split \cup (ended \ served)

(* A connection the kernel has queued is accepted or turned away in the    *)
(* end, with the spare descriptor or without it: the client's timeouts     *)
(* free the descriptors it waits for, unless other threads take them all.  *)
BacklogAnswered ==
  \A c \in Conns :
    c \in Range(backlog) ~> c \notin Range(backlog) \/ \A s \in Slots : fds[s] \in {File, Idle}

(* stress_test_report.md: after the test the descriptors are back to their *)
(* number before it.                                                       *)
DescriptorsReturn == AllJoined ~> \A s \in Slots : fds[s] \in {Free, Idle, File}
=============================================================================
