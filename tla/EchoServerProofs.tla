--------------------------- MODULE EchoServerProofs ---------------------------
(***************************************************************************)
(* Proofs about EchoServer: whose descriptor Acceptor::handleRead closes,  *)
(* that the figures of the stress client add up, and which answers come    *)
(* back short.                                                             *)
(***************************************************************************)
EXTENDS EchoServer, FiniteSetTheorems, WellFoundedInduction, TLAPS

(* The kernel hands out a free descriptor, the lowest. *)
LEMMA LowestIsIn ==
  ASSUME NEW S, S \subseteq Slots, S # {}
  PROVE  Lowest(S) \in S
<1>1. S \subseteq Nat
  BY AcceptorAssumption
<1>2. PICK x \in S : \A y \in S : ~(<<y, x>> \in OpToRel(<, Nat))
  BY <1>1, NatLessThanWellFounded, WFMin, Zenon
<1>3. \A y \in S : ~(y < x)
  BY <1>1, <1>2, Zenon DEF OpToRel
<1>4. \A y \in S : x <= y
  BY <1>1, <1>3
<1> QED
  BY <1>4 DEF Lowest

Untouched(c) == c \notin served /\ \A i \in 1..Len(backlog) : backlog[i] # c

FreshTypes ==
  /\ next \in Nat
  /\ id \in [Workers -> Nat]
  /\ wpc \in [Workers -> {"fetch", "connect", "write", "read", "count", "done"}]
  /\ backlog \in Seq(Conns)
  /\ served \subseteq Conns
  /\ state \in [Conns -> {"connecting", "connected", "disconnecting", "disconnected"}]

Dialling ==
  /\ \A w \in Workers : wpc[w] = "connect" => id[w] \in Conns /\ id[w] < next /\ Untouched(id[w])
  /\ \A v, w \in Workers : v # w /\ wpc[v] = "connect" /\ wpc[w] = "connect" => id[v] # id[w]

NotYetMade == \A c \in Conns : c >= next => Untouched(c)

Queued ==
  /\ \A i \in 1..Len(backlog) : backlog[i] \notin served
  /\ \A i, j \in 1..Len(backlog) : i # j => backlog[i] # backlog[j]

Begun == \A c \in Conns : state[c] # "connecting" => c \in served

(* Connections are new when they are made: a request number is fetched by  *)
(* one worker.  So a connection in the queue was never served.             *)
FreshInv == FreshTypes /\ Dialling /\ NotYetMade /\ Queued /\ Begun

(* What idleFd_ and the free descriptors are at each step of handleRead. *)
IdleInv ==
  /\ fds \in [Slots -> Conns \cup {Free, Idle, File}]
  /\ idleFd_ \in {0} \cup Slots
  /\ apc \in {"idle", "log", "close", "accept", "turnaway", "reopen"}
  /\ raced \in BOOLEAN
  /\ apc \in {"idle", "log", "close"} =>
       IF idleFd_ = 0 THEN raced ELSE fds[idleFd_] = Idle
  /\ apc = "turnaway" /\ idleFd_ # 0 => fds[idleFd_] \in Conns \ served
  /\ apc \in {"accept", "reopen"} /\ ~raced => FreeFds # {}
  /\ apc = "turnaway" /\ ~raced => FreeFds # {} \/ idleFd_ # 0

Active == {w \in Workers : wpc[w] \in {"connect", "write", "read", "count"}}

(* Every number fetched so far is a request under way or counted. *)
CountInv ==
  /\ next \in Nat
  /\ wpc \in [Workers -> {"fetch", "connect", "write", "read", "count", "done"}]
  /\ got \in [Workers -> Nat]
  /\ success \in Nat /\ connectFail \in Nat /\ sendFail \in Nat /\ recvFail \in Nat
  /\ bytesRead \in Nat /\ latenciesUs \in Nat
  /\ success + connectFail + sendFail + recvFail + Cardinality(Active)
       = IF next < total THEN next ELSE total
  /\ latenciesUs = success
  /\ bytesRead = success * messageSize
  /\ \A w \in Workers : wpc[w] = "count" => got[w] = messageSize
  /\ \A w \in Workers : wpc[w] = "done" => next >= total

(* A connection that has left the queue never enters it again. *)
Taken(c) ==
  /\ c < next
  /\ \A i \in 1..Len(backlog) : backlog[i] # c
  /\ \A w \in Workers : wpc[w] = "connect" => id[w] # c

(* A connection with a descriptor has left the queue, and one that was     *)
(* served ends only after handleClose.                                     *)
TakenInv ==
  /\ ended \subseteq Conns
  /\ \A s \in Slots : fds[s] \in Conns => Taken(fds[s])
  /\ \A c \in ended : Taken(c)
  /\ \A c \in ended \cap served : state[c] = "disconnected"

(* A request under way: its connection is its own and open, and what the   *)
(* client has not got back of its message is on the wire or at the server, *)
(* unless onMessage read it in parts.                                      *)
Request(w) ==
  /\ id[w] \in Conns /\ id[w] < next /\ id[w] \notin closed
  /\ sent[w] <= messageSize
  /\ wpc[w] \in {"read", "count"} => sent[w] = messageSize
  /\ wpc[w] \in {"connect", "write"} => got[w] = 0
  /\ wpc[w] = "connect" => sent[w] = 0 /\ id[w] \notin fin
  /\ wpc[w] = "read" => got[w] < messageSize
  /\ id[w] \notin fin => toServer[id[w]] = sent[w] /\ toClient[id[w]] = 0 /\ got[w] = 0
  /\ id[w] \in fin \ split => toClient[id[w]] + got[w] = messageSize

Counts ==
  /\ toServer \in [Conns -> Nat] /\ toClient \in [Conns -> Nat]
  /\ sent \in [Workers -> Nat] /\ got \in [Workers -> Nat]
  /\ closed \subseteq Nat

Requests ==
  /\ \A w \in Active : Request(w)
  /\ \A w \in Workers : wpc[w] = "fetch" => sent[w] = 0 /\ got[w] = 0

OwnConns == \A v, w \in Active : v # w => id[v] # id[w]

Unused == \A c \in Conns : c >= next => toServer[c] = 0 /\ toClient[c] = 0 /\ c \notin fin \cup closed

(* The server shuts a connection down when it answers, and drops one only  *)
(* after the client has closed it.                                         *)
ShutDown ==
  /\ \A c \in Conns : state[c] = "disconnected" => c \in closed
  /\ \A c \in Conns : state[c] = "disconnecting" => c \in fin
  /\ \A c \in fin : c \in Conns /\ state[c] \in {"disconnecting", "disconnected"}

EchoInv == Counts /\ Requests /\ OwnConns /\ Unused /\ ShutDown

-----------------------------------------------------------------------------
(* Writing another value over one descriptor. *)
LEMMA SetFd ==
  ASSUME IdleInv, NEW s \in Slots, NEW v \in Conns \cup {Free, Idle, File},
         fds' = [fds EXCEPT ![s] = v]
  PROVE  /\ fds' \in [Slots -> Conns \cup {Free, Idle, File}]
         /\ fds'[s] = v
         /\ \A u \in Slots : u # s => fds'[u] = fds[u]
         /\ v = Free => FreeFds' # {} /\ FreeFds \subseteq FreeFds'
BY DEF IdleInv, FreeFds

(* The descriptor the kernel hands out is a free one. *)
LEMMA FreeFd ==
  ASSUME FreeFds # {}
  PROVE  Lowest(FreeFds) \in Slots /\ fds[Lowest(FreeFds)] = Free
BY LowestIsIn DEF FreeFds

(* A step that leaves a request and its connection alone. *)
LEMMA RequestKept ==
  ASSUME NEW w, Request(w), id[w] \in Nat, next \in Nat, next' \in Nat, next <= next',
         wpc'[w] = wpc[w], id'[w] = id[w], sent'[w] = sent[w], got'[w] = got[w],
         toServer'[id[w]] = toServer[id[w]], toClient'[id[w]] = toClient[id[w]],
         id[w] \notin closed => id[w] \notin closed',
         id[w] \in fin' <=> id[w] \in fin, id[w] \in split' <=> id[w] \in split
  PROVE  Request(w)'
<1>1. id'[w] \in Conns /\ id'[w] < next' /\ id'[w] \notin closed'
  BY DEF Request
<1> QED
  BY <1>1, Zenon DEF Request

(* All of EchoInv but the state of the connections. *)
LEMMA EchoKept ==
  ASSUME Counts, Requests, OwnConns, Unused, UNCHANGED <<wire, closed, next, wpc, id, sent, got, split>>
  PROVE  Counts' /\ Requests' /\ OwnConns' /\ Unused'
<1>1. Active' = Active
  BY DEF Active
<1>2. Counts' /\ OwnConns' /\ Unused'
  BY <1>1 DEF Counts, OwnConns, Unused, wire
<1>3. ASSUME NEW w \in Active
      PROVE  Request(w)'
  BY Zenon DEF Requests, Request, wire
<1> QED
  BY <1>1, <1>2, <1>3 DEF Requests

(* onMessage answers a message it read whole with the whole message. *)
LEMMA EchoServe ==
  ASSUME FreshInv, Counts, Requests, OwnConns, Unused, ShutDown, NEW c \in Conns, ServeConn(c)
  PROVE  EchoInv'
<1>0. UNCHANGED <<closed, next, wpc, id, sent, got>>
  BY DEF ServeConn, Establish, onMessage, handleClose, Release, clientVars
<1>m. messageSize \in Nat \ {0} /\ next \in Nat /\ Conns \subseteq Nat
  BY ClientAssumption DEF FreshInv, FreshTypes
<1>a. Active' = Active /\ Active \subseteq Workers
  BY <1>0 DEF Active
<1>1. CASE Release(c)
  <2>1. UNCHANGED <<wire, state, split>>
    BY <1>1 DEF Release, serverVars
  <2>2. ShutDown'
    BY <1>0, <2>1 DEF ShutDown, wire
  <2> QED
    BY <1>0, <2>1, <2>2, EchoKept DEF EchoInv
<1>2. CASE Establish(c) \/ handleClose(c)
  <2>1. /\ UNCHANGED <<wire, split>>
        /\ \/ state' = [state EXCEPT ![c] = "connected"] /\ state[c] = "connecting"
           \/ state' = [state EXCEPT ![c] = "disconnected"] /\ c \in closed /\ state[c] # "disconnected"
    BY <1>2 DEF Establish, handleClose
  <2>2. state \in [Conns -> {"connecting", "connected", "disconnecting", "disconnected"}]
    BY DEF FreshInv, FreshTypes
  <2>3. ShutDown'
    BY <1>0, <2>1, <2>2 DEF ShutDown, wire
  <2> QED
    BY <1>0, <2>1, <2>3, EchoKept DEF EchoInv
<1>3. CASE onMessage(c)
  <2>1. /\ state[c] \in {"connected", "disconnecting"}
        /\ state' = [state EXCEPT ![c] = "disconnecting"]
        /\ toServer' = [toServer EXCEPT ![c] = 0]
        /\ toServer[c] > 0
    BY <1>3 DEF onMessage
  <2>2. /\ toServer' \in [Conns -> Nat] /\ toServer'[c] = 0
        /\ \A d \in Conns : d # c => toServer'[d] = toServer[d]
    BY <2>1 DEF Counts
  <2>3. c < next
    BY <1>m, <2>1 DEF Unused
  <2>4. state' \in [Conns -> {"connecting", "connected", "disconnecting", "disconnected"}]
        /\ state'[c] = "disconnecting" /\ \A d \in Conns : d # c => state'[d] = state[d]
    BY <2>1 DEF FreshInv, FreshTypes
  <2>5. OwnConns'
    BY <1>0, <1>a DEF OwnConns
  <2>6. CASE state[c] = "connected"
    <3>1. /\ toClient' = [toClient EXCEPT ![c] = @ + toServer[c]] /\ fin' = fin \cup {c}
          /\ split' = IF toServer[c] < messageSize THEN split \cup {c} ELSE split
          /\ c \notin fin
      BY <1>3, <2>6 DEF onMessage, Reply, ShutDown
    <3>2. /\ toClient' \in [Conns -> Nat] /\ toClient'[c] = toClient[c] + toServer[c]
          /\ \A d \in Conns : d # c => toClient'[d] = toClient[d]
      BY <3>1 DEF Counts
    <3>3. ASSUME NEW w \in Active
          PROVE  Request(w)'
      <4>1. Request(w) /\ id[w] \in Conns /\ sent[w] \in Nat /\ got[w] \in Nat
        BY <1>a DEF Requests, Request, Counts
      <4>2. CASE id[w] # c
        BY <1>0, <1>m, <2>2, <3>1, <3>2, <4>1, <4>2, RequestKept
      <4>3. CASE id[w] = c
        <5>1. toServer[c] = sent[w] /\ toClient[c] = 0 /\ got[w] = 0 /\ c \notin closed
              /\ sent[w] <= messageSize
          BY <3>1, <4>1, <4>3, Zenon DEF Request
        <5>2. wpc[w] # "connect"
          BY <2>1, <4>1, <5>1 DEF Request
        <5>3. c \notin split' => toClient'[c] + got[w] = messageSize
          BY <1>m, <3>1, <3>2, <4>1, <5>1
        <5> QED
          BY <1>0, <3>1, <4>1, <4>3, <5>2, <5>3, Zenon DEF Request
      <4> QED
        BY <4>2, <4>3
    <3>4. Requests'
      BY <1>0, <1>a, <3>3 DEF Requests
    <3>5. Unused'
      BY <1>0, <1>m, <2>2, <2>3, <3>1, <3>2 DEF Unused
    <3>6. ShutDown'
      BY <1>0, <2>4, <3>1 DEF ShutDown
    <3>7. Counts'
      BY <1>0, <2>2, <3>2 DEF Counts
    <3> QED
      BY <2>5, <3>4, <3>5, <3>6, <3>7 DEF EchoInv
  <2>7. CASE state[c] = "disconnecting"
    <3>1. UNCHANGED <<toClient, fin, split>> /\ c \in fin
      BY <1>3, <2>7 DEF onMessage, Reply, ShutDown
    <3>2. ASSUME NEW w \in Active
          PROVE  Request(w)'
      <4>1. Request(w) /\ id[w] \in Conns
        BY DEF Requests, Request
      <4> QED
        BY <1>0, <2>2, <3>1, <4>1, Zenon DEF Request
    <3>3. Requests'
      BY <1>0, <1>a, <3>2 DEF Requests
    <3>4. Unused' /\ ShutDown'
      BY <1>0, <1>m, <2>2, <2>3, <2>4, <3>1 DEF Unused, ShutDown
    <3>5. Counts'
      BY <1>0, <2>2, <3>1 DEF Counts
    <3> QED
      BY <2>5, <3>3, <3>4, <3>5 DEF EchoInv
  <2> QED
    BY <2>1, <2>6, <2>7
<1> QED
  BY <1>1, <1>2, <1>3 DEF ServeConn

(* The client's calls move bytes of the worker's own request. *)
LEMMA EchoClient ==
  ASSUME FreshInv, Counts, Requests, OwnConns, Unused, ShutDown, NEW w \in Workers, Client(w)
  PROVE  EchoInv'
<1>0. UNCHANGED <<state, split>>
  BY DEF Client, serverVars
<1>m. messageSize \in Nat \ {0} /\ next \in Nat /\ Conns \subseteq Nat
      /\ wpc \in [Workers -> {"fetch", "connect", "write", "read", "count", "done"}]
      /\ id \in [Workers -> Nat]
  BY ClientAssumption DEF FreshInv, FreshTypes
<1>r. \A v \in Active : Request(v) /\ id[v] \in Conns /\ id[v] < next /\ v \in Workers
  BY DEF Requests, Request, Active
<1>1. CASE Fetch(w)
  <2>1. /\ wpc[w] = "fetch" /\ next' = next + 1 /\ UNCHANGED <<wire, closed, sent, got>>
        /\ id' = [id EXCEPT ![w] = IF next >= total THEN 0 ELSE next]
        /\ wpc' = [wpc EXCEPT ![w] = IF next >= total THEN "done" ELSE "connect"]
    BY <1>1 DEF Fetch, Goes, NoMore
  <2>2. /\ w \notin Active /\ Active \subseteq Active' /\ Active' \subseteq Active \cup {w}
        /\ \A v \in Workers : v # w => id'[v] = id[v] /\ wpc'[v] = wpc[v]
    BY <1>m, <2>1 DEF Active
  <2>3. w \in Active' => next < total /\ next \in Conns /\ id'[w] = next /\ wpc'[w] = "connect"
    BY <1>m, <2>1, ClientAssumption DEF Active
  <2>4. ASSUME NEW v \in Active
        PROVE  Request(v)'
    BY <1>0, <1>m, <1>r, <2>1, <2>2, RequestKept DEF wire
  <2>5. w \in Active' => Request(w)'
    <3>1. sent[w] = 0 /\ got[w] = 0
      BY <2>1 DEF Requests
    <3>2. w \in Active' => /\ next \notin fin /\ next \notin closed
                           /\ toServer[next] = 0 /\ toClient[next] = 0
      BY <1>m, <2>3 DEF Unused
    <3> QED
      BY <1>m, <2>1, <2>3, <3>1, <3>2 DEF Request, wire
  <2>6. OwnConns'
    BY <1>m, <1>r, <2>2, <2>3 DEF OwnConns
  <2>7. Requests'
    BY <2>1, <2>2, <2>4, <2>5 DEF Requests
  <2>8. Counts' /\ Unused' /\ ShutDown'
    BY <1>0, <1>m, <2>1 DEF Counts, Unused, ShutDown, wire
  <2> QED
    BY <2>6, <2>7, <2>8 DEF EchoInv
<1>2. CASE Connect(w)
  <2>1. /\ wpc[w] = "connect" /\ wpc' = [wpc EXCEPT ![w] = "write"]
        /\ UNCHANGED <<wire, closed, next, id, sent, got>>
    BY <1>2 DEF Connect, Goes
  <2>2. Active' = Active /\ w \in Active /\ wpc'[w] = "write"
        /\ \A v \in Workers : v # w => wpc'[v] = wpc[v]
    BY <1>m, <2>1 DEF Active
  <2>3. ASSUME NEW v \in Active, v # w
        PROVE  Request(v)'
    BY <1>0, <1>m, <1>r, <2>1, <2>2, <2>3, RequestKept DEF wire
  <2>4. Request(w)'
    BY <1>0, <1>r, <2>1, <2>2, Zenon DEF Request, wire
  <2>5. Requests'
    BY <2>1, <2>2, <2>3, <2>4 DEF Requests
  <2>6. Counts' /\ OwnConns' /\ Unused' /\ ShutDown'
    BY <1>0, <2>1, <2>2 DEF Counts, OwnConns, Unused, ShutDown, wire
  <2> QED
    BY <2>5, <2>6 DEF EchoInv
<1>3. CASE ConnectFails(w) \/ SendFails(w) \/ RecvFails(w) \/ Count(w)
  <2>1. /\ wpc[w] \in {"connect", "write", "read", "count"}
        /\ wpc' = [wpc EXCEPT ![w] = "fetch"] /\ UNCHANGED <<wire, next>>
        /\ closed' = closed \cup {id[w]} /\ id' = [id EXCEPT ![w] = 0]
        /\ sent' = [sent EXCEPT ![w] = 0] /\ got' = [got EXCEPT ![w] = 0]
    BY <1>3 DEF ConnectFails, SendFails, RecvFails, Count, Goes, EndRequest
  <2>2. w \in Active /\ Active' = Active \ {w}
    BY <1>m, <2>1 DEF Active
  <2>3. /\ sent' \in [Workers -> Nat] /\ got' \in [Workers -> Nat] /\ sent'[w] = 0 /\ got'[w] = 0
        /\ \A v \in Workers : v # w => /\ wpc'[v] = wpc[v] /\ id'[v] = id[v]
                                       /\ sent'[v] = sent[v] /\ got'[v] = got[v]
    BY <1>m, <2>1 DEF Counts
  <2>4. ASSUME NEW v \in Active'
        PROVE  Request(v)'
    <3>1. v \in Active /\ v # w /\ id[v] # id[w]
      BY <2>2 DEF OwnConns
    <3> QED
      BY <1>0, <1>m, <1>r, <2>1, <2>3, <3>1, RequestKept DEF wire
  <2>5. Requests'
    BY <2>3, <2>4 DEF Requests
  <2>6. OwnConns'
    BY <1>r, <2>2, <2>3 DEF OwnConns
  <2>7. Counts' /\ Unused'
    <3>1. id[w] \in Conns /\ id[w] < next
      BY <1>r, <2>2
    <3>2. closed' \subseteq Nat
      BY <1>m, <2>1, <3>1, Zenon DEF Counts
    <3>3. Counts'
      BY <2>1, <2>3, <3>2 DEF Counts, wire
    <3>4. Unused'
      BY <1>m, <2>1, <3>1 DEF Unused, wire
    <3> QED
      BY <3>3, <3>4
  <2>8. ShutDown'
    BY <1>0, <2>1 DEF ShutDown, wire
  <2> QED
    BY <2>5, <2>6, <2>7, <2>8 DEF EchoInv
<1>4. ASSUME NEW n \in 1..messageSize, Send(w, n)
      PROVE  EchoInv'
  <2>1. /\ wpc[w] = "write" /\ n <= messageSize - sent[w]
        /\ wpc' = [wpc EXCEPT ![w] = IF sent[w] + n = messageSize THEN "read" ELSE "write"]
        /\ sent' = [sent EXCEPT ![w] = @ + n]
        /\ toServer' = [toServer EXCEPT ![id[w]] = @ + n]
        /\ UNCHANGED <<toClient, fin, closed, next, id, got>>
    BY <1>4 DEF Send, Goes
  <2>2. /\ Active' = Active /\ w \in Active
        /\ wpc'[w] = IF sent[w] + n = messageSize THEN "read" ELSE "write"
        /\ \A v \in Workers : v # w => wpc'[v] = wpc[v]
    BY <1>m, <2>1 DEF Active
  <2>3. /\ sent' \in [Workers -> Nat] /\ sent'[w] = sent[w] + n /\ sent[w] \in Nat
        /\ \A v \in Workers : v # w => sent'[v] = sent[v]
    BY <1>m, <2>1 DEF Counts
  <2>4. /\ toServer' \in [Conns -> Nat] /\ toServer'[id[w]] = toServer[id[w]] + n
        /\ toServer[id[w]] \in Nat
        /\ \A d \in Conns : d # id[w] => toServer'[d] = toServer[d]
    BY <1>m, <1>r, <2>1, <2>2 DEF Counts
  <2>5. Request(w)'
    BY <1>0, <1>m, <1>r, <2>1, <2>2, <2>3, <2>4 DEF Request
  <2>6. ASSUME NEW v \in Active, v # w
        PROVE  Request(v)'
    <3>1. id[v] # id[w]
      BY <2>2, <2>6 DEF OwnConns
    <3> QED
      BY <1>0, <1>m, <1>r, <2>1, <2>2, <2>3, <2>4, <2>6, <3>1, RequestKept
  <2>7. Requests'
    BY <2>1, <2>2, <2>3, <2>5, <2>6 DEF Requests
  <2>8. Unused'
    BY <1>m, <1>r, <2>1, <2>2, <2>4 DEF Unused
  <2>9. Counts' /\ OwnConns' /\ ShutDown'
    BY <1>0, <2>1, <2>2, <2>3, <2>4 DEF Counts, OwnConns, ShutDown
  <2> QED
    BY <2>7, <2>8, <2>9 DEF EchoInv
<1>5. ASSUME NEW n \in 1..messageSize, Recv(w, n)
      PROVE  EchoInv'
  <2>1. /\ wpc[w] = "read" /\ n <= messageSize - got[w] /\ n <= toClient[id[w]]
        /\ wpc' = [wpc EXCEPT ![w] = IF got[w] + n = messageSize THEN "count" ELSE "read"]
        /\ got' = [got EXCEPT ![w] = @ + n]
        /\ toClient' = [toClient EXCEPT ![id[w]] = @ - n]
        /\ UNCHANGED <<toServer, fin, closed, next, id, sent>>
    BY <1>5 DEF Recv, Goes
  <2>2. /\ Active' = Active /\ w \in Active
        /\ wpc'[w] = IF got[w] + n = messageSize THEN "count" ELSE "read"
        /\ \A v \in Workers : v # w => wpc'[v] = wpc[v]
    BY <1>m, <2>1 DEF Active
  <2>3. /\ got' \in [Workers -> Nat] /\ got'[w] = got[w] + n /\ got[w] \in Nat
        /\ \A v \in Workers : v # w => got'[v] = got[v]
    BY <1>m, <2>1 DEF Counts
  <2>4. /\ toClient' \in [Conns -> Nat] /\ toClient'[id[w]] = toClient[id[w]] - n
        /\ toClient[id[w]] \in Nat
        /\ \A d \in Conns : d # id[w] => toClient'[d] = toClient[d]
    BY <1>m, <1>r, <2>1, <2>2 DEF Counts
  <2>5. Request(w)'
    BY <1>0, <1>m, <1>r, <2>1, <2>2, <2>3, <2>4 DEF Request
  <2>6. ASSUME NEW v \in Active, v # w
        PROVE  Request(v)'
    <3>1. id[v] # id[w]
      BY <2>2, <2>6 DEF OwnConns
    <3> QED
      BY <1>0, <1>m, <1>r, <2>1, <2>2, <2>3, <2>4, <2>6, <3>1, RequestKept
  <2>7. Requests'
    BY <2>1, <2>2, <2>3, <2>5, <2>6 DEF Requests
  <2>8. Unused'
    BY <1>m, <1>r, <2>1, <2>2, <2>4 DEF Unused
  <2>9. Counts' /\ OwnConns' /\ ShutDown'
    BY <1>0, <2>1, <2>2, <2>3, <2>4 DEF Counts, OwnConns, ShutDown
  <2> QED
    BY <2>7, <2>8, <2>9 DEF EchoInv
<1> QED
  BY <1>1, <1>2, <1>3, <1>4, <1>5 DEF Client, worker

(* Every step of the system. *)
LEMMA EchoStep ==
  ASSUME FreshInv, EchoInv, [Next]_allVars
  PROVE  EchoInv'
<1>0. Counts /\ Requests /\ OwnConns /\ Unused /\ ShutDown
  BY DEF EchoInv
<1>1. CASE UNCHANGED <<wire, clientVars, serverVars>>
  <2>1. Counts' /\ Requests' /\ OwnConns' /\ Unused'
    BY <1>0, <1>1, EchoKept DEF clientVars, serverVars
  <2>2. ShutDown'
    BY <1>0, <1>1 DEF ShutDown, wire, clientVars, serverVars
  <2> QED
    BY <2>1, <2>2 DEF EchoInv
<1> QED
  BY <1>0, <1>1, EchoServe, EchoClient DEF Next, MainLoop, OtherThreads, allVars

(* What is read short was split or turned away, and stays so. *)
LEMMA ShortStep ==
  ASSUME FreshInv, IdleInv, TakenInv, EchoInv, ShortOnlyIfSplit, [Next]_allVars
  PROVE  ShortOnlyIfSplit'
<1>1. ended \subseteq ended' /\ split \subseteq split'
  BY Zenon
     DEF Next, MainLoop, handleRead, AcceptConn, AcceptFails, LogAndTest, CloseIdle, AcceptIdle, TurnAway,
         Reopen, CloseFd, OtherThreads, OpenFile, CloseFile, ServeConn, Establish, onMessage, handleClose,
         Release, Client, worker, Fetch, Connect, ConnectFails, Send, SendFails, Recv, RecvFails, Count,
         acceptVars, serverVars, allVars
<1>2. \A c \in ended \ served : c \notin served'
  <2>1. CASE AcceptConn
    BY <2>1 DEF AcceptConn, TakenInv, Taken, FreshInv, FreshTypes
  <2>2. CASE served' = served
    BY <2>2
  <2> QED
    BY <2>1, <2>2, Zenon
    DEF Next, MainLoop, handleRead, AcceptFails, LogAndTest, CloseIdle, AcceptIdle, TurnAway,
         Reopen, OtherThreads, OpenFile, CloseFile, ServeConn, Establish, onMessage, handleClose,
         Release, Client, worker, Fetch, Connect, ConnectFails, Send, SendFails, Recv, RecvFails, Count,
         acceptVars, allVars
<1>3. CASE short' = short
  BY <1>1, <1>2, <1>3, SMTT(30) DEF ShortOnlyIfSplit
<1>4. ASSUME NEW w \in Workers, RecvFails(w)
      PROVE  AtEnd(id[w]) => id[w] \in split \cup (ended \ served)
  <2>1. w \in Active /\ wpc[w] = "read"
    BY <1>4, SMTT(30) DEF RecvFails, Goes, Active
  <2>2. Request(w) /\ got[w] \in Nat /\ messageSize \in Nat
    BY <2>1, ClientAssumption DEF EchoInv, Requests, Counts
  <2>3. AtEnd(id[w]) => id[w] \notin fin \ split
    BY <2>1, <2>2, SMTT(30) DEF AtEnd, Request
  <2>4. id[w] \in ended => id[w] \notin served
    BY <2>2, Zenon DEF TakenInv, EchoInv, ShutDown, Request
  <2> QED
    BY <2>3, <2>4, SMTT(30) DEF AtEnd
<1>5. ASSUME NEW w \in Workers, RecvFails(w)
      PROVE  ShortOnlyIfSplit'
  BY <1>1, <1>2, <1>4, <1>5 DEF RecvFails, ShortOnlyIfSplit
<1> QED
  BY <1>3, <1>5, ZenonT(30)
  DEF Next, MainLoop, OtherThreads, ServeConn, Establish, onMessage, handleClose,
         Release, Client, worker, Fetch, Connect, ConnectFails, Send, SendFails, Recv, Count,
         clientVars, allVars

-----------------------------------------------------------------------------
(* The head of the queue leaves it for good. *)
LEMMA TakenFromQueue ==
  ASSUME FreshInv, backlog # <<>>, backlog' = Tail(backlog), UNCHANGED <<next, id, wpc>>
  PROVE  /\ Head(backlog) \in Conns
         /\ \A c \in Conns : c = Head(backlog) \/ Taken(c) => Taken(c)'
         /\ \A c \in Conns : Taken(c) => c # Head(backlog)
<1>1. /\ Len(backlog) \in Nat \ {0} /\ Len(backlog') = Len(backlog) - 1
      /\ \A i \in 1..Len(backlog') : backlog'[i] = backlog[i + 1]
      /\ Head(backlog) = backlog[1] /\ backlog[1] \in Conns
  BY DEF FreshInv, FreshTypes
<1>2. backlog[1] < next
  BY <1>1, ClientAssumption DEF FreshInv, FreshTypes, NotYetMade, Untouched
<1>3. \A w \in Workers : wpc[w] = "connect" => id[w] # backlog[1]
  BY <1>1 DEF FreshInv, Dialling, Untouched
<1>4. \A i \in 1..Len(backlog') : backlog'[i] # backlog[1]
  BY <1>1 DEF FreshInv, Queued
<1> QED
  BY <1>1, <1>2, <1>3, <1>4, SMTT(30) DEF Taken

(* handleRead ends no connection that it has given to the server. *)
LEMMA TakenMainLoop ==
  ASSUME FreshInv, IdleInv, TakenInv, MainLoop
  PROVE  TakenInv'
<1>0. UNCHANGED <<next, id, wpc, state>> /\ Conns \cap {Free, Idle, File} = {} /\ 0 \notin Slots
  BY AcceptorAssumption DEF MainLoop, clientVars, serverVars
<1> DEFINE l == Lowest(FreeFds)
<1>l. FreeFds # {} => l \in Slots
  BY FreeFd, SMTT(30)
<1> HIDE DEF l
<1>1. CASE AcceptConn \/ (AcceptIdle /\ FreeFds # {} /\ backlog # <<>>)
  <2>1. /\ backlog # <<>> /\ backlog' = Tail(backlog) /\ l \in Slots /\ ended' = ended
        /\ fds' = [fds EXCEPT ![l] = Head(backlog)]
        /\ served' \in {served, served \cup {Head(backlog)}}
    BY <1>1, <1>l DEF AcceptConn, AcceptIdle, l
  <2>2. /\ Head(backlog) \in Conns
        /\ \A c \in Conns : c = Head(backlog) \/ Taken(c) => Taken(c)'
        /\ \A c \in Conns : Taken(c) => c # Head(backlog)
    BY <1>0, <2>1, TakenFromQueue, SMTT(30)
  <2>3. \A s \in Slots : fds'[s] = Head(backlog) \/ fds'[s] = fds[s]
    BY <2>1, SMTT(30) DEF IdleInv
  <2> QED
    BY <1>0, <2>1, <2>2, <2>3, SMTT(30) DEF TakenInv
<1>2. CASE /\ UNCHANGED <<backlog, served>>
           /\ \A s \in Slots : fds'[s] \in Conns => fds[s] = fds'[s]
           /\ ended' = ended \/ \E s \in Slots : fds[s] \in Conns \ served /\ ended' = ended \cup {fds[s]}
  <2>1. \A c \in Conns : Taken(c)' = Taken(c)
    BY <1>0, <1>2, SMTT(30) DEF Taken
  <2> QED
    BY <1>0, <1>2, <2>1, SMTT(30) DEF TakenInv
<1>3. CASE Reopen
  BY <1>0, <1>2, <1>3, <1>l, SMTT(30) DEF Reopen, l, IdleInv
<1>4. CASE CloseIdle
  BY <1>0, <1>2, <1>4, SMTT(30) DEF CloseIdle, CloseFd, IdleInv
<1>5. CASE TurnAway
  BY <1>0, <1>2, <1>5, SMTT(30) DEF TurnAway, CloseFd, IdleInv
<1>6. CASE \/ AcceptFails \/ \E kept \in BOOLEAN : LogAndTest(kept)
           \/ AcceptIdle /\ ~(FreeFds # {} /\ backlog # <<>>)
  BY <1>2, <1>6, SMTT(30) DEF AcceptFails, LogAndTest, AcceptIdle
<1> QED
  BY <1>1, <1>3, <1>4, <1>5, <1>6, SMTT(30) DEF MainLoop, handleRead

(* A worker queues the connection of its own request. *)
LEMMA TakenClient ==
  ASSUME FreshInv, TakenInv, NEW w \in Workers, Client(w)
  PROVE  TakenInv'
<1>0. UNCHANGED <<fds, ended, served, state>>
  BY Zenon DEF Client, worker, Fetch, Connect, ConnectFails, Send, SendFails, Recv, RecvFails, Count,
         acceptVars, serverVars
<1>t. FreshTypes /\ Conns \subseteq Nat
  BY ClientAssumption DEF FreshInv
<1> SUFFICES ASSUME NEW c \in Conns, Taken(c) PROVE Taken(c)'
  BY <1>0 DEF TakenInv
<1>1. CASE Fetch(w)
  <2>1. /\ next' = next + 1 /\ UNCHANGED backlog
        /\ id' = [id EXCEPT ![w] = IF next >= total THEN 0 ELSE next]
        /\ wpc' = [wpc EXCEPT ![w] = IF next >= total THEN "done" ELSE "connect"]
    BY <1>1 DEF Fetch, Goes, NoMore, acceptVars
  <2> QED
    BY <1>t, <2>1 DEF FreshTypes, Taken
<1>2. CASE Connect(w)
  <2>1. /\ backlog' = Append(backlog, id[w]) /\ UNCHANGED <<next, id>>
        /\ wpc[w] = "connect" /\ wpc' = [wpc EXCEPT ![w] = "write"]
    BY <1>2 DEF Connect, Goes
  <2>2. \A i \in 1..Len(backlog') : (i \in 1..Len(backlog) /\ backlog'[i] = backlog[i]) \/ backlog'[i] = id[w]
    BY <1>t, <2>1 DEF FreshTypes
  <2> QED
    BY <1>t, <2>1, <2>2 DEF FreshTypes, Taken
<1>3. CASE ConnectFails(w) \/ SendFails(w) \/ RecvFails(w) \/ Count(w)
  <2>1. UNCHANGED <<backlog, next>> /\ wpc' = [wpc EXCEPT ![w] = "fetch"]
        /\ id' = [id EXCEPT ![w] = 0]
    BY <1>3, Zenon DEF ConnectFails, SendFails, RecvFails, Count, Goes, EndRequest, acceptVars
  <2> QED
    BY <1>t, <2>1 DEF FreshTypes, Taken
<1>4. ASSUME NEW n \in 1..messageSize, Send(w, n) \/ Recv(w, n)
      PROVE  Taken(c)'
  <2>1. UNCHANGED <<backlog, next, id>>
    BY <1>4, Zenon DEF Send, Recv, acceptVars
  <2>2. \E to \in {"read", "write", "count"} : wpc' = [wpc EXCEPT ![w] = to]
    BY <1>4 DEF Send, Recv, Goes
  <2> QED
    BY <1>t, <2>1, <2>2 DEF FreshTypes, Taken
<1> QED
  BY <1>1, <1>2, <1>3, <1>4, Zenon DEF Client, worker

(* Every step of the system. *)
LEMMA TakenStep ==
  ASSUME FreshInv, IdleInv, TakenInv, [Next]_allVars
  PROVE  TakenInv'
<1>0. Conns \cap {Free, Idle, File} = {}
  BY AcceptorAssumption
<1>1. ASSUME UNCHANGED <<next, backlog, wpc, id>>
      PROVE  \A c : Taken(c)' = Taken(c)
  BY <1>1, Zenon DEF Taken
<1>2. ASSUME NEW c \in Conns, ServeConn(c)
      PROVE  TakenInv'
  <2>1. UNCHANGED <<next, backlog, wpc, id, served>>
    BY <1>2, Zenon DEF ServeConn, Establish, onMessage, handleClose, Release, acceptVars, clientVars
  <2>2. CASE Establish(c) \/ onMessage(c) \/ handleClose(c)
    <3>1. /\ UNCHANGED <<fds, ended>> /\ state[c] # "disconnected"
          /\ \E s \in {"connected", "disconnecting", "disconnected"} : state' = [state EXCEPT ![c] = s]
      BY <2>2, SMTT(30) DEF Establish, onMessage, handleClose, acceptVars
    <3> QED
      BY <1>1, <2>1, <3>1, SMTT(30) DEF TakenInv, FreshInv, FreshTypes
  <2>3. CASE Release(c)
    <3>1. PICK s \in Slots : fds[s] = c /\ CloseFd(s)
      BY <2>3, SMTT(30) DEF Release
    <3>2. fds' = [fds EXCEPT ![s] = Free] /\ ended' = ended \cup {c} /\ state' = state
          /\ state[c] = "disconnected"
      BY <2>3, <3>1, ZenonT(30) DEF CloseFd, Release, serverVars
    <3>3. \A u \in Slots : fds'[u] \in Conns => fds'[u] = fds[u]
      BY <1>0, <3>2 DEF IdleInv
    <3> QED
      BY <1>1, <2>1, <3>1, <3>2, <3>3, SMTT(30) DEF TakenInv
  <2> QED
    BY <1>2, <2>2, <2>3, SMTT(30) DEF ServeConn
<1>3. CASE OtherThreads
  <2>1. UNCHANGED <<next, backlog, wpc, id, served, state>>
    BY <1>3 DEF OtherThreads, OpenFile, CloseFile, clientVars, serverVars
  <2>2. ended' = ended /\ \A u \in Slots : fds'[u] \in Conns => fds'[u] = fds[u]
    BY <1>0, <1>3, FreeFd, SMTT(30) DEF OtherThreads, OpenFile, CloseFile, CloseFd, IdleInv
  <2> QED
    BY <1>1, <2>1, <2>2 DEF TakenInv
<1>4. CASE UNCHANGED allVars
  BY <1>1, <1>4, Zenon DEF TakenInv, allVars, acceptVars, clientVars, serverVars
<1> QED
  BY <1>2, <1>3, <1>4, TakenMainLoop, TakenClient DEF Next

-----------------------------------------------------------------------------
(* A step that leaves the queue, the requests and the connections alone. *)
LEMMA FreshKept ==
  ASSUME FreshInv, UNCHANGED <<next, id, wpc, backlog, served, state>>
  PROVE  FreshInv'
<1>1. FreshTypes' /\ NotYetMade' /\ Queued' /\ Begun'
  BY DEF FreshInv, FreshTypes, NotYetMade, Untouched, Queued, Begun
<1>2. Dialling'
  BY Zenon DEF FreshInv, Dialling, Untouched
<1> QED
  BY <1>1, <1>2 DEF FreshInv

(* handleRead takes the head of the queue: it leaves the queue as it is served. *)
LEMMA FreshMainLoop ==
  ASSUME FreshInv, MainLoop
  PROVE  FreshInv'
<1>0. UNCHANGED <<next, id, wpc, state>>
  BY DEF MainLoop, clientVars, serverVars
<1>p. FreshTypes /\ Dialling /\ NotYetMade /\ Queued /\ Begun
  BY DEF FreshInv
<1>1. ASSUME backlog # <<>>, backlog' = Tail(backlog), served' \in {served, served \cup {Head(backlog)}}
      PROVE  FreshInv'
  <2>1. /\ backlog' \in Seq(Conns) /\ Len(backlog') = Len(backlog) - 1
        /\ \A i \in 1..Len(backlog') : backlog'[i] = backlog[i + 1] /\ i + 1 \in 1..Len(backlog)
        /\ Head(backlog) = backlog[1] /\ backlog[1] \in Conns /\ 1 \in 1..Len(backlog)
        /\ \A i \in 1..Len(backlog') : i + 1 # 1
    BY <1>p, <1>1 DEF FreshTypes
  <2>2. \A c \in Conns : Untouched(c) => Untouched(c)'
    BY <1>1, <2>1 DEF Untouched
  <2>3. Queued'
    <3>1. \A i, j \in 1..Len(backlog') : i # j => backlog'[i] # backlog'[j]
      BY <1>p, <2>1 DEF Queued, FreshTypes
    <3>2. \A i \in 1..Len(backlog') : backlog'[i] \notin served'
      BY <1>p, <1>1, <2>1 DEF Queued
    <3> QED
      BY <3>1, <3>2 DEF Queued
  <2>4. FreshTypes'
    BY <1>p, <1>0, <1>1, <2>1 DEF FreshTypes
  <2>5. Dialling' /\ NotYetMade'
    BY <1>p, <1>0, <2>2 DEF Dialling, NotYetMade
  <2>6. Begun'
    BY <1>p, <1>0, <1>1 DEF Begun
  <2> QED
    BY <2>3, <2>4, <2>5, <2>6 DEF FreshInv
<1>2. CASE AcceptConn
  BY <1>1, <1>2 DEF AcceptConn
<1>3. CASE UNCHANGED <<backlog, served>>
  BY <1>0, <1>3, FreshKept
<1>4. CASE AcceptIdle
  BY <1>1, <1>3, <1>4 DEF AcceptIdle
<1> QED
  BY <1>2, <1>3, <1>4, Zenon
  DEF MainLoop, handleRead, AcceptFails, LogAndTest, CloseIdle, TurnAway, Reopen

(* A worker queues a connection only after fetching its number, which no other has. *)
LEMMA FreshClient ==
  ASSUME FreshInv, NEW w \in Workers, Client(w)
  PROVE  FreshInv'
<1>0. UNCHANGED state /\ Conns \subseteq Nat
  BY ClientAssumption DEF Client, serverVars
<1>p. FreshTypes /\ Dialling /\ NotYetMade /\ Queued /\ Begun
  BY DEF FreshInv
<1>1. CASE Fetch(w)
  <2>1. /\ next' = next + 1 /\ UNCHANGED <<backlog, served>>
        /\ wpc[w] = "fetch"
        /\ id' = [id EXCEPT ![w] = IF next >= total THEN 0 ELSE next]
        /\ wpc' = [wpc EXCEPT ![w] = IF next >= total THEN "done" ELSE "connect"]
    BY <1>1 DEF Fetch, Goes, NoMore, acceptVars
  <2>2. \A c : Untouched(c)' = Untouched(c)
    BY <2>1, Zenon DEF Untouched
  <2>3. /\ \A v \in Workers : v # w => wpc'[v] = wpc[v] /\ id'[v] = id[v]
        /\ wpc'[w] = "connect" => id'[w] = next /\ next \in Conns
        /\ next \in Nat /\ next' = next + 1
    BY <1>p, <2>1, ClientAssumption DEF FreshTypes
  <2>4. FreshTypes'
    BY <1>p, <1>0, <2>1 DEF FreshTypes
  <2>5. NotYetMade'
    BY <1>p, <1>0, <2>1, <2>2, <2>3 DEF NotYetMade
  <2>6. Dialling'
    <3>0. \A v \in Workers : v # w /\ wpc'[v] = "connect" =>
            id'[v] = id[v] /\ id[v] \in Conns /\ id[v] < next /\ Untouched(id[v])
      BY <1>p, <2>3 DEF Dialling
    <3>1. ASSUME NEW v \in Workers, wpc'[v] = "connect"
          PROVE  id'[v] \in Conns /\ id'[v] < next' /\ Untouched(id'[v])
      <4>1. CASE v = w
        BY <1>p, <2>3, <3>1, <4>1 DEF NotYetMade
      <4>2. CASE v # w
        <5>1. id'[v] = id[v] /\ id[v] \in Conns /\ id[v] < next /\ Untouched(id[v])
          BY <3>0, <3>1, <4>2
        <5>2. next \in Nat /\ next' = next + 1 /\ id[v] \in Nat
          BY <1>0, <2>3, <5>1, Zenon
        <5>3. id[v] < next'
          BY <5>1, <5>2
        <5> QED
          BY <5>1, <5>3, Zenon
      <4> QED
        BY <4>1, <4>2
    <3>2. ASSUME NEW u \in Workers, NEW v \in Workers, u # v, wpc'[u] = "connect", wpc'[v] = "connect"
          PROVE  id'[u] # id'[v]
      <4>1. CASE u # w /\ v # w
        BY <1>p, <2>3, <3>2, <4>1 DEF Dialling
      <4>2. CASE u = w \/ v = w
        BY <1>0, <2>3, <3>0, <3>2, <4>2
      <4> QED
        BY <4>1, <4>2
    <3> QED
      BY <2>2, <3>1, <3>2 DEF Dialling
  <2>7. Queued' /\ Begun'
    BY <1>p, <1>0, <2>1 DEF Queued, Begun
  <2> QED
    BY <2>4, <2>5, <2>6, <2>7 DEF FreshInv
<1>2. CASE Connect(w)
  <2>1. /\ backlog' = Append(backlog, id[w]) /\ UNCHANGED <<served, next, id>>
        /\ wpc[w] = "connect" /\ wpc' = [wpc EXCEPT ![w] = "write"]
    BY <1>2 DEF Connect, Goes
  <2>2. id[w] \in Conns /\ id[w] < next /\ Untouched(id[w])
    BY <1>p, <2>1 DEF Dialling
  <2>3. /\ backlog' \in Seq(Conns) /\ Len(backlog) \in Nat
        /\ \A i \in 1..Len(backlog') :
             \/ i \in 1..Len(backlog) /\ backlog'[i] = backlog[i]
             \/ i = Len(backlog) + 1 /\ backlog'[i] = id[w]
    BY <1>p, <2>1, <2>2 DEF FreshTypes
  <2>4. \A v \in Workers : wpc'[v] = "connect" => v # w /\ wpc[v] = "connect" /\ id[v] # id[w]
    BY <1>p, <2>1 DEF FreshTypes, Dialling
  <2>5. \A c \in Conns : Untouched(c) /\ c # id[w] => Untouched(c)'
    BY <2>1, <2>3 DEF Untouched
  <2>6. Queued'
    <3>1. \A i \in 1..Len(backlog) : backlog[i] # id[w]
      BY <2>2 DEF Untouched
    <3>2. \A i \in 1..Len(backlog') : backlog'[i] \notin served'
      BY <1>p, <2>1, <2>2, <2>3 DEF Queued, Untouched
    <3>3. \A i, j \in 1..Len(backlog') : i # j => backlog'[i] # backlog'[j]
      BY <1>p, <2>3, <3>1, Zenon DEF Queued
    <3> QED
      BY <3>2, <3>3 DEF Queued
  <2>7. Dialling'
    BY <1>p, <2>1, <2>4, <2>5 DEF Dialling
  <2>8. NotYetMade'
    BY <1>p, <1>0, <2>1, <2>2, <2>5 DEF NotYetMade, FreshTypes
  <2>9. FreshTypes' /\ Begun'
    BY <1>p, <1>0, <2>1, <2>3 DEF FreshTypes, Begun
  <2> QED
    BY <2>6, <2>7, <2>8, <2>9 DEF FreshInv
<1>3. ASSUME UNCHANGED <<backlog, served, next>>,
             NEW to \in {"fetch", "read", "write", "count"}, wpc' = [wpc EXCEPT ![w] = to],
             id' = id \/ id' = [id EXCEPT ![w] = 0]
      PROVE  FreshInv'
  <2>1. \A v \in Workers : wpc'[v] = "connect" => v # w /\ wpc[v] = "connect" /\ id'[v] = id[v]
    BY <1>p, <1>3 DEF FreshTypes
  <2>2. FreshTypes'
    BY <1>p, <1>0, <1>3 DEF FreshTypes
  <2>3. \A c : Untouched(c)' = Untouched(c)
    BY <1>3, Zenon DEF Untouched
  <2>4. NotYetMade' /\ Queued' /\ Begun'
    BY <1>p, <1>0, <1>3, <2>3 DEF NotYetMade, Queued, Begun
  <2>5. Dialling'
    BY <1>p, <1>3, <2>1, <2>3 DEF Dialling
  <2> QED
    BY <2>2, <2>4, <2>5 DEF FreshInv
<1>4. CASE ConnectFails(w) \/ SendFails(w) \/ RecvFails(w) \/ Count(w)
  <2>1. UNCHANGED <<backlog, served, next>> /\ wpc' = [wpc EXCEPT ![w] = "fetch"]
        /\ id' = [id EXCEPT ![w] = 0]
    BY <1>4, Zenon DEF ConnectFails, SendFails, RecvFails, Count, Goes, EndRequest, acceptVars
  <2> QED
    BY <1>3, <2>1
<1>5. ASSUME NEW n \in 1..messageSize, Send(w, n) \/ Recv(w, n)
      PROVE  FreshInv'
  <2>1. UNCHANGED <<backlog, served, next, id>>
    BY <1>5, Zenon DEF Send, Recv, Goes, acceptVars
  <2>2. \E to \in {"fetch", "read", "write", "count"} : wpc' = [wpc EXCEPT ![w] = to]
    BY <1>5 DEF Send, Recv, Goes
  <2> QED
    BY <1>3, <2>1, <2>2
<1> QED
  BY <1>1, <1>2, <1>4, <1>5, Zenon DEF Client, worker

(* The handlers of a connection run once it is served. *)
LEMMA FreshServe ==
  ASSUME FreshInv, NEW c \in Conns, ServeConn(c)
  PROVE  FreshInv'
<1>1. UNCHANGED <<backlog, served, next, id, wpc>>
  BY Zenon DEF ServeConn, Establish, onMessage, handleClose, Release, acceptVars, clientVars
<1>2. CASE state' = state
  BY <1>1, <1>2, FreshKept
<1>3. ASSUME c \in served, NEW s \in {"connected", "disconnecting", "disconnected"},
             state' = [state EXCEPT ![c] = s]
      PROVE  FreshInv'
  <2>1. FreshTypes' /\ Begun'
    BY <1>1, <1>3 DEF FreshInv, FreshTypes, Begun
  <2>2. Dialling' /\ NotYetMade' /\ Queued'
    BY <1>1, Zenon DEF FreshInv, Dialling, NotYetMade, Queued, Untouched
  <2> QED
    BY <2>1, <2>2 DEF FreshInv
<1>4. c \notin served => state[c] = "connecting"
  BY DEF FreshInv, Begun
<1> QED
  BY <1>2, <1>3, <1>4, Zenon DEF ServeConn, Establish, onMessage, handleClose, Release, serverVars

(* Every step of the system. *)
LEMMA FreshStep ==
  ASSUME FreshInv, [Next]_allVars
  PROVE  FreshInv'
<1>1. CASE OtherThreads \/ UNCHANGED allVars
  <2>1. UNCHANGED <<next, id, wpc, backlog, served, state>>
    BY <1>1, Zenon DEF OtherThreads, OpenFile, CloseFile, allVars, acceptVars, clientVars, serverVars
  <2> QED
    BY <2>1, FreshKept
<1> QED
  BY <1>1, FreshMainLoop, FreshClient, FreshServe DEF Next

-----------------------------------------------------------------------------
(* The system calls of handleRead, one by one. *)
LEMMA IdleMainLoop ==
  ASSUME FreshInv, IdleInv, handleRead
  PROVE  IdleInv'
<1>0. /\ 0 \notin Slots /\ Conns \cap {Free, Idle, File} = {}
      /\ Free # Idle /\ Free # File /\ Idle # File
  BY AcceptorAssumption
<1>h. backlog # <<>> => Head(backlog) \in Conns \ served
  BY DEF FreshInv, FreshTypes, Queued
<1> DEFINE l == Lowest(FreeFds)
<1>l. FreeFds # {} => l \in Slots /\ fds[l] = Free
  BY FreeFd, SMTT(30)
<1> HIDE DEF l
<1>1. CASE AcceptConn
  <2>1. /\ apc = "idle" /\ apc' = "idle" /\ idleFd_' = idleFd_ /\ raced' = raced
        /\ l \in Slots /\ fds[l] = Free /\ Head(backlog) \in Conns
        /\ fds' = [fds EXCEPT ![l] = Head(backlog)]
    BY <1>1, <1>l, <1>h DEF AcceptConn, l
  <2> QED
    BY <1>0, <2>1, SetFd DEF IdleInv
<1>2. CASE AcceptFails \/ \E kept \in BOOLEAN : LogAndTest(kept)
  BY <1>2 DEF AcceptFails, LogAndTest, IdleInv, FreeFds
<1>3. CASE CloseIdle
  <2>1. /\ apc = "close" /\ apc' = "accept" /\ idleFd_' = idleFd_
        /\ raced' = (raced /\ idleFd_ = 0)
        /\ fds' = IF idleFd_ \in Slots THEN [fds EXCEPT ![idleFd_] = Free] ELSE fds
    BY <1>3 DEF CloseIdle, CloseFd
  <2>2. CASE idleFd_ \in Slots
    BY <1>0, <2>1, <2>2, SetFd, Zenon DEF IdleInv
  <2>3. CASE idleFd_ = 0
    BY <1>0, <2>1, <2>3, ZenonT(30) DEF IdleInv
  <2> QED
    BY <2>2, <2>3 DEF IdleInv
<1>4. CASE AcceptIdle
  <2>1. CASE FreeFds # {} /\ backlog # <<>>
    <3>1. /\ apc' = "turnaway" /\ idleFd_' = l /\ raced' = raced /\ served' = served
          /\ fds' = [fds EXCEPT ![l] = Head(backlog)] /\ l \in Slots
          /\ Head(backlog) \in Conns \ served
      BY <1>4, <2>1, <1>l, <1>h, Zenon DEF AcceptIdle, Accepted, l
    <3> QED
      BY <1>0, <3>1, SetFd DEF IdleInv
  <2>2. CASE ~(FreeFds # {} /\ backlog # <<>>)
    <3>1. /\ apc = "accept" /\ apc' = "turnaway" /\ idleFd_' = 0 /\ raced' = raced /\ fds' = fds
          /\ backlog' = backlog
      BY <1>4, <2>2 DEF AcceptIdle, Accepted
    <3> QED
      BY <1>0, <3>1 DEF IdleInv, FreeFds
  <2> QED
    BY <2>1, <2>2
<1>5. CASE TurnAway
  <2>1. /\ apc = "turnaway" /\ apc' = "reopen" /\ idleFd_' = idleFd_ /\ raced' = raced
        /\ fds' = IF idleFd_ \in Slots THEN [fds EXCEPT ![idleFd_] = Free] ELSE fds
    BY <1>5, SMTT(30) DEF TurnAway, CloseFd
  <2>2. CASE idleFd_ \in Slots
    BY <1>0, <2>1, <2>2, SetFd, Zenon DEF IdleInv
  <2>3. CASE idleFd_ = 0
    BY <1>0, <2>1, <2>3 DEF IdleInv, FreeFds
  <2> QED
    BY <2>2, <2>3 DEF IdleInv
<1>6. CASE Reopen
  <2>1. CASE FreeFds # {}
    <3>1. /\ apc' = "idle" /\ idleFd_' = l /\ raced' = raced
          /\ fds' = [fds EXCEPT ![l] = Idle] /\ l \in Slots
      BY <1>6, <2>1, <1>l DEF Reopen, l
    <3> QED
      BY <1>0, <3>1, SetFd DEF IdleInv
  <2>2. CASE FreeFds = {}
    BY <1>0, <1>6, <2>2 DEF Reopen, IdleInv
  <2> QED
    BY <2>1, <2>2
<1> QED
  BY <1>1, <1>2, <1>3, <1>4, <1>5, <1>6 DEF handleRead

(* Other threads' files and the release of connections leave idleFd_ alone. *)
LEMMA IdleOthers ==
  ASSUME FreshInv, IdleInv, OtherThreads \/ \E c \in Conns : Release(c)
  PROVE  IdleInv'
<1>0. /\ 0 \notin Slots /\ Conns \cap {Free, Idle, File} = {}
      /\ Free # Idle /\ Free # File /\ Idle # File
  BY AcceptorAssumption
<1>1. CASE OpenFile
  <2> DEFINE l == Lowest(FreeFds)
  <2>1. /\ l \in Slots /\ fds[l] = Free /\ fds' = [fds EXCEPT ![l] = File]
        /\ raced' = (raced \/ apc \in {"accept", "turnaway", "reopen"})
        /\ UNCHANGED <<idleFd_, apc, served>>
    BY <1>1, FreeFd, Zenon DEF OpenFile
  <2> HIDE DEF l
  <2> QED
    BY <1>0, <2>1, SetFd, Zenon DEF IdleInv
<1>2. ASSUME NEW s \in Slots, fds[s] \in {File} \cup served,
             fds' = [fds EXCEPT ![s] = Free], UNCHANGED <<idleFd_, apc, served, raced>>
      PROVE  IdleInv'
  <2>1. served \subseteq Conns
    BY DEF FreshInv, FreshTypes
  <2>2. /\ fds' \in [Slots -> Conns \cup {Free, Idle, File}]
        /\ \A u \in Slots : u # s => fds'[u] = fds[u]
        /\ FreeFds' # {}
    BY <1>2, SetFd, Zenon
  <2>3. CASE idleFd_ = s
    BY <1>0, <1>2, <2>1, <2>2, <2>3 DEF IdleInv
  <2>4. CASE idleFd_ # s
    BY <1>0, <1>2, <2>1, <2>2, <2>4 DEF IdleInv
  <2> QED
    BY <2>3, <2>4
<1>3. CASE CloseFile
  BY <1>2, <1>3, Zenon DEF CloseFile, CloseFd
<1>4. ASSUME NEW c \in Conns, Release(c)
      PROVE  IdleInv'
  <2>1. c \in served
    BY <1>4, Zenon DEF Release, FreshInv, Begun
  <2> QED
    BY <1>2, <1>4, <2>1, Zenon DEF Release, CloseFd
<1> QED
  BY <1>1, <1>3, <1>4 DEF OtherThreads

(* Every step of the system. *)
LEMMA IdleStep ==
  ASSUME FreshInv, IdleInv, [Next]_allVars
  PROVE  IdleInv'
<1>1. CASE UNCHANGED <<fds, idleFd_, apc, raced, served>>
  BY <1>1 DEF IdleInv, FreeFds
<1>2. CASE MainLoop
  BY <1>2, IdleMainLoop DEF MainLoop
<1>3. CASE OtherThreads \/ \E c \in Conns : Release(c)
  BY <1>3, IdleOthers
<1>4. ASSUME NEW c \in Conns, Establish(c) \/ onMessage(c) \/ handleClose(c)
      PROVE  IdleInv'
  BY <1>1, <1>4, SMTT(30) DEF Establish, onMessage, handleClose, acceptVars
<1>5. ASSUME NEW w \in Workers, Client(w)
      PROVE  IdleInv'
  BY <1>1, <1>5, Zenon DEF Client, worker, Fetch, Connect, ConnectFails, Send, SendFails, Recv, RecvFails,
                    Count, acceptVars
<1> QED
  BY <1>1, <1>2, <1>3, <1>4, <1>5 DEF Next, ServeConn, allVars, acceptVars

(* After the constructor both invariants hold. *)
LEMMA AcceptInitInv ==
  ASSUME Init
  PROVE  FreshInv /\ IdleInv
<1>1. FreshInv
  BY ClientAssumption DEF Init, AcceptInit, ClientInit, FreshInv, FreshTypes, Dialling, NotYetMade,
         Queued, Begun, Untouched
<1>2. Lowest(Slots) \in Slots
  BY LowestIsIn, AcceptorAssumption
<1>3. IdleInv
  BY <1>2, AcceptorAssumption, Zenon DEF Init, AcceptInit, IdleInv
<1> QED
  BY <1>1, <1>3

(* Acceptor::handleRead, with any number of descriptors, of connections    *)
(* and of other threads' files: idleFd_ never names anybody else's         *)
(* descriptor when it is closed.                                           *)
THEOREM IdleFdNeverAnothers == Spec => []IdleFdOwned
<1>1. FreshInv /\ IdleInv /\ [Next]_allVars => (FreshInv /\ IdleInv)'
  BY FreshStep, IdleStep
<1>2. IdleInv => IdleFdOwned
  BY DEF IdleInv, IdleFdOwned
<1> QED
  BY <1>1, <1>2, AcceptInitInv, PTL DEF Spec

-----------------------------------------------------------------------------
(* A worker that takes up a request, and one that ends it. *)
LEMMA ActiveFinite ==
  IsFiniteSet(Active) /\ Cardinality(Active) \in Nat
BY ClientAssumption, FS_Subset, FS_CardinalityType DEF Active

(* A worker takes up a request. *)
LEMMA ActiveGains ==
  ASSUME CountInv, NEW w \in Workers, wpc[w] = "fetch", wpc' = [wpc EXCEPT ![w] = "connect"]
  PROVE  Cardinality(Active') = Cardinality(Active) + 1
<1>1. Active' = Active \cup {w} /\ w \notin Active
  BY DEF CountInv, Active
<1> QED
  BY <1>1, ActiveFinite, FS_AddElement

(* A worker is done with a request. *)
LEMMA ActiveLoses ==
  ASSUME CountInv, NEW w \in Workers, w \in Active, wpc' = [wpc EXCEPT ![w] = "fetch"]
  PROVE  Cardinality(Active') = Cardinality(Active) - 1
<1>1. Active' = Active \ {w}
  BY DEF CountInv, Active
<1> QED
  BY <1>1, ActiveFinite, FS_RemoveElement

(* A worker goes on with its request, or fetches no more. *)
LEMMA ActiveSame ==
  ASSUME CountInv, NEW w \in Workers, NEW to \in {"connect", "write", "read", "count"},
         \/ w \in Active /\ wpc' = [wpc EXCEPT ![w] = to]
         \/ wpc[w] = "fetch" /\ wpc' = [wpc EXCEPT ![w] = "done"]
  PROVE  Active' = Active
BY DEF CountInv, Active

(* A worker counts its request in the step that ends it. *)
LEMMA CountClient ==
  ASSUME CountInv, NEW w \in Workers, worker(w)
  PROVE  CountInv'
<1>0. total \in Nat /\ messageSize \in Nat \ {0}
  BY ClientAssumption
<1>a. Cardinality(Active) \in Nat
  BY ActiveFinite
<1>1. CASE Fetch(w)
  <2>1. /\ wpc[w] = "fetch" /\ next' = next + 1 /\ UNCHANGED <<got, stats>>
        /\ wpc' = [wpc EXCEPT ![w] = IF next >= total THEN "done" ELSE "connect"]
    BY <1>1 DEF Fetch, Goes, NoMore
  <2>2. CASE next >= total
    <3>1. Active' = Active
      BY <2>1, <2>2, ActiveSame, Zenon
    <3> QED
      BY <1>0, <2>1, <2>2, <3>1 DEF CountInv, stats
  <2>3. CASE ~(next >= total)
    <3>1. Cardinality(Active') = Cardinality(Active) + 1
      BY <2>1, <2>3, ActiveGains, Zenon
    <3> QED
      BY <1>0, <1>a, <2>1, <2>3, <3>1 DEF CountInv, stats
  <2> QED
    BY <2>2, <2>3
<1>2. CASE Connect(w) \/ \E n \in 1..messageSize : Send(w, n)
  <2>1. PICK to \in {"write", "read"} : wpc' = [wpc EXCEPT ![w] = to]
    BY <1>2 DEF Connect, Send, Goes
  <2>2. w \in Active /\ UNCHANGED <<next, got, stats>>
    BY <1>2 DEF Connect, Send, Goes, Active
  <2>3. Active' = Active
    BY <2>1, <2>2, ActiveSame, Zenon
  <2> QED
    BY <1>0, <2>1, <2>2, <2>3 DEF CountInv, stats
<1>3. ASSUME NEW n \in 1..messageSize, Recv(w, n)
      PROVE  CountInv'
  <2>1. /\ wpc[w] = "read" /\ UNCHANGED <<next, stats>>
        /\ wpc' = [wpc EXCEPT ![w] = IF got[w] + n = messageSize THEN "count" ELSE "read"]
        /\ got' = [got EXCEPT ![w] = @ + n]
    BY <1>3 DEF Recv, Goes
  <2>2. w \in Active
    BY <2>1 DEF Active
  <2>3. Active' = Active
    BY <2>1, <2>2, ActiveSame, Zenon
  <2>4. got' \in [Workers -> Nat] /\ \A v \in Workers : wpc'[v] = "count" => got'[v] = messageSize
    BY <1>0, <2>1 DEF CountInv
  <2> QED
    BY <1>0, <2>1, <2>3, <2>4 DEF CountInv, stats
<1>4. CASE ConnectFails(w) \/ SendFails(w) \/ RecvFails(w) \/ Count(w)
  <2>1. /\ w \in Active /\ wpc' = [wpc EXCEPT ![w] = "fetch"]
        /\ next' = next /\ got' = [got EXCEPT ![w] = 0]
    BY <1>4, Zenon DEF ConnectFails, SendFails, RecvFails, Count, Goes, EndRequest, Active
  <2>2. Cardinality(Active') = Cardinality(Active) - 1
    BY <2>1, ActiveLoses, ZenonT(30)
  <2>3. /\ wpc' \in [Workers -> {"fetch", "connect", "write", "read", "count", "done"}]
        /\ got' \in [Workers -> Nat]
        /\ \A v \in Workers : wpc'[v] = "count" => got'[v] = messageSize
        /\ \A v \in Workers : wpc'[v] = "done" => next' >= total
    BY <1>0, <2>1 DEF CountInv
  <2>4. CASE ConnectFails(w) \/ SendFails(w) \/ RecvFails(w)
    <3>1. /\ UNCHANGED <<success, bytesRead, latenciesUs>>
          /\ \/ connectFail' = connectFail + 1 /\ UNCHANGED <<sendFail, recvFail>>
             \/ sendFail' = sendFail + 1 /\ UNCHANGED <<connectFail, recvFail>>
             \/ recvFail' = recvFail + 1 /\ UNCHANGED <<connectFail, sendFail>>
      BY <2>4, Zenon DEF ConnectFails, SendFails, RecvFails
    <3>2. connectFail' + sendFail' + recvFail' = connectFail + sendFail + recvFail + 1
          /\ connectFail' \in Nat /\ sendFail' \in Nat /\ recvFail' \in Nat
      BY <3>1 DEF CountInv
    <3> QED
      BY <1>0, <1>a, <2>1, <2>2, <2>3, <3>1, <3>2 DEF CountInv
  <2>5. CASE Count(w)
    <3>1. /\ bytesRead' = bytesRead + messageSize /\ success' = success + 1
          /\ latenciesUs' = latenciesUs + 1 /\ UNCHANGED <<connectFail, sendFail, recvFail>>
      BY <2>5 DEF Count, Goes, CountInv
    <3>2. bytesRead' = success' * messageSize
      BY <1>0, <3>1 DEF CountInv
    <3> QED
      BY <1>0, <1>a, <2>1, <2>2, <2>3, <3>1, <3>2, SMTT(30) DEF CountInv
  <2> QED
    BY <1>4, <2>4, <2>5, Zenon
<1> QED
  BY <1>1, <1>2, <1>3, <1>4 DEF worker

(* Every step of the system. *)
LEMMA CountStep ==
  ASSUME CountInv, [Next]_allVars
  PROVE  CountInv'
<1>1. CASE UNCHANGED clientVars
  BY <1>1, SMTT(30) DEF CountInv, Active, clientVars, stats
<1>2. ASSUME NEW c \in Conns, ServeConn(c)
      PROVE  UNCHANGED clientVars
  BY <1>2, Zenon DEF ServeConn, Establish, onMessage, handleClose, Release
<1>3. ASSUME NEW w \in Workers, Client(w)
      PROVE  CountInv'
  BY <1>3, CountClient DEF Client
<1> QED
  BY <1>1, <1>2, <1>3, SMTT(30) DEF Next, MainLoop, OtherThreads, allVars

(* stress_client's main, for any number of workers, requests and bytes: a  *)
(* request is counted as one success or one failure, whichever worker made *)
(* it and however the calls ended.                                         *)
THEOREM FiguresAddUp == Spec => []EveryRequestCounted
<1>1. Init => CountInv
  <2> SUFFICES ASSUME Init PROVE CountInv
    OBVIOUS
  <2>1. Active = {}
    BY DEF Init, ClientInit, Active
  <2>2. Cardinality(Active) = 0
    BY <2>1, FS_EmptySet, SMTT(30)
  <2> QED
    BY <2>2, ClientAssumption DEF Init, ClientInit, CountInv
<1>2. CountInv => EveryRequestCounted
  <2> SUFFICES ASSUME CountInv, AllJoined PROVE EveryRequestCounted
    BY DEF EveryRequestCounted
  <2>1. Active = {}
    BY DEF AllJoined, Active
  <2>2. Cardinality(Active) = 0
    BY <2>1, FS_EmptySet, SMTT(30)
  <2>3. next >= total
    BY ClientAssumption, SMTT(30) DEF AllJoined, CountInv
  <2> QED
    BY <2>2, <2>3, ClientAssumption DEF CountInv, EveryRequestCounted
<1> QED
  BY <1>1, <1>2, CountStep, PTL DEF Spec

-----------------------------------------------------------------------------
(* testserver's onMessage under stress_client, for any number of workers,  *)
(* requests, bytes and descriptors: a client that meets the end of the     *)
(* stream before its whole message was split by the first read or turned   *)
(* away by the Acceptor; no other order of closing and releasing cuts an   *)
(* answer short.                                                           *)
THEOREM AnswersCutOnlyIfSplit == Spec => []ShortOnlyIfSplit
<1> DEFINE Inv == FreshInv /\ IdleInv /\ TakenInv /\ EchoInv /\ ShortOnlyIfSplit
<1>1. Init => Inv
  <2> SUFFICES ASSUME Init PROVE TakenInv /\ EchoInv /\ ShortOnlyIfSplit
    BY AcceptInitInv, SMTT(30)
  <2>1. TakenInv
    BY AcceptorAssumption, SMTT(30) DEF Init, AcceptInit, TakenInv
  <2>2. Active = {}
    BY DEF Init, ClientInit, Active
  <2>3. EchoInv
    BY <2>2 DEF Init, ClientInit, EchoInv, Counts, Requests, OwnConns, Unused, ShutDown
  <2> QED
    BY <2>1, <2>3 DEF Init, ClientInit, ShortOnlyIfSplit
<1>2. Inv /\ [Next]_allVars => Inv'
  BY FreshStep, IdleStep, TakenStep, EchoStep, ShortStep
<1>3. Inv => ShortOnlyIfSplit
  OBVIOUS
<1> QED
  BY <1>1, <1>2, <1>3, PTL DEF Spec
=============================================================================
