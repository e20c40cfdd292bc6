----------------------------- MODULE StressClient -----------------------------
(***************************************************************************)
(* src/example/stress_client.cc: worker threads that share out total       *)
(* requests by an atomic counter.  A request connects, sends the message,  *)
(* reads as many bytes back, and is counted as a success or as one of      *)
(* three kinds of failure.                                                 *)
(*                                                                         *)
(* Request id makes connection id.  The two directions of a connection are *)
(* the numbers of bytes on their way.  Every blocking call has a timeout.  *)
(***************************************************************************)
EXTENDS Acceptor

CONSTANTS
  Workers, total, messageSize,
  Backlog   \* the length of the listen queue

ASSUME ClientAssumption ==
  /\ total \in Nat /\ Conns = 0..(total - 1)
  /\ IsFiniteSet(Workers) /\ Workers # {}
  /\ messageSize \in Nat \ {0} /\ Backlog \in Nat

VARIABLES
  toServer, toClient, \* bytes in flight
  fin,                \* connections the server has shut down for writing
  closed,             \* connections the client has closed
  next,               \* the shared counter
  wpc, id, sent, got, \* of each worker: where it is, its request, its progress
  success, connectFail, sendFail, recvFail, bytesRead, latenciesUs,
  short               \* requests that read the end of the stream too early

wire      == <<toServer, toClient, fin>>
stats     == <<success, connectFail, sendFail, recvFail, bytesRead, latenciesUs>>
clientVars == <<closed, next, wpc, id, sent, got, stats, short>>

Goes(w, from, to) == wpc[w] = from /\ wpc' = [wpc EXCEPT ![w] = to]

(* close(fd), and the end of an iteration with its locals. *)
EndRequest(w) ==
  /\ closed' = closed \cup {id[w]}
  /\ id' = [id EXCEPT ![w] = 0]
  /\ sent' = [sent EXCEPT ![w] = 0]
  /\ got' = [got EXCEPT ![w] = 0]

(* int id = next->fetch_add(1); if (id >= config.total) break; *)
NoMore_OneEarly(n) == n + 1 >= total

NoMore(n) == n >= total

Fetch(w) ==
  /\ Goes(w, "fetch", IF NoMore(next) THEN "done" ELSE "connect")
  /\ id' = [id EXCEPT ![w] = IF NoMore(next) THEN 0 ELSE next]
  /\ next' = next + 1
  /\ UNCHANGED <<acceptVars, wire, closed, sent, got, stats, short>>

(* socket and connect: the kernel completes the handshake when there is    *)
(* room in the queue of the listening socket.                              *)
Connect(w) ==
  /\ Goes(w, "connect", "write")
  /\ Len(backlog) < Backlog
  /\ backlog' = Append(backlog, id[w])
  /\ UNCHANGED <<fds, idleFd_, apc, served, ended, raced, wire, closed, next,
                 id, sent, got, stats, short>>

ConnectFails(w) ==
  /\ Goes(w, "connect", "fetch")
  /\ connectFail' = connectFail + 1
  /\ EndRequest(w)
  /\ UNCHANGED <<acceptVars, wire, next, success, sendFail, recvFail,
                 bytesRead, latenciesUs, short>>

(* writeAll: one send, of n bytes. *)
Send(w, n) ==
  /\ Goes(w, "write", IF sent[w] + n = messageSize THEN "read" ELSE "write")
  /\ n <= messageSize - sent[w]
  /\ sent' = [sent EXCEPT ![w] = @ + n]
  /\ toServer' = [toServer EXCEPT ![id[w]] = @ + n]
  /\ UNCHANGED <<acceptVars, toClient, fin, closed, next, id, got, stats, short>>

SendFails(w) ==
  /\ Goes(w, "write", "fetch")
  /\ sendFail' = sendFail + 1
  /\ EndRequest(w)
  /\ UNCHANGED <<acceptVars, wire, next, success, connectFail, recvFail,
                 bytesRead, latenciesUs, short>>

(* readExpected: one recv, of n bytes. *)
Recv(w, n) ==
  /\ Goes(w, "read", IF got[w] + n = messageSize THEN "count" ELSE "read")
  /\ n <= messageSize - got[w] /\ n <= toClient[id[w]]
  /\ got' = [got EXCEPT ![w] = @ + n]
  /\ toClient' = [toClient EXCEPT ![id[w]] = @ - n]
  /\ UNCHANGED <<acceptVars, toServer, fin, closed, next, id, sent, stats, short>>

AtEnd(c) == toClient[c] = 0 /\ c \in fin \cup ended

(* recv returns 0 at the end of the stream, or -1 after the timeout. *)
RecvFails(w) ==
  /\ Goes(w, "read", "fetch")
  /\ recvFail' = recvFail + 1
  /\ EndRequest(w)
  /\ short' = IF AtEnd(id[w]) THEN short \cup {id[w]} ELSE short
  /\ UNCHANGED <<acceptVars, wire, next, success, connectFail, sendFail,
                 bytesRead, latenciesUs>>

(* The three atomic updates are one step: nobody reads them before main    *)
(* has joined the workers.                                                 *)
Count(w) ==
  /\ Goes(w, "count", "fetch")
  /\ EndRequest(w)
  /\ bytesRead' = bytesRead + got[w]
  /\ success' = success + 1
  /\ latenciesUs' = latenciesUs + 1
  /\ UNCHANGED <<acceptVars, wire, next, connectFail, sendFail, recvFail, short>>

worker(w) ==
  \/ Fetch(w) \/ Connect(w) \/ ConnectFails(w)
  \/ \E n \in 1..messageSize : Send(w, n) \/ Recv(w, n)
  \/ SendFails(w) \/ RecvFails(w) \/ Count(w)

ClientInit ==
  /\ toServer = [c \in Conns |-> 0]
  /\ toClient = [c \in Conns |-> 0]
  /\ fin = {}
  /\ closed = {}
  /\ next = 0
  /\ wpc = [w \in Workers |-> "fetch"]
  /\ id = [w \in Workers |-> 0]
  /\ sent = [w \in Workers |-> 0]
  /\ got = [w \in Workers |-> 0]
  /\ success = 0 /\ connectFail = 0 /\ sendFail = 0 /\ recvFail = 0
  /\ bytesRead = 0 /\ latenciesUs = 0
  /\ short = {}

AllJoined == \A w \in Workers : wpc[w] = "done"

-----------------------------------------------------------------------------
(* What main prints after the joins adds up: every request was counted     *)
(* once, by whichever worker, and a success is a whole message and has its *)
(* latency.                                                                *)
EveryRequestCounted ==
  AllJoined =>
    /\ success + connectFail + sendFail + recvFail = total
    /\ latenciesUs = success
    /\ bytesRead = success * messageSize
=============================================================================
