------------------------------- MODULE Acceptor -------------------------------
(***************************************************************************)
(* src/src/net/Acceptor.cc with Socket::accept: how the main loop takes    *)
(* connections from the kernel's queue, and what it does when the process  *)
(* has no file descriptor left: it gives up the spare idleFd_ for a moment *)
(* so as to accept and close one connection.                               *)
(*                                                                         *)
(* The descriptors are the process's: other threads open and close theirs  *)
(* between any two system calls of handleRead (a LogFile that rolls, a     *)
(* TcpConnection that goes).  The kernel hands out the lowest free one.    *)
(***************************************************************************)
EXTENDS Naturals, Sequences, FiniteSets, Functions

CONSTANTS
  Conns,       \* the connections clients make
  Slots,       \* the descriptors not in use when the Acceptor is constructed
  MaxOpens,    \* bound on the files other threads have open at a time
  LogKeepsErrno, \* whether LOG_ERROR leaves errno alone
  Free, Idle, File \* a descriptor that is free, is /dev/null, is another thread's

ASSUME AcceptorAssumption ==
  /\ Slots \subseteq Nat \ {0} /\ Slots # {} /\ IsFiniteSet(Slots)
  /\ MaxOpens \in Nat /\ LogKeepsErrno \in BOOLEAN
  /\ Conns \cap {Free, Idle, File} = {} /\ Free # Idle /\ Free # File /\ Idle # File

VARIABLES
  fds,       \* what each descriptor is
  backlog,   \* connections the kernel has queued for accept
  idleFd_,   \* 0 for -1
  apc,       \* where handleRead is
  served,    \* connections given to newConnectionCallback_
  ended,     \* connections whose last descriptor was closed
  raced      \* another thread opened a file while the spare descriptor was given up

acceptVars == <<fds, backlog, idleFd_, apc, served, ended, raced>>

FreeFds == {s \in Slots : fds[s] = Free}

Lowest(S) == CHOOSE s \in S : \A u \in S : s <= u

(* ::close(fd); a connection ends with its descriptor. *)
CloseFd(s) ==
  /\ fds' = IF s \in Slots THEN [fds EXCEPT ![s] = Free] ELSE fds
  /\ ended' = IF s \in Slots THEN ended \cup ({fds[s]} \cap Conns) ELSE ended

-----------------------------------------------------------------------------
(* handleRead, called because the listening socket is readable.            *)

(* accept4 succeeds: newConnectionCallback_ takes the connection. *)
AcceptConn ==
  /\ apc = "idle" /\ backlog # <<>> /\ FreeFds # {}
  /\ fds' = [fds EXCEPT ![Lowest(FreeFds)] = Head(backlog)]
  /\ served' = served \cup {Head(backlog)}
  /\ backlog' = Tail(backlog)
  /\ UNCHANGED <<idleFd_, apc, ended, raced>>

AcceptFails ==
  /\ apc = "idle" /\ backlog # <<>> /\ FreeFds = {}
  /\ apc' = "log"
  /\ UNCHANGED <<fds, backlog, idleFd_, served, ended, raced>>

(* LOG_ERROR, then if (errno == EMFILE), unless logging has changed errno. *)
LogAndTest(kept) ==
  /\ apc = "log"
  /\ LogKeepsErrno => kept
  /\ apc' = IF kept THEN "close" ELSE "idle"
  /\ UNCHANGED <<fds, backlog, idleFd_, served, ended, raced>>

CloseIdle ==
  /\ apc = "close"
  /\ CloseFd(idleFd_)
  /\ apc' = "accept"
  /\ raced' = (raced /\ idleFd_ = 0)
  /\ UNCHANGED <<backlog, idleFd_, served>>

(* idleFd_ = ::accept(...) *)
Accepted_KeepsOld(s) == IF s = 0 THEN idleFd_ ELSE s

Accepted(s) == s

AcceptIdle ==
  /\ apc = "accept"
  /\ IF FreeFds # {} /\ backlog # <<>>
       THEN /\ idleFd_' = Accepted(Lowest(FreeFds))
            /\ fds' = [fds EXCEPT ![Lowest(FreeFds)] = Head(backlog)]
            /\ backlog' = Tail(backlog)
       ELSE idleFd_' = Accepted(0) /\ UNCHANGED <<fds, backlog>>
  /\ apc' = "turnaway"
  /\ UNCHANGED <<served, ended, raced>>

TurnAway_KeepsOpen ==
  /\ apc = "turnaway"
  /\ apc' = "reopen"
  /\ UNCHANGED <<fds, backlog, idleFd_, served, ended, raced>>

TurnAway ==
  /\ apc = "turnaway"
  /\ CloseFd(idleFd_)
  /\ apc' = "reopen"
  /\ UNCHANGED <<backlog, idleFd_, served, raced>>

(* idleFd_ = ::open("/dev/null") *)
Reopen ==
  /\ apc = "reopen"
  /\ IF FreeFds # {}
       THEN idleFd_' = Lowest(FreeFds) /\ fds' = [fds EXCEPT ![Lowest(FreeFds)] = Idle]
       ELSE idleFd_' = 0 /\ UNCHANGED fds
  /\ apc' = "idle"
  /\ UNCHANGED <<backlog, served, ended, raced>>

handleRead ==
  \/ AcceptConn \/ AcceptFails
  \/ \E kept \in BOOLEAN : LogAndTest(kept)
  \/ CloseIdle \/ AcceptIdle \/ TurnAway \/ Reopen

-----------------------------------------------------------------------------
(* Other threads.                                                          *)
OpenFile ==
  /\ FreeFds # {} /\ Cardinality({s \in Slots : fds[s] = File}) < MaxOpens
  /\ fds' = [fds EXCEPT ![Lowest(FreeFds)] = File]
  /\ raced' = (raced \/ apc \in {"accept", "turnaway", "reopen"})
  /\ UNCHANGED <<backlog, idleFd_, apc, served, ended>>

CloseFile ==
  /\ \E s \in Slots : fds[s] = File /\ CloseFd(s)
  /\ UNCHANGED <<backlog, idleFd_, apc, served, raced>>

(* The constructor opens /dev/null. *)
AcceptInit ==
  /\ fds = [s \in Slots |-> IF s = Lowest(Slots) THEN Idle ELSE Free]
  /\ idleFd_ = Lowest(Slots)
  /\ backlog = <<>>
  /\ apc = "idle"
  /\ served = {}
  /\ ended = {}
  /\ raced = FALSE

-----------------------------------------------------------------------------
(* handleRead closes nothing but its spare descriptor and the connection   *)
(* it turns away, although the number in idleFd_ is free for others        *)
(* between its calls; and the spare descriptor is lost only to a thread    *)
(* that opened one in that window.                                         *)
IdleFdOwned ==
  /\ apc = "close" /\ idleFd_ # 0 => fds[idleFd_] = Idle
  /\ apc = "turnaway" /\ idleFd_ # 0 => fds[idleFd_] \in Conns \ served
  /\ apc = "idle" /\ idleFd_ = 0 => raced
=============================================================================
