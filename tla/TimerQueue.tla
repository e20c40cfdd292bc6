----------------------------- MODULE TimerQueue ------------------------------
(***************************************************************************)
(* src/src/net/TimerQueue.cc with Timer: the timers of one loop on one     *)
(* timerfd, used by the loop's own callbacks and by other threads.         *)
(*                                                                         *)
(* Time is relative: a point of time is the number of ticks until it, 0    *)
(* once it is due, and Tick moves everything one tick nearer.  One tick is *)
(* the 100us that howMuchTimeFromNow waits at least.                       *)
(*                                                                         *)
(* A Timer* is an address; delete frees it and new may use it again, with  *)
(* the next sequence number.                                               *)
(***************************************************************************)
EXTENDS Naturals, Sequences, FiniteSets, Functions

CONSTANTS
  Users,      \* threads other than the loop's
  Ptrs,       \* addresses
  MaxTimers,  \* bound on the timers created
  MaxDelay,   \* bound on a timer's delay and interval
  MaxPending  \* bound on the functors waiting when cancel() queues one more

ASSUME TimerAssumption ==
  /\ IsFiniteSet(Ptrs)
  /\ {MaxTimers, MaxPending} \subseteq Nat
  /\ MaxDelay \in Nat \ {0}

Seqs   == 1..MaxTimers
Delays == 0..MaxDelay

VARIABLES
  heap,             \* the Timer at each address, seq 0 when there is none
  numCreated,       \* Timer::s_numCreated_
  timers_,          \* entries <<expiration, pointer>>
  activeTimers_, cancelingTimers_,   \* entries <<pointer, sequence>>
  callingExpiredTimers_,
  armed,            \* ticks until the timerfd fires, 0 when disarmed
  readable,         \* the timerfd has fired and has not been read
  active,           \* poll() has reported it
  expired,          \* handleRead's local: the timers whose turn is to come
  called,           \* ... and the ones called
  since,            \* ticks since handleRead took its "now", up to MaxDelay
  pending,          \* functors of the loop
  calls,            \* per user, the address whose sequence addTimer still has to read
  ids,              \* TimerIds handed out
  cancelled, ran    \* sequence numbers cancelled, and called at least once

timerfd == <<armed, readable>>
sets    == <<timers_, activeTimers_>>
batch   == <<callingExpiredTimers_, expired, called, since>>
shared  == <<pending, calls>>
vars    == <<heap, numCreated, sets, cancelingTimers_, timerfd, active, batch, shared, ids,
             cancelled, ran>>

NoTimer == [seq |-> 0, expiration |-> 0, interval |-> 0]
Live(p) == heap[p].seq # 0
Key(p)  == <<p, heap[p].seq>>

Nearer(t) == IF t > 0 THEN t - 1 ELSE 0
Earliest(entries) == CHOOSE t \in {e[1] : e \in entries} : \A e \in entries : t <= e[1]

-----------------------------------------------------------------------------
(* resetTimerfd: at least 100us from now, and timerfd_settime takes back   *)
(* an expiration that was not read.                                        *)
ArmFor_Exactly(t) == t

ArmFor(t) == IF t = 0 THEN 1 ELSE t

resetTimerfd(t) == armed' = ArmFor(t) /\ readable' = FALSE

(* insert of the timer tm at p, and addTimerInLoop. *)
EarliestChanged_OnlyWhenEmpty(t) == timers_ = {}

EarliestChanged(t) == timers_ = {} \/ t < Earliest(timers_)

addTimerInLoop(p, tm) ==
  /\ timers_' = timers_ \cup {<<tm.expiration, p>>}
  /\ activeTimers_' = activeTimers_ \cup {<<p, tm.seq>>}
  /\ IF EarliestChanged(tm.expiration) THEN resetTimerfd(tm.expiration) ELSE UNCHANGED timerfd

(* cancelInLoop.  A timer being called is only noted; reset deletes it.    *)
(* Cancelling one that is gone, or whose addTimerInLoop is still queued,   *)
(* has no effect and is not recorded in cancelled.                         *)
Added(id) ==
  heap[id[1]].seq = id[2] /\ [op |-> "add", timer |-> id[1]] \notin Range(pending)

NotedForReset(id) == IF callingExpiredTimers_ THEN {id} ELSE {}

TimersWithout(p) == timers_ \ {<<heap[p].expiration, p>>}

cancelInLoop(id) ==
  LET p == id[1] IN
  /\ cancelled' = IF Added(id) THEN cancelled \cup {id[2]} ELSE cancelled
  /\ IF id \in activeTimers_
       THEN /\ timers_' = TimersWithout(p)
            /\ activeTimers_' = activeTimers_ \ {id}
            /\ heap' = [heap EXCEPT ![p] = NoTimer]
            /\ UNCHANGED cancelingTimers_
       ELSE /\ cancelingTimers_' = cancelingTimers_ \cup NotedForReset(id)
            /\ UNCHANGED <<sets, heap>>

(* new Timer, at any free address. *)
NewTimer(p, delay, interval) ==
  /\ numCreated < MaxTimers
  /\ ~Live(p)
  /\ numCreated' = numCreated + 1
  /\ heap' = [heap EXCEPT ![p] = [seq |-> numCreated + 1, expiration |-> delay, interval |-> interval]]

-----------------------------------------------------------------------------
(* The loop thread.  Its callbacks call addTimer and cancel, which then    *)
(* run at once; a callback may also do neither.                            *)
AddHere ==
  \E p \in Ptrs, delay \in Delays, interval \in {0, MaxDelay} :
    /\ NewTimer(p, delay, interval)
    /\ addTimerInLoop(p, heap'[p])
    /\ ids' = ids \cup {<<p, numCreated'>>}
    /\ UNCHANGED <<cancelingTimers_, cancelled>>

CancelHere ==
  \E id \in ids : cancelInLoop(id) /\ UNCHANGED <<numCreated, timerfd, ids>>

Callback ==
  \/ AddHere
  \/ CancelHere
  \/ UNCHANGED <<heap, numCreated, sets, timerfd, ids, cancelingTimers_, cancelled>>

Poll ==
  /\ ~callingExpiredTimers_
  /\ readable /\ ~active
  /\ active' = TRUE
  /\ UNCHANGED <<heap, numCreated, sets, cancelingTimers_, timerfd, batch, shared, ids,
                 cancelled, ran>>

(* Some other channel's callback. *)
OtherCallback ==
  /\ ~callingExpiredTimers_
  /\ AddHere \/ CancelHere
  /\ UNCHANGED <<active, batch, shared, ran>>

RunPending ==
  /\ ~callingExpiredTimers_
  /\ pending # <<>>
  /\ pending' = Tail(pending)
  /\ LET f == Head(pending) IN
       \/ /\ f.op = "add"
          /\ addTimerInLoop(f.timer, heap[f.timer])
          /\ UNCHANGED <<heap, cancelingTimers_, cancelled>>
       \/ f.op = "cancel" /\ cancelInLoop(f.id) /\ UNCHANGED timerfd
  /\ UNCHANGED <<numCreated, active, batch, calls, ids, ran>>

(* getExpired: every entry up to and including now. *)
Due == {e \in timers_ : e[1] = 0}

(* handleRead up to the first callback. *)
HandleRead ==
  /\ active /\ ~callingExpiredTimers_
  /\ active' = FALSE
  /\ readable' = FALSE
  /\ timers_' = timers_ \ Due
  /\ activeTimers_' = activeTimers_ \ {Key(e[2]) : e \in Due}
  /\ expired' = {e[2] : e \in Due}
  /\ called' = {}
  /\ callingExpiredTimers_' = TRUE
  /\ cancelingTimers_' = {}
  /\ since' = 0
  /\ UNCHANGED <<heap, numCreated, armed, shared, ids, cancelled, ran>>

(* The callbacks, each once.  Due timers are called in the order of their  *)
(* expirations; relative time keeps no order among them, so any is next.   *)
RunTimer ==
  \E p \in expired :
    /\ expired' = expired \ {p}
    /\ called' = called \cup {p}
    /\ ran' = ran \cup {heap[p].seq}
    /\ Callback
    /\ UNCHANGED <<active, callingExpiredTimers_, since, shared>>

(* reset: repeating timers that were not cancelled start again, from the   *)
(* now of handleRead; the others are deleted.                              *)
Restarts_EvenIfCancelled(p) == heap[p].interval > 0

Restarts(p) == heap[p].interval > 0 /\ Key(p) \notin cancelingTimers_

Restarted(p) ==
  LET i == heap[p].interval
  IN [heap[p] EXCEPT !.expiration = IF i > since THEN i - since ELSE 0]

AfterReset_Leaks(p) == IF Restarts(p) THEN Restarted(p) ELSE heap[p]

AfterReset(p) == IF Restarts(p) THEN Restarted(p) ELSE NoTimer

Reset ==
  LET kept == {p \in called : Restarts(p)}
  IN /\ callingExpiredTimers_ /\ expired = {}
     /\ heap' = [p \in Ptrs |-> IF p \in called THEN AfterReset(p) ELSE heap[p]]
     /\ timers_' = timers_ \cup {<<Restarted(p).expiration, p>> : p \in kept}
     /\ activeTimers_' = activeTimers_ \cup {Key(p) : p \in kept}
     /\ IF timers_' # {} THEN resetTimerfd(Earliest(timers_')) ELSE UNCHANGED timerfd
     /\ callingExpiredTimers_' = FALSE
     /\ called' = {}
     /\ since' = 0
     /\ UNCHANGED <<numCreated, cancelingTimers_, active, expired, shared, ids, cancelled, ran>>

-----------------------------------------------------------------------------
(* Other threads: addTimer hands the timer over, then reads its sequence.  *)
AddRemote(u) ==
  \E p \in Ptrs, delay \in Delays, interval \in {0, MaxDelay} :
    /\ calls[u] = {}
    /\ NewTimer(p, delay, interval)
    /\ pending' = Append(pending, [op |-> "add", timer |-> p])
    /\ calls' = [calls EXCEPT ![u] = {p}]
    /\ UNCHANGED <<sets, cancelingTimers_, timerfd, active, batch, ids, cancelled, ran>>

(* When the timer has been deleted by then, what is read is whatever       *)
(* sequence number was or is now at that address.                          *)
AddReturns(u) ==
  \E p \in calls[u] : \E seq \in Seqs :
    /\ IF Live(p) THEN seq = heap[p].seq ELSE seq <= numCreated
    /\ ids' = ids \cup {<<p, seq>>}
    /\ calls' = [calls EXCEPT ![u] = {}]
    /\ UNCHANGED <<heap, numCreated, sets, cancelingTimers_, timerfd, active, batch, pending,
                   cancelled, ran>>

CancelRemote(u) ==
  \E id \in ids :
    /\ calls[u] = {}
    /\ Len(pending) < MaxPending
    /\ pending' = Append(pending, [op |-> "cancel", id |-> id])
    /\ UNCHANGED <<heap, numCreated, sets, cancelingTimers_, timerfd, active, batch, calls, ids,
                   cancelled, ran>>

-----------------------------------------------------------------------------
(* A tick passes.  The timerfd fires once: it_interval is 0. *)
Tick ==
  /\ heap' = [p \in Ptrs |-> [heap[p] EXCEPT !.expiration = Nearer(@)]]
  /\ timers_' = {<<Nearer(e[1]), e[2]>> : e \in timers_}
  /\ armed' = Nearer(armed)
  /\ readable' = (readable \/ armed = 1)
  /\ since' = IF callingExpiredTimers_ /\ since < MaxDelay THEN since + 1 ELSE since
  /\ UNCHANGED <<numCreated, activeTimers_, cancelingTimers_, active, callingExpiredTimers_,
                 expired, called, shared, ids, cancelled, ran>>

Init ==
  /\ heap = [p \in Ptrs |-> NoTimer]
  /\ numCreated = 0
  /\ timers_ = {} /\ activeTimers_ = {} /\ cancelingTimers_ = {}
  /\ callingExpiredTimers_ = FALSE
  /\ armed = 0 /\ readable = FALSE /\ active = FALSE
  /\ expired = {} /\ called = {} /\ since = 0
  /\ pending = <<>>
  /\ calls = [u \in Users |-> {}]
  /\ ids = {}
  /\ cancelled = {} /\ ran = {}

LoopStep == Poll \/ RunPending \/ HandleRead \/ RunTimer \/ Reset

Next ==
  \/ LoopStep
  \/ OtherCallback
  \/ \E u \in Users : AddRemote(u) \/ AddReturns(u) \/ CancelRemote(u)
  \/ Tick

Spec == Init /\ [][Next]_vars

(* Time passes and the loop runs: what it has to call is called, and what  *)
(* is queued is run, no matter how often new events come first.            *)
Fairness ==
  /\ WF_vars(Tick)
  /\ WF_vars(Poll) /\ WF_vars(HandleRead) /\ WF_vars(RunTimer) /\ WF_vars(Reset)
  /\ SF_vars(RunPending)

FairSpec == Spec /\ Fairness

-----------------------------------------------------------------------------
InTimers == {e[2] : e \in timers_}
Queued   == {f.timer : f \in {g \in Range(pending) : g.op = "add"}}
InBatch  == expired \cup called

(* timers_ and activeTimers_ are two indexes of the same timers: insert,   *)
(* cancelInLoop, getExpired and reset keep them so, under the key that     *)
(* each Timer has now.                                                     *)
IndexesAgree ==
  /\ timers_ = {<<heap[p].expiration, p>> : p \in InTimers}
  /\ activeTimers_ = {Key(p) : p \in InTimers}
  /\ \A p \in InTimers : Live(p)

(* Every Timer has one owner, which will delete it: the two sets, the      *)
(* batch handleRead is at, or an addTimerInLoop functor.  So none is       *)
(* leaked, deleted twice or called after delete; and the two sets agree on *)
(* what they own.                                                          *)
OneOwner ==
  /\ IndexesAgree
  /\ {p \in Ptrs : Live(p)} = InTimers \cup InBatch \cup Queued
  /\ InTimers \cap InBatch = {} /\ InTimers \cap Queued = {} /\ InBatch \cap Queued = {}
  /\ expired \cap called = {}

(* The timerfd goes off in time for the earliest timer: outside handleRead *)
(* a timer in the queue means that the timerfd has fired or will, no later *)
(* than that timer or the 100us minimum.                                   *)
ArmedForEarliest ==
  ~callingExpiredTimers_ /\ timers_ # {} =>
    readable \/ active \/ armed \in 1..ArmFor(Earliest(timers_))

(* A cancelled timer does not come back: once cancelInLoop has seen the id *)
(* of a timer that was added, no later handleRead calls it.  It may be     *)
(* cancelled while the batch it is in is being called (which still calls   *)
(* it), or by its own callback.                                            *)
CancelledStaysOut ==
  ~callingExpiredTimers_ => \A k \in activeTimers_ : k[2] \notin cancelled

(* Every timer is called or cancelled in the end: no order of additions,   *)
(* cancellations, re-arming and reads of the timerfd loses one.            *)
EveryTimerFires ==
  \A s \in Seqs : numCreated >= s ~> s \in ran \cup cancelled
=============================================================================
