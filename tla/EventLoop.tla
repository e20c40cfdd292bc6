------------------------------ MODULE EventLoop ------------------------------
(***************************************************************************)
(* src/src/net/EventLoop.{h,cc}: one reactor.  Its own thread (Loop) runs  *)
(* loop(): poll, handle the active channels, run the queued functors.      *)
(* Other threads (Callers) hand it work with runInLoop/queueInLoop and     *)
(* stop it with quit(); an eventfd wakes it out of epoll_wait.             *)
(*                                                                         *)
(* A step is what one thread does between two points where another thread  *)
(* can see or change the shared state: a critical section of mutex_, an    *)
(* access to an atomic, or a system call on the eventfd.  Channel handlers *)
(* and functors are user code: while one runs, the loop thread may call    *)
(* the public operations any number of times before it returns.            *)
(***************************************************************************)
EXTENDS Naturals, Sequences, Functions

CONSTANTS
  Loop,          \* the thread that owns the EventLoop
  Callers,       \* the other threads that use it
  Functors,      \* one element for each callback handed to the loop
  IoChannels,    \* the channels registered besides wakeupChannel_
  WakeupChannel, \* wakeupChannel_
  EventfdMax,    \* largest eventfd counter (2^64 - 2 in the kernel)
  Idle           \* "no callback is running"

ASSUME LoopAssumption ==
  /\ Loop \notin Callers
  /\ WakeupChannel \notin IoChannels
  /\ Idle \notin IoChannels \cup Functors
  /\ EventfdMax \in Nat \ {0}

Threads == Callers \cup {Loop}

VARIABLES
  pc,                      \* where the loop thread is
  looping_, quit_,
  wakeupFd_,               \* the counter of the eventfd
  activeChannels_,         \* active channels not handled yet
  pendingFunctors_,
  callingPendingFunctors_,
  functors,                \* doPendingFunctors' local vector, what is left of it
  current,                 \* the user callback the loop thread is running
  owesWakeup,              \* threads between a push (or quit_ = true) and wakeup()
  posted,                  \* functors handed over so far
  executed,                \* functors run by doPendingFunctors, in order
  inlined,                 \* functors runInLoop ran on the spot
  early                    \* functors the loop thread queued before loop()

loopVars  == <<pc, looping_, activeChannels_, callingPendingFunctors_, functors, current, executed>>
queueVars == <<pendingFunctors_, posted, inlined, early>>
wakeVars  == <<quit_, wakeupFd_, owesWakeup>>
vars      == <<loopVars, queueVars, wakeVars>>

-----------------------------------------------------------------------------
(* The operations any thread may call.                                     *)

(* A thread can start a call: a caller thread at any time, the loop thread *)
(* from user code, that is before loop() or inside a callback.             *)
CanCall(t) ==
  /\ t \notin owesWakeup
  /\ t = Loop => pc = "start" \/ current # Idle

(* queueInLoop's test: !isInLoopThread() || callingPendingFunctors_ *)
NeedsWakeup_OnlyRemote(t) == t # Loop

NeedsWakeup(t) == t # Loop \/ callingPendingFunctors_

(* queueInLoop: the push under mutex_; the wakeup() it may owe follows. *)
QueueInLoop(t, f) ==
  /\ CanCall(t)
  /\ f \notin posted
  /\ posted' = posted \cup {f}
  /\ pendingFunctors_' = Append(pendingFunctors_, f)
  /\ owesWakeup' = IF NeedsWakeup(t) THEN owesWakeup \cup {t} ELSE owesWakeup
  /\ early' = IF t = Loop /\ pc = "start" THEN early \cup {f} ELSE early
  /\ UNCHANGED <<loopVars, inlined, quit_, wakeupFd_>>

(* runInLoop in the loop thread: cb() on the spot.  In any other thread it *)
(* is QueueInLoop.                                                         *)
RunInLoopHere(f) ==
  /\ CanCall(Loop)
  /\ f \notin posted
  /\ posted' = posted \cup {f}
  /\ inlined' = inlined \cup {f}
  /\ UNCHANGED <<loopVars, wakeVars, pendingFunctors_, early>>

(* quit: the store, and from another thread a wakeup() after it. *)
QuitNeedsWakeup_Never(t) == FALSE

QuitNeedsWakeup(t) == t # Loop

Quit(t) ==
  /\ CanCall(t)
  /\ quit_' = TRUE
  /\ owesWakeup' = IF QuitNeedsWakeup(t) THEN owesWakeup \cup {t} ELSE owesWakeup
  /\ UNCHANGED <<loopVars, queueVars, wakeupFd_>>

(* write(wakeupFd_, 1).  The fd is non-blocking: at the maximum the write  *)
(* fails and the counter stays, which wakeup() only logs.                  *)
WriteOne(n) == IF n < EventfdMax THEN n + 1 ELSE n

Wakeup(t) ==
  /\ t \in owesWakeup
  /\ owesWakeup' = owesWakeup \ {t}
  /\ wakeupFd_' = WriteOne(wakeupFd_)
  /\ UNCHANGED <<loopVars, queueVars, quit_>>

-----------------------------------------------------------------------------
(* loop(), run by the loop thread.                                         *)

LoopAt(label) == pc = label /\ Loop \notin owesWakeup

(* looping_ = true; quit_ = false *)
EnterLoop ==
  /\ LoopAt("start")
  /\ pc' = "check"
  /\ looping_' = TRUE
  /\ quit_' = FALSE
  /\ UNCHANGED <<queueVars, wakeupFd_, owesWakeup, activeChannels_,
                 callingPendingFunctors_, functors, current, executed>>

(* while (!quit_) { activeChannels_.clear(); ... *)
ContinueLoop ==
  /\ LoopAt("check")
  /\ ~quit_
  /\ pc' = "poll"
  /\ activeChannels_' = {}
  /\ UNCHANGED <<queueVars, wakeVars, looping_, callingPendingFunctors_,
                 functors, current, executed>>

ExitLoop ==
  /\ LoopAt("check")
  /\ quit_
  /\ pc' = "done"
  /\ looping_' = FALSE
  /\ UNCHANGED <<queueVars, wakeVars, activeChannels_, callingPendingFunctors_,
                 functors, current, executed>>

(* poller_->poll: the channels in io have events.  epoll is level          *)
(* triggered, so wakeupChannel_ is active whenever the counter is not 0;   *)
(* nothing at all is the kPollTimeMs timeout or EINTR.                     *)
Poll(io) ==
  /\ LoopAt("poll")
  /\ activeChannels_' = io \cup (IF wakeupFd_ > 0 THEN {WakeupChannel} ELSE {})
  /\ pc' = "handle"
  /\ UNCHANGED <<queueVars, wakeVars, looping_, callingPendingFunctors_,
                 functors, current, executed>>

(* channel->handleEvent on wakeupChannel_ is EventLoop::handleRead, which  *)
(* reads the counter back to 0; on another channel it is user code.        *)
HandleEvent(ch) ==
  /\ LoopAt("handle")
  /\ current = Idle
  /\ ch \in activeChannels_
  /\ activeChannels_' = activeChannels_ \ {ch}
  /\ IF ch = WakeupChannel
       THEN wakeupFd_' = 0 /\ UNCHANGED current
       ELSE current' = ch /\ UNCHANGED wakeupFd_
  /\ UNCHANGED <<queueVars, pc, looping_, callingPendingFunctors_, functors,
                 executed, quit_, owesWakeup>>

CallbackReturns ==
  /\ current # Idle
  /\ Loop \notin owesWakeup
  /\ current' = Idle
  /\ UNCHANGED <<queueVars, wakeVars, pc, looping_, activeChannels_,
                 callingPendingFunctors_, functors, executed>>

(* doPendingFunctors up to the unlock: the swap empties the shared vector. *)
SwapFunctors_KeepShared ==
  /\ functors' = pendingFunctors_
  /\ UNCHANGED pendingFunctors_

SwapFunctors_Cleared ==
  /\ pendingFunctors_' = <<>>
  /\ UNCHANGED functors

SwapFunctors ==
  /\ functors' = pendingFunctors_
  /\ pendingFunctors_' = <<>>

BeginPendingFunctors ==
  /\ LoopAt("handle")
  /\ current = Idle
  /\ activeChannels_ = {}
  /\ pc' = "run"
  /\ callingPendingFunctors_' = TRUE
  /\ SwapFunctors
  /\ UNCHANGED <<wakeVars, posted, inlined, early, looping_, activeChannels_,
                 current, executed>>

RunFunctor ==
  /\ LoopAt("run")
  /\ current = Idle
  /\ functors # <<>>
  /\ current' = Head(functors)
  /\ functors' = Tail(functors)
  /\ executed' = Append(executed, Head(functors))
  /\ UNCHANGED <<queueVars, wakeVars, pc, looping_, activeChannels_,
                 callingPendingFunctors_>>

EndPendingFunctors ==
  /\ LoopAt("run")
  /\ current = Idle
  /\ functors = <<>>
  /\ pc' = "check"
  /\ callingPendingFunctors_' = FALSE
  /\ UNCHANGED <<queueVars, wakeVars, looping_, activeChannels_, functors,
                 current, executed>>

-----------------------------------------------------------------------------
Init ==
  /\ pc = "start"
  /\ looping_ = FALSE
  /\ quit_ = FALSE
  /\ wakeupFd_ = 0
  /\ activeChannels_ = {}
  /\ pendingFunctors_ = <<>>
  /\ callingPendingFunctors_ = FALSE
  /\ functors = <<>>
  /\ current = Idle
  /\ owesWakeup = {}
  /\ posted = {}
  /\ executed = <<>>
  /\ inlined = {}
  /\ early = {}

(* What the loop thread does on its own: it never has to wait for these.   *)
LoopStep ==
  \/ EnterLoop
  \/ ContinueLoop
  \/ ExitLoop
  \/ \E ch \in activeChannels_ : HandleEvent(ch)
  \/ CallbackReturns
  \/ BeginPendingFunctors
  \/ RunFunctor
  \/ EndPendingFunctors

(* epoll_wait returns because the eventfd is readable. *)
WakeupPoll == wakeupFd_ > 0 /\ \E io \in SUBSET IoChannels : Poll(io)

Call(t) ==
  \/ \E f \in Functors : QueueInLoop(t, f)
  \/ Quit(t)
  \/ Wakeup(t)

Next ==
  \/ LoopStep
  \/ \E io \in SUBSET IoChannels : Poll(io)
  \/ \E t \in Threads : Call(t)
  \/ \E f \in Functors : RunInLoopHere(f)

Spec == Init /\ [][Next]_vars

(* The loop thread is scheduled and its callbacks return; a thread that    *)
(* has entered wakeup() finishes the write.  Nothing is assumed of I/O     *)
(* events, of further calls, or of the poll timeout: what is promised      *)
(* below must not have to wait kPollTimeMs.                                *)
Fairness ==
  /\ WF_vars(LoopStep)
  /\ WF_vars(WakeupPoll)
  /\ \A t \in Threads : WF_vars(Wakeup(t))

FairSpec == Spec /\ Fairness

-----------------------------------------------------------------------------
(* The type of the state. *)
TypeOK ==
  /\ pc \in {"start", "check", "poll", "handle", "run", "done"}
  /\ looping_ \in BOOLEAN
  /\ quit_ \in BOOLEAN
  /\ wakeupFd_ \in 0..EventfdMax
  /\ activeChannels_ \subseteq IoChannels \cup {WakeupChannel}
  /\ pendingFunctors_ \in Seq(Functors)
  /\ callingPendingFunctors_ \in BOOLEAN
  /\ functors \in Seq(Functors)
  /\ current \in IoChannels \cup Functors \cup {Idle}
  /\ owesWakeup \subseteq Threads
  /\ posted \subseteq Functors
  /\ executed \in Seq(Functors)
  /\ inlined \subseteq Functors
  /\ early \subseteq Functors

(* The loop can be woken: the eventfd is readable or a thread is about to  *)
(* write it.                                                               *)
WakeupComing == wakeupFd_ > 0 \/ owesWakeup # {}

(* No lost wakeup (queueInLoop's wakeup() test against the read in         *)
(* handleRead and the swap in doPendingFunctors): the loop thread is never *)
(* blocked in epoll_wait on a queued functor that nobody will wake it for. *)
(* A functor the loop thread queued before loop() is the exception: no     *)
(* wakeup() is made for it.                                                *)
NoLostWakeup ==
  pc = "poll" /\ ~(Range(pendingFunctors_) \subseteq early) => WakeupComing

(* quit() from another thread interrupts epoll_wait: the loop thread never *)
(* sleeps on a quit_ that was set behind its back.                         *)
QuitInterruptsPoll == pc = "poll" /\ quit_ => WakeupComing

(* The functors handed to queueInLoop, as they leave: those already run,   *)
(* then the rest of the batch being run, then those still queued.          *)
Line == executed \o (functors \o pendingFunctors_)

(* Every functor handed over is in exactly one place and has run at most   *)
(* once, whatever swaps and pushes are interleaved: it was run in place,   *)
(* or it is still queued, or it is in the batch being run, or it was run.  *)
ExactlyOnce ==
  /\ Range(Line) \cap inlined = {}
  /\ Range(Line) \cup inlined = posted
  /\ IsInjective(Line)

(* A functor queued while or before the loop runs is run without waiting   *)
(* for the poll timeout, unless the loop is told to quit first.            *)
PromptExecution ==
  \A f \in Functors :
    f \in Range(pendingFunctors_) \ early ~> f \in Range(executed) \/ pc = "done"

(* NoLostWakeup and QuitInterruptsPoll are consequences of this, which     *)
(* every step preserves: outside the part of an iteration that still has   *)
(* doPendingFunctors ahead of it, a queued functor has its wakeup.  The    *)
(* flag callingPendingFunctors_ tells exactly that part apart.             *)
WakeupInv ==
  /\ callingPendingFunctors_ <=> pc = "run"
  /\ current # Idle => pc \in {"handle", "run"}
  /\ pc \in {"start", "check", "poll", "run"} /\ ~(Range(pendingFunctors_) \subseteq early)
       => WakeupComing
  /\ pc = "poll" /\ quit_ => WakeupComing

(* What the callers rely on: the loop is a FIFO queue of tasks.  The batch *)
(* doPendingFunctors took is the front of that queue, pendingFunctors_ its *)
(* back.                                                                   *)
Queue == INSTANCE TaskQueue WITH
  Tasks  <- Functors,
  queue  <- functors \o pendingFunctors_,
  ran    <- executed,
  spot   <- inlined,
  closed <- pc = "done"

(* Every behaviour of the loop is a behaviour of that queue: functors are  *)
(* run one at a time in the order of their pushes, none is invented, none  *)
(* is run after loop() has returned.                                       *)
RunsInOrder == Queue!Spec

(* EventLoop.cc:96, of quit(): it ends the event loop, called in its own   *)
(* thread or in another one.                                               *)
QuitAlwaysStopsLoop == quit_ ~> pc = "done"
=============================================================================
