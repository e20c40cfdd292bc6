--------------------------- MODULE EventLoopThread ---------------------------
(***************************************************************************)
(* src/src/net/EventLoopThread.cc with src/src/base/Thread.cc: the life of *)
(* an EventLoop that is a local variable of its thread's function.         *)
(*                                                                         *)
(* The owner (an EventLoopThreadPool, in its own thread) starts the        *)
(* thread, waits on a semaphore until it runs and on a condition variable  *)
(* until it has published its loop, and in the end destroys the            *)
(* EventLoopThread: quit() and join().  In between the loop is the one of  *)
(* EventLoop.tla, and every step of it is a step of that module.           *)
(*                                                                         *)
(* Threads that use the loop got its address from startLoop() or from the  *)
(* init callback.  Using it is up to them: they call a loop that exists,   *)
(* and are done with it when the EventLoopThread is destroyed.             *)
(***************************************************************************)
EXTENDS EventLoop

CONSTANTS
  Owner,   \* the caller that owns the EventLoopThread
  Null     \* nullptr

ASSUME OwnerAssumption == Owner \in Callers /\ Null # Loop

VARIABLES
  loop_,     \* the published address
  sem,       \* the semaphore of Thread::start
  at,        \* where the owner is
  tpc,       \* where the thread is in threadFunc
  handedOut, \* callback_ has given its argument to other threads
  otherQuit  \* the quit_ in force was set by someone else than ~EventLoopThread

threadVars == <<loop_, sem, at, tpc, handedOut, otherQuit>>
allVars    == <<vars, threadVars>>

(* EventLoop loop; of threadFunc has been constructed and not destroyed. *)
LoopExists == tpc \in {"callback", "loop", "unlock", "destroy"}

-----------------------------------------------------------------------------
(* The owner: startLoop.                                                   *)

OwnerGoes(from, to) == at = from /\ at' = to

(* Thread::start up to sem_wait. *)
StartThread ==
  /\ OwnerGoes("idle", "sem")
  /\ tpc' = "created"
  /\ UNCHANGED <<vars, loop_, sem, handedOut, otherQuit>>

SemWait ==
  /\ OwnerGoes("sem", "lock")
  /\ sem > 0
  /\ sem' = sem - 1
  /\ UNCHANGED <<vars, loop_, tpc, handedOut, otherQuit>>

(* while (loop_ == nullptr) cond_.wait(lock), one turn with mutex_ held. *)
AfterTest_Untested == at' = "ready"

AfterTest == at' = IF loop_ = Null THEN "waiting" ELSE "ready"

TestLoop ==
  /\ at = "lock"
  /\ tpc # "unlock"
  /\ AfterTest
  /\ UNCHANGED <<vars, loop_, sem, tpc, handedOut, otherQuit>>

SpuriousWakeup ==
  /\ OwnerGoes("waiting", "lock")
  /\ UNCHANGED <<vars, loop_, sem, tpc, handedOut, otherQuit>>

-----------------------------------------------------------------------------
(* The owner: ~EventLoopThread.                                            *)

(* The test of loop_, without mutex_. *)
BeginDestroy ==
  /\ at \in {"idle", "ready"}
  /\ owesWakeup \cap Callers = {}
  /\ at' = IF loop_ # Null THEN "quit" ELSE "detach"
  /\ UNCHANGED <<vars, loop_, sem, tpc, handedOut, otherQuit>>

(* loop_->quit(); its wakeup() is the owner's Wakeup. *)
QuitLoop ==
  /\ OwnerGoes("quit", "join")
  /\ Quit(Owner)
  /\ UNCHANGED <<loop_, sem, tpc, handedOut, otherQuit>>

Joinable_Running == TRUE

Joinable == tpc = "exited"

Join ==
  /\ OwnerGoes("join", "gone")
  /\ Owner \notin owesWakeup
  /\ Joinable
  /\ UNCHANGED <<vars, loop_, sem, tpc, handedOut, otherQuit>>

(* Not joined: ~Thread detaches the thread, if there is one. *)
Detach ==
  /\ OwnerGoes("detach", "gone")
  /\ UNCHANGED <<vars, loop_, sem, tpc, handedOut, otherQuit>>

-----------------------------------------------------------------------------
(* The thread.                                                             *)

ThreadGoes(from, to) == tpc = from /\ tpc' = to

(* The lambda of Thread::start: tid_ = CurrentThread::tid(); sem_post. *)
PostSem ==
  /\ ThreadGoes("created", "construct")
  /\ sem' = sem + 1
  /\ UNCHANGED <<vars, loop_, at, handedOut, otherQuit>>

(* EventLoop loop; then callback_ runs, if there is one. *)
ConstructLoop ==
  /\ ThreadGoes("construct", "callback")
  /\ UNCHANGED <<vars, loop_, sem, at, handedOut, otherQuit>>

HandOut ==
  /\ tpc = "callback"
  /\ handedOut' = TRUE
  /\ UNCHANGED <<vars, loop_, sem, at, tpc, otherQuit>>

(* loop_ = &loop; cond_.notify_one() *)
NotifyOne_Dropped == at' = at

NotifyOne == at' = IF at = "waiting" THEN "lock" ELSE at

Publish ==
  /\ ThreadGoes("callback", "loop")
  /\ Loop \notin owesWakeup
  /\ loop_' = Loop
  /\ NotifyOne
  /\ UNCHANGED <<vars, sem, handedOut, otherQuit>>

(* A step of loop.loop(). *)
RunLoop(step) ==
  /\ tpc = "loop"
  /\ step
  /\ otherQuit' = (otherQuit /\ pc # "start")
  /\ UNCHANGED <<loop_, sem, at, tpc, handedOut>>

(* loop() has returned: lock, loop_ = nullptr. *)
ClearLoop ==
  /\ ThreadGoes("loop", "unlock")
  /\ pc = "done"
  /\ loop_' = Null
  /\ UNCHANGED <<vars, sem, at, handedOut, otherQuit>>

Unlock ==
  /\ ThreadGoes("unlock", "destroy")
  /\ UNCHANGED <<vars, loop_, sem, at, handedOut, otherQuit>>

(* ~EventLoop, and the end of the thread. *)
DestroyLoop ==
  /\ ThreadGoes("destroy", "exited")
  /\ UNCHANGED <<vars, loop_, sem, at, handedOut, otherQuit>>

-----------------------------------------------------------------------------
(* Calls of the threads that use the loop; the loop's own thread calls     *)
(* from callback_ and from the callbacks of loop().                        *)
MayUse(t) ==
  IF t = Loop THEN tpc = "callback" \/ current # Idle
              ELSE LoopExists /\ at \in {"ready"} \union IF handedOut THEN {"sem", "lock", "waiting"} ELSE {}

UserQuit(t) ==
  /\ MayUse(t)
  /\ Quit(t)
  /\ otherQuit' = TRUE
  /\ UNCHANGED <<loop_, sem, at, tpc, handedOut>>

UserQueues(t, f) ==
  /\ MayUse(t)
  /\ QueueInLoop(t, f) \/ (t = Loop /\ RunInLoopHere(f))
  /\ UNCHANGED threadVars

(* wakeup(): write() to the eventfd, also when ~EventLoop has closed it. *)
FinishCall(t) == Wakeup(t) /\ UNCHANGED threadVars

-----------------------------------------------------------------------------
ThreadInit ==
  /\ Init
  /\ loop_ = Null
  /\ sem = 0
  /\ at = "idle"
  /\ tpc = "none"
  /\ handedOut = FALSE
  /\ otherQuit = FALSE

StartLoopStep == SemWait \/ TestLoop
DestroyStep   == QuitLoop \/ Join \/ Detach
ThreadStep    == PostSem \/ ConstructLoop \/ Publish \/ RunLoop(LoopStep) \/ ClearLoop \/ Unlock \/ DestroyLoop

ThreadNext ==
  \/ StartThread \/ StartLoopStep \/ SpuriousWakeup
  \/ BeginDestroy \/ DestroyStep
  \/ ThreadStep \/ HandOut
  \/ \E io \in SUBSET IoChannels : RunLoop(Poll(io))
  \/ \E t \in Threads : UserQuit(t) \/ FinishCall(t) \/ \E f \in Functors : UserQueues(t, f)

ThreadSpec == ThreadInit /\ [][ThreadNext]_allVars

(* Both threads are scheduled; epoll_wait returns when the eventfd is      *)
(* readable.  Nothing is assumed of spurious wakeups, of the poll timeout, *)
(* or of the owner wanting to start or destroy anything.                   *)
ThreadFairness ==
  /\ WF_allVars(StartLoopStep)
  /\ WF_allVars(DestroyStep)
  /\ WF_allVars(ThreadStep)
  /\ WF_allVars(RunLoop(WakeupPoll))
  /\ \A t \in Threads : WF_allVars(FinishCall(t))

FairThreadSpec == ThreadSpec /\ ThreadFairness

-----------------------------------------------------------------------------
(* The loop startLoop() returned exists, and is the published one, until   *)
(* ~EventLoopThread has told it to quit, unless somebody else has: no      *)
(* caller of startLoop() gets a null or dead loop, whatever wakes it up    *)
(* from cond_.wait.                                                        *)
LoopOutlivesUse ==
  at \in {"ready", "quit"} /\ ~otherQuit => LoopExists /\ loop_ = Loop

(* When the EventLoopThread is gone, so is its thread, which uses mutex_   *)
(* and loop_ to the end: it was joined.  The exception is a loop another   *)
(* thread told to quit: the destructor's test of loop_, made without       *)
(* mutex_, can see the nullptr of threadFunc's last lines and let the      *)
(* thread go while it still holds mutex_.                                  *)
GoneAfterThread ==
  at = "gone" => tpc \in {"none", "exited"} \union IF otherQuit THEN {"unlock", "destroy"} ELSE {}

(* startLoop() returns: the notify of threadFunc is not lost, whether it   *)
(* comes before, during or after the owner's test.  Only a loop that is    *)
(* told to quit before the owner has looked can leave it waiting.          *)
StartLoopReturns == at = "sem" ~> at = "ready" \/ otherQuit

(* ~EventLoopThread ends once its quit() has reached a running loop.  One  *)
(* that comes between loop_ = &loop and the quit_ = false of loop() is     *)
(* overwritten, and the join waits for ever.                               *)
DestructorEnds == at = "join" /\ quit_ /\ pc # "start" ~> at = "gone"

(* A functor that the init callback queues has no wakeup of its own        *)
(* (queueInLoop in the loop's own thread, before loop()), but the poll     *)
(* timeout gets it run: it waits kPollTimeMs at most.                      *)
EarlyRunByTimeout ==
  WF_allVars(RunLoop(Poll({}))) =>
    \A f \in Functors : f \in Range(pendingFunctors_) ~> f \in Range(executed) \/ pc = "done"
=============================================================================
