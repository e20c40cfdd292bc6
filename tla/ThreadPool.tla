----------------------------- MODULE ThreadPool ------------------------------
(***************************************************************************)
(* src/src/base/ThreadPool.cc: a bounded queue of tasks under mutex_, with *)
(* the condition variables notEmpty_ and notFull_.                         *)
(*                                                                         *)
(* A step is one critical section, or one access outside it.  at[t] is     *)
(* where thread t is:                                                      *)
(*   a worker    test   at while(running_)                                 *)
(*               take   in take(), about to get mutex_                     *)
(*               asleep in notEmpty_.wait                                  *)
(*               task   running a task                                     *)
(*               gone   its thread function has returned                   *)
(*   any thread  idle   outside the pool (a worker: not created yet)       *)
(*               push   in run(), about to get mutex_                      *)
(*               blocked in notFull_.wait                                  *)
(***************************************************************************)
EXTENDS Naturals, Sequences, Functions

CONSTANTS
  Workers,        \* threads_
  Callers,        \* threads of the user
  Tasks,
  Throwing,       \* the tasks that end with an exception
  QueueSizes      \* what setMaxQueueSize may be given

Threads == Workers \cup Callers

ASSUME PoolAssumption ==
  /\ Workers \cap Callers = {}
  /\ Throwing \subseteq Tasks
  /\ QueueSizes \subseteq Nat

VARIABLES
  maxQueueSize_,  \* 0 for no limit
  running_, queue_,
  unaware,   \* the workers that have not had mutex_ since stop() cleared running_
  at,
  offer,     \* the task each thread gives to run()
  job,       \* the task each worker has taken, as a set
  owner,     \* the thread that starts and stops the pool
  offered,   \* tasks given to run() so far
  refused,   \* tasks run() dropped because the pool had been stopped
  inlined,   \* tasks run() ran itself
  taken      \* tasks taken from the queue, in order

vars == <<maxQueueSize_, running_, queue_, unaware, at, offer, job, owner, offered, refused, inlined, taken>>

In(place) == {t \in Threads : at[t] = place}

(* notify_one on a condition variable: one of the waiting threads goes on  *)
(* to get mutex_ again, if there is one.                                   *)
NotifyOne(where, waiting, place) ==
  LET ws == {t \in Threads : where[t] = waiting}
  IN IF ws = {} THEN {where} ELSE {[where EXCEPT ![t] = place] : t \in ws}

-----------------------------------------------------------------------------
threadsEmpty == owner = "new" \/ Workers = {}

isFull == maxQueueSize_ > 0 /\ Len(queue_) >= maxQueueSize_

Returned(t) == IF t \in Workers THEN "task" ELSE "idle"

CanCall(t) ==
  \/ t \in Callers /\ at[t] = "idle"
  \/ t \in Workers /\ at[t] = "task"

(* run(), up to the lock: with no threads the task is run on the spot. *)
Run(t, k) ==
  /\ CanCall(t)
  /\ k \notin offered
  /\ offered' = offered \cup {k}
  /\ IF threadsEmpty
       THEN inlined' = inlined \cup {k} /\ UNCHANGED <<at, offer>>
       ELSE /\ at' = [at EXCEPT ![t] = "push"]
            /\ offer' = [offer EXCEPT ![t] = {k}]
            /\ UNCHANGED inlined
  /\ UNCHANGED <<maxQueueSize_, unaware, running_, queue_, job, owner, refused, taken>>

(* run(), with mutex_: one round of its while loop, or what follows it. *)
RunBlocks(t) ==
  /\ at[t] = "push"
  /\ isFull /\ running_
  /\ at' = [at EXCEPT ![t] = "blocked"]
  /\ unaware' = unaware \ {t}
  /\ UNCHANGED <<maxQueueSize_, running_, queue_, offer, job, owner, offered, refused, inlined, taken>>

RunRefuses(t) ==
  /\ at[t] = "push"
  /\ ~running_
  /\ at' = [at EXCEPT ![t] = Returned(t)]
  /\ refused' = refused \cup offer[t]
  /\ offer' = [offer EXCEPT ![t] = {}]
  /\ unaware' = unaware \ {t}
  /\ UNCHANGED <<maxQueueSize_, running_, queue_, job, owner, offered, inlined, taken>>

NotEmptySignal_None(where) == {where}

NotEmptySignal(where) == NotifyOne(where, "asleep", "take")

RunPushes(t) ==
  /\ at[t] = "push"
  /\ ~isFull /\ running_
  /\ \E k \in offer[t] : queue_' = Append(queue_, k)
  /\ at' \in NotEmptySignal([at EXCEPT ![t] = Returned(t)])
  /\ offer' = [offer EXCEPT ![t] = {}]
  /\ unaware' = unaware \ {t}
  /\ UNCHANGED <<maxQueueSize_, running_, job, owner, offered, refused, inlined, taken>>

-----------------------------------------------------------------------------
(* runInThread.  running_ is a plain bool read without mutex_: a worker    *)
(* that has not had mutex_ since stop() may still see the old value.       *)
TestRunning(w) ==
  /\ at[w] = "test"
  /\ \E seen \in {running_} \cup (IF w \in unaware THEN {TRUE} ELSE {}) :
       at' = [at EXCEPT ![w] = IF seen THEN "take" ELSE "gone"]
  /\ UNCHANGED <<maxQueueSize_, unaware, running_, queue_, offer, job, owner, offered, refused, inlined, taken>>

(* take(), with mutex_.  A worker that finds the pool stopped and the      *)
(* queue empty gets an empty task and tests running_ again.                *)
TakeWaits(w) ==
  /\ at[w] = "take"
  /\ queue_ = <<>>
  /\ at' = [at EXCEPT ![w] = IF running_ THEN "asleep" ELSE "test"]
  /\ unaware' = unaware \ {w}
  /\ UNCHANGED <<maxQueueSize_, running_, queue_, offer, job, owner, offered, refused, inlined, taken>>

NotFullSignal_None(where) == {where}

NotFullSignal(where) ==
  IF maxQueueSize_ > 0 THEN NotifyOne(where, "blocked", "push") ELSE {where}

Oldest_Newest == queue_[Len(queue_)]

Oldest == Head(queue_)

TakeTask(w) ==
  /\ at[w] = "take"
  /\ queue_ # <<>>
  /\ job' = [job EXCEPT ![w] = {Oldest}]
  /\ taken' = Append(taken, Oldest)
  /\ queue_' = Tail(queue_)
  /\ at' \in NotFullSignal([at EXCEPT ![w] = "task"])
  /\ unaware' = unaware \ {w}
  /\ UNCHANGED <<maxQueueSize_, running_, offer, owner, offered, refused, inlined>>

(* task() returns, or throws: then the catch outside the loop ends the     *)
(* worker.                                                                 *)
TaskEnds(w) ==
  /\ at[w] = "task"
  /\ at' = [at EXCEPT ![w] = IF job[w] \subseteq Throwing THEN "gone" ELSE "test"]
  /\ job' = [job EXCEPT ![w] = {}]
  /\ UNCHANGED <<maxQueueSize_, unaware, running_, queue_, offer, owner, offered, refused, inlined, taken>>

(* A condition variable may wake a thread for no reason. *)
SpuriousWakeup(t) ==
  /\ at[t] \in {"asleep", "blocked"}
  /\ at' = [at EXCEPT ![t] = IF @ = "asleep" THEN "take" ELSE "push"]
  /\ UNCHANGED <<maxQueueSize_, unaware, running_, queue_, offer, job, owner, offered, refused, inlined, taken>>

-----------------------------------------------------------------------------
Start ==
  /\ owner = "new"
  /\ owner' = "started"
  /\ running_' = TRUE
  /\ at' = [t \in Threads |-> IF t \in Workers THEN "test" ELSE at[t]]
  /\ UNCHANGED <<maxQueueSize_, unaware, queue_, offer, job, offered, refused, inlined, taken>>

(* stop(): the critical section, then the joins. *)
StopSignal_WorkersOnly == [t \in Threads |-> IF at[t] = "asleep" THEN "take" ELSE at[t]]

StopSignal ==
  [t \in Threads |->
     CASE at[t] = "asleep"  -> "take"
       [] at[t] = "blocked" -> "push"
       [] OTHER             -> at[t]]

Stop ==
  /\ owner = "started"
  /\ owner' = "joining"
  /\ running_' = FALSE
  /\ at' = StopSignal
  /\ unaware' = Workers
  /\ UNCHANGED <<maxQueueSize_, queue_, offer, job, offered, refused, inlined, taken>>

Join ==
  /\ owner = "joining"
  /\ Workers \subseteq In("gone")
  /\ owner' = "stopped"
  /\ UNCHANGED <<maxQueueSize_, unaware, running_, queue_, at, offer, job, offered, refused, inlined, taken>>

(* setMaxQueueSize is called before start(), if at all. *)
Init ==
  /\ maxQueueSize_ \in QueueSizes
  /\ running_ = FALSE
  /\ queue_ = <<>>
  /\ unaware = {}
  /\ at = [t \in Threads |-> "idle"]
  /\ offer = [t \in Threads |-> {}]
  /\ job = [w \in Workers |-> {}]
  /\ owner = "new"
  /\ offered = {} /\ refused = {} /\ inlined = {}
  /\ taken = <<>>

RunStep(t) == RunBlocks(t) \/ RunRefuses(t) \/ RunPushes(t)

WorkerStep(w) == TestRunning(w) \/ TakeWaits(w) \/ TakeTask(w) \/ TaskEnds(w)

Next ==
  \/ Start \/ Stop \/ Join
  \/ \E t \in Threads : RunStep(t) \/ SpuriousWakeup(t) \/ \E k \in Tasks : Run(t, k)
  \/ \E w \in Workers : WorkerStep(w)

Spec == Init /\ [][Next]_vars

(* Every thread is scheduled and gets mutex_ in the end, every task ends.  *)
(* No spurious wakeup is counted on.                                       *)
Fairness ==
  /\ WF_vars(Join)
  /\ \A t \in Threads : WF_vars(RunStep(t))
  /\ \A w \in Workers : WF_vars(TestRunning(w) \/ TakeWaits(w) \/ TakeTask(w))
  /\ \A w \in Workers : WF_vars(TaskEnds(w))

FairSpec == Spec /\ Fairness

-----------------------------------------------------------------------------
(* What users of the pool rely on: tasks leave in the order of run()'s     *)
(* pushes, each once and none after stop() has returned.                   *)
Queue == INSTANCE TaskQueue WITH
  queue  <- queue_,
  ran    <- taken,
  spot   <- inlined,
  closed <- owner = "stopped" /\ Workers # {}

TakenInOrder == Queue!Spec

(* stop() returns: every worker leaves runInThread, also one that is       *)
(* blocked in a run() of its own, whatever is left in the queue.           *)
StopReturns == owner = "joining" ~> owner = "stopped"

(* Tasks that throw have ended every worker, or those left wait in a run() *)
(* of their own for room that none of them will make.                      *)
AllStuck == Workers \subseteq In("gone") \cup In("blocked")

(* A task that run() has queued is taken, unless the pool is stopped or    *)
(* its workers are all stuck.                                              *)
QueuedIsTaken ==
  \A k \in Tasks : k \in Range(queue_) ~> k \in Range(taken) \/ ~running_ \/ AllStuck

(* run() returns to its caller, full queue or not, stopped or not, unless  *)
(* the workers are all stuck.                                              *)
RunReturns == \A c \in Callers : at[c] = "push" ~> at[c] = "idle" \/ AllStuck
=============================================================================
