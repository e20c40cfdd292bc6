--------------------------- MODULE EventLoopProofs ---------------------------
(* Theorems about EventLoop, for any set of threads, functors and channels *)
(* and any eventfd limit.                                                  *)
EXTENDS EventLoopThread, SequenceTheorems, TLAPS

(* What Append does to the elements of a sequence. *)
LEMMA RangeAppend ==
  ASSUME NEW S, NEW s \in Seq(S), NEW x \in S
  PROVE  Range(Append(s, x)) = Range(s) \cup {x}
<1>1. Append(s, x) \in Seq(S) /\ Len(Append(s, x)) = Len(s) + 1
  OBVIOUS
<1>2. \A i \in 1..Len(s) : Append(s, x)[i] = s[i]
  OBVIOUS
<1>3. Append(s, x)[Len(s) + 1] = x
  OBVIOUS
<1>4. DOMAIN s = 1..Len(s) /\ DOMAIN Append(s, x) = 1..(Len(s) + 1) /\ Len(s) \in Nat
  BY <1>1
<1>5. DOMAIN Append(s, x) = DOMAIN s \cup {Len(s) + 1}
  BY <1>4
<1> QED
  BY <1>2, <1>3, <1>4, <1>5 DEF Range

(* The type of the state is kept by every step of the loop thread and of   *)
(* the callers; in particular the eventfd counter stays within its limit.  *)
THEOREM TypeCorrect == Spec => []TypeOK
<1>1. Init => TypeOK
  <2>1. 0 \in 0..EventfdMax
    BY LoopAssumption
  <2>2. <<>> \in Seq(Functors)
    OBVIOUS
  <2> QED
    BY <2>1, <2>2 DEF Init, TypeOK
<1>2. TypeOK /\ [Next]_vars => TypeOK'
  <2> SUFFICES ASSUME TypeOK, [Next]_vars
               PROVE  TypeOK'
    OBVIOUS
  <2> USE LoopAssumption DEF TypeOK, Threads, loopVars, queueVars, wakeVars, LoopAt
  <2>1. ASSUME NEW t \in Threads, NEW f \in Functors, QueueInLoop(t, f)
        PROVE  TypeOK'
    BY <2>1 DEF QueueInLoop
  <2>2. ASSUME NEW f \in Functors, RunInLoopHere(f)
        PROVE  TypeOK'
    BY <2>2 DEF RunInLoopHere
  <2>3. ASSUME NEW t \in Threads, Quit(t)
        PROVE  TypeOK'
    BY <2>3 DEF Quit
  <2>4. ASSUME NEW t \in Threads, Wakeup(t)
        PROVE  TypeOK'
    BY <2>4 DEF Wakeup, WriteOne
  <2>5. CASE EnterLoop
    BY <2>5 DEF EnterLoop
  <2>6. CASE ContinueLoop
    BY <2>6 DEF ContinueLoop
  <2>7. CASE ExitLoop
    BY <2>7 DEF ExitLoop
  <2>8. ASSUME NEW io \in SUBSET IoChannels, Poll(io)
        PROVE  TypeOK'
    BY <2>8 DEF Poll
  <2>9. ASSUME NEW ch \in activeChannels_, HandleEvent(ch)
        PROVE  TypeOK'
    BY <2>9 DEF HandleEvent
  <2>10. CASE CallbackReturns
    BY <2>10 DEF CallbackReturns
  <2>11. CASE BeginPendingFunctors
    BY <2>11 DEF BeginPendingFunctors, SwapFunctors
  <2>12. CASE RunFunctor
    BY <2>12 DEF RunFunctor
  <2>13. CASE EndPendingFunctors
    BY <2>13 DEF EndPendingFunctors
  <2>14. CASE UNCHANGED vars
    BY <2>14 DEF vars
  <2> QED
    BY <2>1, <2>2, <2>3, <2>4, <2>5, <2>6, <2>7, <2>8, <2>9, <2>10, <2>11, <2>12,
       <2>13, <2>14 DEF Next, LoopStep, Call
<1> QED
  BY <1>1, <1>2, PTL DEF Spec

(* One step of any thread keeps WakeupInv. *)
LEMMA WakeupStep ==
  ASSUME TypeOK, WakeupInv, [Next]_vars
  PROVE  WakeupInv'
<1> USE LoopAssumption DEF TypeOK, WakeupInv, WakeupComing, Threads, LoopAt,
        loopVars, queueVars, wakeVars
<1>1. ASSUME NEW t \in Threads, NEW f \in Functors, QueueInLoop(t, f)
      PROVE  WakeupInv'
  <2>1. Range(pendingFunctors_') = Range(pendingFunctors_) \cup {f}
    BY <1>1, RangeAppend DEF QueueInLoop
  <2>2. CASE NeedsWakeup(t)
    BY <1>1, <2>2 DEF QueueInLoop
  <2>3. CASE ~NeedsWakeup(t)
    (* the loop thread, before loop() or in a channel handler *)
    <3>1. t = Loop /\ pc \in {"start", "handle"}
      BY <1>1, <2>3 DEF QueueInLoop, NeedsWakeup, CanCall
    <3>2. CASE pc = "start"
      BY <1>1, <2>1, <2>3, <3>1, <3>2 DEF QueueInLoop
    <3>3. CASE pc = "handle"
      BY <1>1, <3>3 DEF QueueInLoop
    <3> QED
      BY <3>1, <3>2, <3>3
  <2> QED
    BY <2>2, <2>3
<1>2. ASSUME NEW f \in Functors, RunInLoopHere(f)
      PROVE  WakeupInv'
  BY <1>2 DEF RunInLoopHere
<1>3. ASSUME NEW t \in Threads, Quit(t)
      PROVE  WakeupInv'
  BY <1>3 DEF Quit, QuitNeedsWakeup, CanCall
<1>4. ASSUME NEW t \in Threads, Wakeup(t)
      PROVE  WakeupInv'
  <2>1. wakeupFd_' > 0
    BY <1>4 DEF Wakeup, WriteOne
  <2> QED
    BY <1>4, <2>1 DEF Wakeup
<1>5. CASE EnterLoop
  BY <1>5 DEF EnterLoop
<1>6. CASE ContinueLoop
  BY <1>6 DEF ContinueLoop
<1>7. CASE ExitLoop
  BY <1>7 DEF ExitLoop
<1>8. ASSUME NEW io \in SUBSET IoChannels, Poll(io)
      PROVE  WakeupInv'
  BY <1>8 DEF Poll
<1>9. ASSUME NEW ch \in activeChannels_, HandleEvent(ch)
      PROVE  WakeupInv'
  BY <1>9 DEF HandleEvent
<1>10. CASE CallbackReturns
  BY <1>10 DEF CallbackReturns
<1>11. CASE BeginPendingFunctors
  (* the swap leaves nothing queued, so nothing needs a wakeup *)
  <2>1. Range(pendingFunctors_') = {}
    BY <1>11 DEF BeginPendingFunctors, SwapFunctors, Range
  <2> QED
    BY <1>11, <2>1 DEF BeginPendingFunctors
<1>12. CASE RunFunctor
  BY <1>12 DEF RunFunctor
<1>13. CASE EndPendingFunctors
  BY <1>13 DEF EndPendingFunctors
<1>14. CASE UNCHANGED vars
  BY <1>14 DEF vars
<1> QED
  BY <1>1, <1>2, <1>3, <1>4, <1>5, <1>6, <1>7, <1>8, <1>9, <1>10, <1>11, <1>12,
     <1>13, <1>14 DEF Next, LoopStep, Call

(* WakeupInv is an invariant: the flag, the eventfd and the queue agree at *)
(* every point of an iteration.                                            *)
THEOREM WakeupInvariant == Spec => []WakeupInv
<1>1. Init => WakeupInv
  BY DEF Init, WakeupInv, Range
<1>2. TypeOK /\ WakeupInv /\ [Next]_vars => WakeupInv'
  BY WakeupStep
<1> QED
  BY <1>1, <1>2, TypeCorrect, PTL DEF Spec

(* The loop thread never blocks in epoll_wait on a functor that another    *)
(* thread, a handler or a functor queued, without a wakeup made or owed.   *)
THEOREM NoWakeupIsLost == Spec => []NoLostWakeup
<1>1. WakeupInv => NoLostWakeup
  BY DEF WakeupInv, NoLostWakeup
<1> QED
  BY <1>1, WakeupInvariant, PTL

(* quit() from another thread always gets the loop thread out of           *)
(* epoll_wait.                                                             *)
THEOREM QuitIsSeen == Spec => []QuitInterruptsPoll
<1>1. WakeupInv => QuitInterruptsPoll
  BY DEF WakeupInv, QuitInterruptsPoll
<1> QED
  BY <1>1, WakeupInvariant, PTL

-----------------------------------------------------------------------------
(* The functors, in line.                                                  *)

(* Pushing onto the back of a concatenation. *)
LEMMA ConcatAppend ==
  ASSUME NEW S, NEW s \in Seq(S), NEW t \in Seq(S), NEW x \in S
  PROVE  s \o Append(t, x) = Append(s \o t, x)
<1>1. s \o t \in Seq(S) /\ <<x>> \in Seq(S)
  BY ConcatProperties
<1>2. Append(t, x) = t \o <<x>> /\ Append(s \o t, x) = (s \o t) \o <<x>>
  BY <1>1, AppendIsConcat
<1> QED
  BY <1>1, <1>2, ConcatAssociative

(* Moving the first element of one sequence to the back of the one before. *)
LEMMA MoveHeadConcat ==
  ASSUME NEW S, NEW r \in Seq(S), NEW s \in Seq(S), NEW t \in Seq(S), s # <<>>
  PROVE  Append(r, Head(s)) \o (Tail(s) \o t) = r \o (s \o t)
BY SMTT(30)

(* The first element of a concatenation whose first part is not empty. *)
LEMMA HeadTailConcat ==
  ASSUME NEW S, NEW s \in Seq(S), NEW t \in Seq(S), s # <<>>
  PROVE  /\ s \o t # <<>>
         /\ Head(s \o t) = Head(s)
         /\ Tail(s \o t) = Tail(s) \o t
OBVIOUS

(* What a concatenation contains. *)
LEMMA RangeConcat ==
  ASSUME NEW S, NEW s \in Seq(S), NEW t \in Seq(S)
  PROVE  Range(s \o t) = Range(s) \cup Range(t)
<1>1. ASSUME NEW i \in DOMAIN (s \o t)
      PROVE  (s \o t)[i] \in Range(s) \cup Range(t)
  <2>1. i \in 1..(Len(s) + Len(t)) /\ Len(s) \in Nat /\ Len(t) \in Nat
    BY ConcatProperties, LenProperties
  <2>2. CASE i <= Len(s)
    BY <2>1, <2>2, ConcatProperties, LenProperties DEF Range
  <2>3. CASE i > Len(s)
    <3>1. i - Len(s) \in DOMAIN t
      BY <2>1, <2>3, LenProperties
    <3>2. (s \o t)[i] = t[i - Len(s)]
      BY <2>1, <2>3, ConcatProperties
    <3> QED
      BY <3>1, <3>2 DEF Range
  <2> QED
    BY <2>1, <2>2, <2>3
<1>2. \A i \in DOMAIN s : i \in DOMAIN (s \o t) /\ (s \o t)[i] = s[i]
  BY ConcatProperties, LenProperties
<1>3. \A i \in DOMAIN t : i + Len(s) \in DOMAIN (s \o t) /\ (s \o t)[i + Len(s)] = t[i]
  BY ConcatProperties, LenProperties
<1>4. Range(s \o t) \subseteq Range(s) \cup Range(t)
  BY <1>1 DEF Range
<1>5. Range(s) \subseteq Range(s \o t)
  BY <1>2 DEF Range
<1>6. Range(t) \subseteq Range(s \o t)
  BY <1>3 DEF Range
<1> QED
  BY <1>4, <1>5, <1>6

(* A sequence without repetitions stays so when a new element is pushed. *)
LEMMA InjectiveAppend ==
  ASSUME NEW S, NEW s \in Seq(S), NEW x \in S, IsInjective(s), x \notin Range(s)
  PROVE  IsInjective(Append(s, x))
BY AppendProperties, LenProperties DEF IsInjective, Range

(* The part of the state ExactlyOnce and the order of the functors rest    *)
(* on: outside doPendingFunctors no batch is half run.                     *)
LineInv == ExactlyOnce /\ (functors # <<>> => pc = "run")

(* One step of any thread keeps LineInv: a push appends a new functor to   *)
(* Line, and nothing else changes Line at all.                             *)
LEMMA LineStep ==
  ASSUME TypeOK, LineInv, [Next]_vars
  PROVE  LineInv'
<1> USE DEF TypeOK, LineInv, ExactlyOnce, LoopAt, loopVars, queueVars, wakeVars
<1>0. functors \o pendingFunctors_ \in Seq(Functors) /\ Line \in Seq(Functors)
  BY ConcatProperties DEF Line
<1>1. ASSUME NEW t \in Threads, NEW f \in Functors, QueueInLoop(t, f)
      PROVE  LineInv'
  <2>0. Line' = executed \o (functors \o Append(pendingFunctors_, f))
    BY <1>1 DEF QueueInLoop, Line
  <2>1. Line' = Append(Line, f)
    <3>1. functors \o Append(pendingFunctors_, f) = Append(functors \o pendingFunctors_, f)
      BY ConcatAppend
    <3>2. executed \o Append(functors \o pendingFunctors_, f)
            = Append(executed \o (functors \o pendingFunctors_), f)
      BY <1>0, ConcatAppend
    <3> QED
      BY <2>0, <3>1, <3>2 DEF Line
  <2>2. Range(Line') = Range(Line) \cup {f}
    BY <1>0, <2>1, RangeAppend
  <2>3. f \notin Range(Line) /\ f \notin inlined
    BY <1>1 DEF QueueInLoop
  <2>4. IsInjective(Line')
    BY <1>0, <2>1, <2>3, InjectiveAppend
  <2> QED
    BY <1>1, <2>2, <2>3, <2>4 DEF QueueInLoop
<1>2. ASSUME NEW f \in Functors, RunInLoopHere(f)
      PROVE  LineInv'
  BY <1>2 DEF RunInLoopHere, Line
<1>3. CASE BeginPendingFunctors
  <2>1. functors = <<>> /\ functors' = pendingFunctors_ /\ pendingFunctors_' = <<>>
    BY <1>3 DEF BeginPendingFunctors, SwapFunctors
  <2>2. Line' = Line
    BY <1>3, <2>1, ConcatEmptySeq DEF BeginPendingFunctors, Line
  <2> QED
    BY <1>3, <2>2 DEF BeginPendingFunctors
<1>4. CASE RunFunctor
  <2>1. Line' = Append(executed, Head(functors)) \o (Tail(functors) \o pendingFunctors_)
    BY <1>4 DEF RunFunctor, Line
  <2>2. Line' = Line
    <3>1. functors # <<>>
      BY <1>4 DEF RunFunctor
    <3>2. Append(executed, Head(functors)) \o (Tail(functors) \o pendingFunctors_)
            = executed \o (functors \o pendingFunctors_)
      BY <3>1, MoveHeadConcat, SMTT(30)
    <3> QED
      BY <2>1, <3>2 DEF Line
  <2> QED
    BY <1>4, <2>2 DEF RunFunctor
<1>5. CASE \/ EnterLoop \/ ContinueLoop \/ ExitLoop \/ CallbackReturns \/ EndPendingFunctors
           \/ UNCHANGED vars
  BY <1>5 DEF EnterLoop, ContinueLoop, ExitLoop, CallbackReturns, EndPendingFunctors, vars, Line
<1>6. ASSUME NEW t \in Threads, Quit(t) \/ Wakeup(t)
      PROVE  LineInv'
  BY <1>6 DEF Quit, Wakeup, Line
<1>7. ASSUME NEW io \in SUBSET IoChannels, Poll(io)
      PROVE  LineInv'
  BY <1>7 DEF Poll, Line
<1>8. ASSUME NEW ch \in activeChannels_, HandleEvent(ch)
      PROVE  LineInv'
  BY <1>8 DEF HandleEvent, Line
<1> QED
  BY <1>1, <1>2, <1>3, <1>4, <1>5, <1>6, <1>7, <1>8 DEF Next, LoopStep, Call

(* LineInv is an invariant. *)
THEOREM LineInvariant == Spec => []LineInv
<1>1. Init => LineInv
  <2> SUFFICES ASSUME Init PROVE LineInv
    OBVIOUS
  <2>1. Line = <<>>
    BY ConcatEmptySeq DEF Init, Line
  <2> QED
    BY <2>1 DEF Init, LineInv, ExactlyOnce, Range, IsInjective
<1>2. TypeOK /\ LineInv /\ [Next]_vars => LineInv'
  BY LineStep
<1> QED
  BY <1>1, <1>2, TypeCorrect, PTL DEF Spec

(* No functor is lost, duplicated or run twice, whatever pushes and swaps  *)
(* are interleaved.                                                        *)
THEOREM FunctorsRunOnce == Spec => []ExactlyOnce
<1>1. LineInv => ExactlyOnce
  BY DEF LineInv
<1> QED
  BY <1>1, LineInvariant, PTL

-----------------------------------------------------------------------------
(* EventLoop implements TaskQueue.                                         *)

(* A step of the loop or of a caller is a step of the abstract queue, or   *)
(* leaves it alone.                                                        *)
LEMMA QueueStep ==
  ASSUME TypeOK, WakeupInv, LineInv, [Next]_vars
  PROVE  [Queue!Next]_(Queue!vars)
<1> USE DEF LoopAt, loopVars, queueVars, wakeVars, Queue!vars
<1>t. functors \in Seq(Functors) /\ pendingFunctors_ \in Seq(Functors) /\ executed \in Seq(Functors)
  BY DEF TypeOK
<1>0. Queue!Known = posted
  <2>1. functors \o pendingFunctors_ \in Seq(Functors)
    BY <1>t, ConcatProperties
  <2>2. Range(Line) = Range(executed) \cup Range(functors \o pendingFunctors_)
    <3>1. \A q \in Seq(Functors) : Range(executed \o q) = Range(executed) \cup Range(q)
      BY <1>t, RangeConcat
    <3> QED
      BY <2>1, <3>1 DEF Line
  <2>3. Range(Line) \cup inlined = posted
    BY DEF LineInv, ExactlyOnce
  <2> QED
    BY <2>2, <2>3 DEF Queue!Known, Queue!Range, Range
<1>1. ASSUME NEW t \in Threads, NEW f \in Functors, QueueInLoop(t, f)
      PROVE  Queue!Enqueue(f)
  <2>1. functors \o Append(pendingFunctors_, f) = Append(functors \o pendingFunctors_, f)
    BY <1>t, ConcatAppend
  <2> QED
    BY <1>0, <1>1, <2>1 DEF QueueInLoop, Queue!Enqueue
<1>2. ASSUME NEW f \in Functors, RunInLoopHere(f)
      PROVE  Queue!RunHere(f)
  BY <1>0, <1>2 DEF RunInLoopHere, CanCall, WakeupInv, Queue!RunHere
<1>3. CASE RunFunctor
  <2>1. Queue!RunOldest
    BY <1>3, <1>t, HeadTailConcat DEF RunFunctor, Queue!RunOldest
  <2> QED
    BY <2>1 DEF Queue!Next
<1>4. CASE ExitLoop
  BY <1>4 DEF ExitLoop, Queue!Close, Queue!Next
<1>5. CASE BeginPendingFunctors
  <2>1. functors' \o pendingFunctors_' = functors \o pendingFunctors_
    BY <1>5, <1>t, ConcatEmptySeq DEF BeginPendingFunctors, SwapFunctors, LineInv
  <2> QED
    BY <1>5, <2>1 DEF BeginPendingFunctors
<1>6. CASE \/ EnterLoop \/ ContinueLoop \/ CallbackReturns \/ EndPendingFunctors
           \/ UNCHANGED vars
  BY <1>6 DEF EnterLoop, ContinueLoop, CallbackReturns, EndPendingFunctors, vars
<1>7. ASSUME NEW t \in Threads, Quit(t) \/ Wakeup(t)
      PROVE  UNCHANGED Queue!vars
  BY <1>7 DEF Quit, Wakeup
<1>8. ASSUME NEW io \in SUBSET IoChannels, Poll(io)
      PROVE  UNCHANGED Queue!vars
  BY <1>8 DEF Poll
<1>9. ASSUME NEW ch \in activeChannels_, HandleEvent(ch)
      PROVE  UNCHANGED Queue!vars
  BY <1>9 DEF HandleEvent
<1> QED
  BY <1>1, <1>2, <1>3, <1>4, <1>5, <1>6, <1>7, <1>8, <1>9
     DEF Next, LoopStep, Call, Queue!Next

(* The event loop is a FIFO task queue: functors run one at a time in the  *)
(* order of their pushes, and none runs after loop() has returned.         *)
THEOREM LoopIsTaskQueue == Spec => RunsInOrder
<1>1. Init => Queue!Init
  BY ConcatEmptySeq DEF Init, Queue!Init
<1>2. TypeOK /\ WakeupInv /\ LineInv /\ [Next]_vars => [Queue!Next]_(Queue!vars)
  BY QueueStep
<1> QED
  BY <1>1, <1>2, TypeCorrect, WakeupInvariant, LineInvariant, PTL
     DEF Spec, RunsInOrder, Queue!Spec

-----------------------------------------------------------------------------
Ended == {"unlock", "destroy", "exited"}

(* Why a loop that is over or about to be over may be so. *)
ToldToQuit == otherQuit \/ at \in {"join", "gone"}

(* The inductive invariant.  The address is published exactly while the    *)
(* thread is in loop(); the thread comes out of it only when it was told   *)
(* to quit; and the owner has seen the published address before it is      *)
(* "ready".                                                                *)
ThreadInv ==
  /\ quit_ \in BOOLEAN /\ otherQuit \in BOOLEAN
  /\ loop_ = IF tpc = "loop" THEN Loop ELSE Null
  /\ tpc \in {"none", "created", "construct", "callback", "loop"} \cup Ended
  /\ pc = "start" => current = Idle
  /\ pc # "start" => tpc \in {"loop"} \cup Ended
  /\ tpc \in Ended => pc = "done"
  /\ quit_ \/ pc = "done" => ToldToQuit
  /\ at = "idle" => tpc = "none"
  /\ tpc = "none" => at \in {"idle", "detach", "gone"}
  /\ at \in {"ready", "quit", "join"} => tpc \in {"loop"} \cup Ended
  /\ at \in {"detach", "gone"} => tpc = "none" \/ tpc = "exited" \/ (otherQuit /\ tpc \in Ended)

(* Before startLoop() the invariant holds. *)
LEMMA ThreadInit_Inv == ThreadInit => ThreadInv
BY OwnerAssumption DEF ThreadInit, Init, ThreadInv, ToldToQuit, Ended

(* What a step of loop() does to the state that decides about its end. *)
LEMMA LoopStepEffect ==
  ASSUME ThreadInv, LoopStep \/ \E io \in SUBSET IoChannels : Poll(io)
  PROVE  /\ pc' # "start"
         /\ IF pc = "start" THEN quit_' = FALSE /\ pc' = "check" ELSE quit_' = quit_
         /\ pc' = "done" => quit_ \/ pc = "done"
         /\ pc = "done" => pc' = "done"
<1> USE DEF ThreadInv, LoopAt, wakeVars
<1>1. CASE EnterLoop
  BY <1>1 DEF EnterLoop
<1>2. CASE ContinueLoop
  BY <1>2 DEF ContinueLoop
<1>3. CASE ExitLoop
  BY <1>3 DEF ExitLoop
<1>4. CASE \E ch \in activeChannels_ : HandleEvent(ch)
  BY <1>4 DEF HandleEvent
<1>5. CASE CallbackReturns
  BY <1>5 DEF CallbackReturns
<1>6. CASE BeginPendingFunctors
  BY <1>6 DEF BeginPendingFunctors
<1>7. CASE RunFunctor
  BY <1>7 DEF RunFunctor
<1>8. CASE EndPendingFunctors
  BY <1>8 DEF EndPendingFunctors
<1>9. CASE \E io \in SUBSET IoChannels : Poll(io)
  BY <1>9 DEF Poll
<1> QED
  BY <1>1, <1>2, <1>3, <1>4, <1>5, <1>6, <1>7, <1>8, <1>9 DEF LoopStep

(* A step of loop(), in the thread. *)
LEMMA RunLoopStep ==
  ASSUME ThreadInv, RunLoop(LoopStep) \/ \E io \in SUBSET IoChannels : RunLoop(Poll(io))
  PROVE  ThreadInv'
<1>1. /\ LoopStep \/ \E io \in SUBSET IoChannels : Poll(io)
      /\ tpc = "loop"
      /\ otherQuit' = (otherQuit /\ pc # "start")
      /\ UNCHANGED <<loop_, at, tpc>>
  BY DEF RunLoop
<1>2. /\ pc' # "start"
      /\ IF pc = "start" THEN quit_' = FALSE /\ pc' = "check" ELSE quit_' = quit_
      /\ pc' = "done" => quit_ \/ pc = "done"
      /\ pc = "done" => pc' = "done"
  BY <1>1, LoopStepEffect
<1> QED
  BY <1>1, <1>2 DEF ThreadInv, ToldToQuit, Ended

(* The inductive step: one case per step of either thread and per call. *)
LEMMA ThreadStepKeepsInv ==
  ASSUME ThreadInv, [ThreadNext]_allVars
  PROVE  ThreadInv'
<1> USE OwnerAssumption DEF ThreadInv, ToldToQuit, Ended, vars, loopVars, queueVars, wakeVars
<1>1. CASE UNCHANGED allVars
  BY <1>1 DEF allVars, threadVars
<1>2. CASE StartThread
  BY <1>2 DEF StartThread, OwnerGoes
<1>3. CASE SemWait
  BY <1>3 DEF SemWait, OwnerGoes
<1>4. CASE TestLoop
  BY <1>4 DEF TestLoop, AfterTest
<1>5. CASE SpuriousWakeup
  BY <1>5 DEF SpuriousWakeup, OwnerGoes
<1>6. CASE BeginDestroy
  BY <1>6 DEF BeginDestroy
<1>7. CASE QuitLoop
  BY <1>7 DEF QuitLoop, OwnerGoes, Quit
<1>8. CASE Join
  BY <1>8 DEF Join, OwnerGoes, Joinable
<1>9. CASE Detach
  BY <1>9 DEF Detach, OwnerGoes
<1>10. CASE PostSem
  BY <1>10 DEF PostSem, ThreadGoes
<1>11. CASE ConstructLoop
  BY <1>11 DEF ConstructLoop, ThreadGoes
<1>12. CASE Publish
  BY <1>12 DEF Publish, ThreadGoes, NotifyOne
<1>13. CASE ClearLoop
  BY <1>13 DEF ClearLoop, ThreadGoes
<1>14. CASE Unlock
  BY <1>14 DEF Unlock, ThreadGoes
<1>15. CASE DestroyLoop
  BY <1>15 DEF DestroyLoop, ThreadGoes
<1>16. CASE HandOut
  BY <1>16 DEF HandOut
<1>17. CASE RunLoop(LoopStep) \/ \E io \in SUBSET IoChannels : RunLoop(Poll(io))
  BY <1>17, RunLoopStep
<1>18. CASE \E t \in Threads : UserQuit(t)
  BY <1>18 DEF UserQuit, Quit
<1>19. CASE \E t \in Threads : FinishCall(t)
  BY <1>19 DEF FinishCall, Wakeup, threadVars
<1>20. CASE \E t \in Threads, f \in Functors : UserQueues(t, f)
  BY <1>20 DEF UserQueues, QueueInLoop, RunInLoopHere, threadVars
<1> QED
  BY <1>1, <1>2, <1>3, <1>4, <1>5, <1>6, <1>7, <1>8, <1>9, <1>10, <1>11, <1>12, <1>13,
     <1>14, <1>15, <1>16, <1>17, <1>18, <1>19, <1>20
  DEF ThreadNext, StartLoopStep, DestroyStep, ThreadStep

(* The invariant of startLoop, threadFunc and ~EventLoopThread. *)
THEOREM ThreadInvariant == ThreadSpec => []ThreadInv
BY ThreadInit_Inv, ThreadStepKeepsInv, PTL DEF ThreadSpec

(* startLoop's caller never holds a null or dead loop before the           *)
(* destructor, unless somebody else told the loop to quit.                 *)
THEOREM LoopOutlives == ThreadSpec => []LoopOutlivesUse
<1>1. ThreadInv => LoopOutlivesUse
  BY DEF ThreadInv, LoopOutlivesUse, LoopExists, ToldToQuit, Ended
<1> QED
  BY <1>1, ThreadInvariant, PTL

(* ~EventLoopThread has joined the thread, or had no thread, or let one go *)
(* whose loop somebody else told to quit.                                  *)
THEOREM ThreadGoesFirst == ThreadSpec => []GoneAfterThread
<1>1. ThreadInv => GoneAfterThread
  BY DEF ThreadInv, GoneAfterThread, Ended
<1> QED
  BY <1>1, ThreadInvariant, PTL

(* The loop of threadFunc is an EventLoop: no step of either thread        *)
(* changes its state but by a step of EventLoop.  What is proved of        *)
(* EventLoop holds of it.                                                  *)
THEOREM ThreadRunsEventLoop == ThreadSpec => Spec
<1>1. ThreadInit => Init
  BY DEF ThreadInit
<1>2. ASSUME [ThreadNext]_allVars PROVE [Next]_vars
  <2>1. CASE UNCHANGED allVars
    BY <2>1 DEF allVars
  <2>2. CASE StartThread \/ SemWait \/ TestLoop \/ SpuriousWakeup \/ BeginDestroy
    BY <2>2 DEF StartThread, SemWait, TestLoop, SpuriousWakeup, BeginDestroy
  <2>3. CASE QuitLoop
    BY <2>3, OwnerAssumption DEF QuitLoop, Next, Call, Threads
  <2>4. CASE Join \/ Detach \/ PostSem \/ ConstructLoop \/ HandOut
    BY <2>4 DEF Join, Detach, PostSem, ConstructLoop, HandOut
  <2>5. CASE Publish \/ ClearLoop \/ Unlock \/ DestroyLoop
    BY <2>5 DEF Publish, ClearLoop, Unlock, DestroyLoop
  <2>6. CASE RunLoop(LoopStep) \/ \E io \in SUBSET IoChannels : RunLoop(Poll(io))
    BY <2>6 DEF RunLoop, Next
  <2>7. CASE \E t \in Threads : UserQuit(t)
    BY <2>7 DEF UserQuit, Next, Call
  <2>8. CASE \E t \in Threads : FinishCall(t)
    BY <2>8 DEF FinishCall, Next, Call
  <2>9. CASE \E t \in Threads, f \in Functors : UserQueues(t, f)
    BY <2>9 DEF UserQueues, Next, Call
  <2> QED
    BY <1>2, <2>1, <2>2, <2>3, <2>4, <2>5, <2>6, <2>7, <2>8, <2>9
    DEF ThreadNext, StartLoopStep, DestroyStep, ThreadStep
<1> QED
  BY <1>1, <1>2, PTL DEF ThreadSpec, Spec

(* So no wakeup is lost in it, and none of its functors is run twice. *)
THEOREM ThreadLosesNoWakeup == ThreadSpec => []NoLostWakeup
BY ThreadRunsEventLoop, NoWakeupIsLost, PTL
=============================================================================
