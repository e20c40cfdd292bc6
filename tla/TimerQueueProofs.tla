-------------------------- MODULE TimerQueueProofs ---------------------------
(***************************************************************************)
(* Theorems about TimerQueue, for any threads, addresses and bounds: who   *)
(* owns each Timer (EveryTimerHasOneOwner), that a cancelled one stays out *)
(* (CancelledTimerStaysOut), and that the timerfd goes off in time for the *)
(* earliest (TimerfdServesEarliest).                                       *)
(***************************************************************************)
EXTENDS TimerQueue, SequenceTheorems, WellFoundedInduction, TLAPS

Ids      == Ptrs \X (Nat \ {0})
Functors == [op : {"add"}, timer : Ptrs] \cup [op : {"cancel"}, id : Ids]

TQType ==
  /\ heap \in [Ptrs -> [seq : Nat, expiration : Nat, interval : Nat]]
  /\ numCreated \in Nat
  /\ timers_ \subseteq Nat \X Ptrs
  /\ activeTimers_ \subseteq Ids
  /\ armed \in Nat
  /\ since \in Nat
  /\ expired \subseteq Ptrs
  /\ called \subseteq Ptrs
  /\ callingExpiredTimers_ \in BOOLEAN
  /\ pending \in Seq(Functors)
  /\ calls \in [Users -> SUBSET Ptrs]
  /\ ids \subseteq Ids

(* The addTimerInLoop functors of a queue, and that no timer has two.      *)
IsAdd(f)         == f.op = "add"
Adds(s)          == {f.timer : f \in {g \in Range(s) : g.op = "add"}}
AddsDistinct(s)  ==
  \A i, j \in 1..Len(s) : IsAdd(s[i]) /\ IsAdd(s[j]) /\ s[i].timer = s[j].timer => i = j

(* OneOwner said of each address in turn: the two indexes, the owners.     *)
In(p) == <<heap[p].expiration, p>> \in timers_

IndexInv ==
  /\ \A e \in timers_ : e = <<heap[e[2]].expiration, e[2]>>
  /\ \A a \in activeTimers_ : a = Key(a[1])
  /\ \A p \in Ptrs : In(p) <=> Key(p) \in activeTimers_

OwnerInv ==
  /\ \A p \in Ptrs : Live(p) <=> In(p) \/ p \in expired \/ p \in called \/ p \in Adds(pending)
  /\ \A p \in Ptrs : In(p) => p \notin expired /\ p \notin called /\ p \notin Adds(pending)
  /\ \A p \in Adds(pending) : p \notin expired /\ p \notin called
  /\ \A p \in expired : p \notin called
  /\ AddsDistinct(pending)
  /\ ~callingExpiredTimers_ => expired = {} /\ called = {}

TQInv == TQType /\ IndexInv /\ OwnerInv

-----------------------------------------------------------------------------
(* The adds of a queue, by position. *)
LEMMA AddsAre ==
  ASSUME NEW s \in Seq(Functors), NEW p
  PROVE  p \in Adds(s) <=> \E i \in 1..Len(s) : IsAdd(s[i]) /\ s[i].timer = p
<1>1. Range(s) = {s[i] : i \in 1..Len(s)}
  BY DEF Range
<1> QED
  BY <1>1 DEF Adds, IsAdd

(* queueInLoop of one functor more. *)
LEMMA AddsAppend ==
  ASSUME NEW s \in Seq(Functors), NEW f \in Functors
  PROVE  /\ IsAdd(f) => Adds(Append(s, f)) = Adds(s) \cup {f.timer}
         /\ ~IsAdd(f) => Adds(Append(s, f)) = Adds(s)
         /\ AddsDistinct(s) /\ (IsAdd(f) => f.timer \notin Adds(s)) =>
              AddsDistinct(Append(s, f))
<1> DEFINE t == Append(s, f)
<1>1. t \in Seq(Functors) /\ Len(t) = Len(s) + 1 /\ t[Len(s) + 1] = f /\ Len(s) \in Nat
  OBVIOUS
<1>2. \A i \in 1..Len(s) : t[i] = s[i]
  OBVIOUS
<1>3. 1..Len(t) = 1..Len(s) \cup {Len(s) + 1}
  BY <1>1
<1> HIDE DEF t
<1>4. \A p : p \in Adds(t) <=> p \in Adds(s) \/ (IsAdd(f) /\ f.timer = p)
  <2> TAKE p
  <2>1. p \in Adds(t) <=> \E i \in 1..Len(t) : IsAdd(t[i]) /\ t[i].timer = p
    BY <1>1, AddsAre
  <2>2. p \in Adds(s) <=> \E i \in 1..Len(s) : IsAdd(s[i]) /\ s[i].timer = p
    BY AddsAre
  <2> QED
    BY <1>1, <1>2, <1>3, <2>1, <2>2
<1>5. ASSUME AddsDistinct(s), IsAdd(f) => f.timer \notin Adds(s)
      PROVE  AddsDistinct(t)
  <2>1. \A i \in 1..Len(s) : IsAdd(f) /\ IsAdd(s[i]) => s[i].timer # f.timer
    BY <1>5, AddsAre
  <2>2. ASSUME NEW i \in 1..Len(t), NEW j \in 1..Len(t),
               IsAdd(t[i]), IsAdd(t[j]), t[i].timer = t[j].timer
        PROVE  i = j
    <3>1. CASE i \in 1..Len(s) /\ j \in 1..Len(s)
      BY <3>1, <2>2, <1>2, <1>5 DEF AddsDistinct
    <3>2. CASE i = Len(s) + 1 \/ j = Len(s) + 1
      BY <3>2, <2>1, <2>2, <1>1, <1>2, <1>3
    <3> QED
      BY <3>1, <3>2, <1>3
  <2> QED
    BY <2>2 DEF AddsDistinct
<1>6. (IsAdd(f) => Adds(t) = Adds(s) \cup {f.timer}) /\ (~IsAdd(f) => Adds(t) = Adds(s))
  BY <1>4, Zenon
<1> QED
  BY <1>5, <1>6 DEF t

(* The oldest functor taken off the queue. *)
LEMMA AddsTail ==
  ASSUME NEW s \in Seq(Functors), s # <<>>, AddsDistinct(s)
  PROVE  /\ Head(s) \in Functors /\ Tail(s) \in Seq(Functors)
         /\ AddsDistinct(Tail(s))
         /\ IsAdd(Head(s)) => /\ Head(s).timer \in Adds(s)
                              /\ Adds(Tail(s)) = Adds(s) \ {Head(s).timer}
         /\ ~IsAdd(Head(s)) => Adds(Tail(s)) = Adds(s)
<1> DEFINE t == Tail(s)
           f == Head(s)
<1>1. t \in Seq(Functors) /\ Len(t) = Len(s) - 1 /\ f = s[1] /\ f \in Functors
  OBVIOUS
<1>2. \A i \in 1..Len(t) : t[i] = s[i + 1] /\ i + 1 \in 1..Len(s)
  OBVIOUS
<1>3. Len(s) \in Nat \ {0} /\ Len(t) \in Nat
  OBVIOUS
<1> HIDE DEF t, f
<1>4. AddsDistinct(t)
  <2> SUFFICES ASSUME NEW i \in 1..Len(t), NEW j \in 1..Len(t),
                      IsAdd(t[i]), IsAdd(t[j]), t[i].timer = t[j].timer
               PROVE  i = j
    BY DEF AddsDistinct
  <2>1. i + 1 = j + 1
    BY <1>2 DEF AddsDistinct
  <2> QED
    BY <2>1
<1>5. \A p : p \in Adds(s) <=> p \in Adds(t) \/ (IsAdd(f) /\ f.timer = p)
  <2> TAKE p
  <2>1. p \in Adds(t) <=> \E i \in 1..Len(t) : IsAdd(t[i]) /\ t[i].timer = p
    BY <1>1, AddsAre
  <2>2. p \in Adds(s) <=> \E i \in 1..Len(s) : IsAdd(s[i]) /\ s[i].timer = p
    BY AddsAre
  <2>3. \A i \in 1..Len(s) : i = 1 \/ (i - 1 \in 1..Len(t) /\ t[i - 1] = s[i])
    BY <1>1, <1>2, <1>3
  <2>4. p \in Adds(t) => p \in Adds(s)
    BY <1>2, <2>1, <2>2
  <2>5. IsAdd(f) /\ f.timer = p => p \in Adds(s)
    BY <1>1, <1>3, <2>2
  <2>6. ASSUME p \in Adds(s) PROVE p \in Adds(t) \/ (IsAdd(f) /\ f.timer = p)
    <3>1. PICK i \in 1..Len(s) : IsAdd(s[i]) /\ s[i].timer = p
      BY <2>2, <2>6
    <3> QED
      BY <1>1, <2>1, <2>3, <3>1, Zenon
  <2> QED
    BY <2>4, <2>5, <2>6
<1>6. IsAdd(f) => f.timer \notin Adds(t)
  <2> SUFFICES ASSUME IsAdd(f), NEW i \in 1..Len(t), IsAdd(t[i]), t[i].timer = f.timer
               PROVE  FALSE
    BY <1>1, AddsAre
  <2>1. i + 1 = 1
    BY <1>1, <1>2, <1>3 DEF AddsDistinct
  <2> QED
    BY <2>1
<1>7. /\ IsAdd(f) => f.timer \in Adds(s) /\ Adds(t) = Adds(s) \ {f.timer}
      /\ ~IsAdd(f) => Adds(t) = Adds(s)
  BY <1>5, <1>6, Zenon
<1> QED
  BY <1>1, <1>4, <1>7 DEF t, f

-----------------------------------------------------------------------------
(* What the actions share: the heap and the two sets keep their types and  *)
(* agree, and the timers in them and the live ones are those expected.     *)
HeapType ==
  /\ heap \in [Ptrs -> [seq : Nat, expiration : Nat, interval : Nat]]
  /\ numCreated \in Nat
  /\ timers_ \subseteq Nat \X Ptrs
  /\ activeTimers_ \subseteq Ids

(* insert puts a live timer that is in neither set into both. *)
LEMMA InsertIndexes ==
  ASSUME HeapType, HeapType', IndexInv, NEW p \in Ptrs,
         \A q \in Ptrs : q # p => heap'[q] = heap[q],
         ~In(p),
         timers_' = timers_ \cup {<<heap'[p].expiration, p>>},
         activeTimers_' = activeTimers_ \cup {<<p, heap'[p].seq>>}
  PROVE  IndexInv' /\ \A q \in Ptrs : In(q)' <=> In(q) \/ q = p
<1> USE DEF HeapType
<1>1. \A e \in timers_ : e[2] \in Ptrs /\ e[2] # p /\ e = <<heap[e[2]].expiration, e[2]>>
  BY DEF IndexInv, In
<1>2. \A a \in activeTimers_ : a[1] \in Ptrs /\ a[1] # p /\ a = <<a[1], heap[a[1]].seq>>
  BY DEF IndexInv, In, Key, Ids
<1>3. (\A e \in timers_ : e = <<heap[e[2]].expiration, e[2]>>)'
  BY <1>1
<1>4. (\A a \in activeTimers_ : a = Key(a[1]))'
  BY <1>2 DEF Key
<1>5. \A q \in Ptrs : In(q)' <=> In(q) \/ q = p
  BY <1>1 DEF In
<1>6. \A q \in Ptrs : Key(q)' \in activeTimers_' <=> Key(q) \in activeTimers_ \/ q = p
  BY <1>2, Zenon DEF Key
<1> QED
  BY <1>3, <1>4, <1>5, <1>6 DEF IndexInv

(* cancelInLoop takes one timer out of both sets and deletes it, or none.  *)
LEMMA CancelIndexes ==
  ASSUME TQInv, NEW id \in Ids, cancelInLoop(id), numCreated' = numCreated
  PROVE  /\ HeapType' /\ IndexInv'
         /\ id \in activeTimers_ => In(id[1])
         /\ \A q \in Ptrs : In(q)' <=> In(q) /\ ~(id \in activeTimers_ /\ q = id[1])
         /\ \A q \in Ptrs : Live(q)' <=> Live(q) /\ ~(id \in activeTimers_ /\ q = id[1])
<1> DEFINE p == id[1]
<1>0. p \in Ptrs /\ TQType /\ IndexInv
  BY DEF Ids, TQInv
<1>1. CASE id \notin activeTimers_
  <2>1. UNCHANGED <<timers_, activeTimers_, heap, numCreated>>
    BY <1>1 DEF cancelInLoop, sets
  <2> QED
    BY <1>0, <1>1, <2>1 DEF HeapType, TQType, IndexInv, In, Live, Key
<1>2. CASE id \in activeTimers_
  <2>1. /\ timers_' = timers_ \ {<<heap[p].expiration, p>>}
        /\ activeTimers_' = activeTimers_ \ {id}
        /\ heap' = [heap EXCEPT ![p] = NoTimer]
    BY <1>2 DEF cancelInLoop, TimersWithout
  <2>2. HeapType'
    BY <1>0, <2>1 DEF HeapType, TQType, NoTimer
  <2>3. id = <<p, heap[p].seq>> /\ In(p)
    BY <1>0, <1>2 DEF IndexInv, Key
  <2>4. \A e \in timers_' : e \in timers_ /\ e[2] \in Ptrs /\ e[2] # p
    BY <1>0, <2>1 DEF TQType, IndexInv
  <2>5. \A a \in activeTimers_' : a \in activeTimers_ /\ a[1] \in Ptrs /\ a[1] # p
    BY <1>0, <2>1, <2>3, Zenon DEF TQType, IndexInv, Key, Ids
  <2>6. \A q \in Ptrs : q # p => heap'[q] = heap[q]
    BY <1>0, <2>1 DEF TQType
  <2>7. (\A e \in timers_ : e = <<heap[e[2]].expiration, e[2]>>)'
    BY <1>0, <2>4, <2>6 DEF IndexInv
  <2>8. (\A a \in activeTimers_ : a = Key(a[1]))'
    BY <1>0, <2>5, <2>6 DEF IndexInv, Key
  <2>9. \A q \in Ptrs : In(q)' <=> In(q) /\ q # p
    BY <2>1, <2>4, <2>6 DEF In
  <2>10. \A q \in Ptrs : Key(q)' \in activeTimers_' <=> Key(q) \in activeTimers_ /\ q # p
    BY <2>1, <2>3, <2>5, <2>6 DEF Key
  <2>11. \A q \in Ptrs : Live(q)' <=> Live(q) /\ q # p
    BY <1>0, <2>1, <2>6 DEF Live, TQType, NoTimer
  <2>12. IndexInv'
    BY <1>0, <2>7, <2>8, <2>9, <2>10 DEF IndexInv
  <2> QED
    BY <1>2, <2>2, <2>3, <2>9, <2>11, <2>12
<1> QED
  BY <1>1, <1>2

(* addTimer in the loop thread: a new timer, at once in both sets. *)
LEMMA AddIndexes ==
  ASSUME TQInv, NEW p \in Ptrs, NEW delay \in Delays, NEW interval \in {0, MaxDelay},
         NewTimer(p, delay, interval), addTimerInLoop(p, heap'[p])
  PROVE  /\ HeapType' /\ IndexInv'
         /\ ~Live(p) /\ ~In(p)
         /\ <<p, numCreated'>> \in Ids
         /\ \A q \in Ptrs : In(q)' <=> In(q) \/ q = p
         /\ \A q \in Ptrs : Live(q)' <=> Live(q) \/ q = p
<1>0. TQType /\ IndexInv /\ OwnerInv /\ delay \in Nat /\ interval \in Nat
  BY TimerAssumption DEF TQInv, Delays
<1>1. /\ heap' = [heap EXCEPT ![p] =
                   [seq |-> numCreated + 1, expiration |-> delay, interval |-> interval]]
      /\ numCreated' = numCreated + 1 /\ ~Live(p)
  BY DEF NewTimer
<1>2. /\ heap' \in [Ptrs -> [seq : Nat, expiration : Nat, interval : Nat]]
      /\ heap'[p].seq = numCreated' /\ numCreated' \in Nat \ {0}
      /\ \A q \in Ptrs : q # p => heap'[q] = heap[q]
  BY <1>0, <1>1 DEF TQType
<1>3. /\ timers_' = timers_ \cup {<<heap'[p].expiration, p>>}
      /\ activeTimers_' = activeTimers_ \cup {<<p, heap'[p].seq>>}
  BY DEF addTimerInLoop
<1>4. HeapType'
  <2>1. <<heap'[p].expiration, p>> \in Nat \X Ptrs /\ <<p, heap'[p].seq>> \in Ids
    BY <1>2 DEF Ids
  <2> QED
    BY <1>0, <1>2, <1>3, <2>1, Zenon DEF HeapType, TQType
<1>5. ~In(p)
  BY <1>0, <1>1 DEF OwnerInv
<1>6. IndexInv' /\ \A q \in Ptrs : In(q)' <=> In(q) \/ q = p
  <2>1. HeapType
    BY <1>0 DEF HeapType, TQType
  <2> QED
    BY <1>0, <1>2, <1>3, <1>4, <1>5, <2>1, InsertIndexes
<1>7. \A q \in Ptrs : Live(q)' <=> Live(q) \/ q = p
  BY <1>1, <1>2 DEF Live
<1> QED
  BY <1>1, <1>2, <1>4, <1>5, <1>6, <1>7 DEF Ids

(* A step that changes neither the heap nor the two sets. *)
LEMMA SameIndexes ==
  ASSUME TQInv, UNCHANGED <<heap, numCreated, timers_, activeTimers_>>
  PROVE  /\ HeapType' /\ IndexInv'
         /\ \A q \in Ptrs : (In(q)' <=> In(q)) /\ (Live(q)' <=> Live(q))
BY DEF TQInv, TQType, HeapType, IndexInv, In, Live, Key

(* The types, but for the heap and the sets. *)
RestType ==
  /\ armed \in Nat
  /\ since \in Nat
  /\ expired \subseteq Ptrs
  /\ called \subseteq Ptrs
  /\ callingExpiredTimers_ \in BOOLEAN
  /\ pending \in Seq(Functors)
  /\ calls \in [Users -> SUBSET Ptrs]
  /\ ids \subseteq Ids

(* The type of the heap and that of the rest, for steps that change one of them. *)
LEMMA TwoTypes == TQType <=> HeapType /\ RestType
BY DEF TQType, HeapType, RestType

(* The owners of a callback's timers: what AddHere and CancelHere leave.   *)
(* The batch may move on in the same step.                                 *)
LEMMA CallbackOwners ==
  ASSUME TQInv, Callback, UNCHANGED <<callingExpiredTimers_, pending>>,
         expired' \subseteq expired,
         expired' \cup called' = expired \cup called, expired' \cap called' = {}
  PROVE  HeapType' /\ IndexInv' /\ OwnerInv' /\ ids' \subseteq Ids
<1>0. IndexInv /\ OwnerInv /\ ids \subseteq Ids /\ Adds(pending)' = Adds(pending)
      /\ (AddsDistinct(pending)' <=> AddsDistinct(pending))
  BY DEF TQInv, TQType
<1>1. \A p : p \in expired' \/ p \in called' <=> p \in expired \/ p \in called
  OBVIOUS
<1>2. \A p \in expired' : p \notin called'
  OBVIOUS
<1>3. ~callingExpiredTimers_' => expired' = {} /\ called' = {}
  BY <1>0, <1>1 DEF OwnerInv
<1>4. CASE AddHere
  <2>1. PICK p \in Ptrs, delay \in Delays, interval \in {0, MaxDelay} :
          /\ NewTimer(p, delay, interval)
          /\ addTimerInLoop(p, heap'[p])
          /\ ids' = ids \cup {<<p, numCreated'>>}
    BY <1>4 DEF AddHere
  <2>2. /\ HeapType' /\ IndexInv' /\ ~Live(p) /\ ~In(p) /\ <<p, numCreated'>> \in Ids
        /\ \A q \in Ptrs : In(q)' <=> In(q) \/ q = p
        /\ \A q \in Ptrs : Live(q)' <=> Live(q) \/ q = p
    BY <2>1, AddIndexes
  <2>3. OwnerInv'
    BY <1>0, <1>1, <1>2, <1>3, <2>2 DEF OwnerInv
  <2> QED
    BY <1>0, <2>1, <2>2, <2>3
<1>5. CASE CancelHere
  <2>1. PICK id \in ids : cancelInLoop(id) /\ numCreated' = numCreated /\ ids' = ids
    BY <1>5 DEF CancelHere
  <2>2. /\ HeapType' /\ IndexInv' /\ (id \in activeTimers_ => In(id[1]))
        /\ \A q \in Ptrs : In(q)' <=> In(q) /\ ~(id \in activeTimers_ /\ q = id[1])
        /\ \A q \in Ptrs : Live(q)' <=> Live(q) /\ ~(id \in activeTimers_ /\ q = id[1])
    BY <1>0, <2>1, CancelIndexes
  <2>3. OwnerInv'
    BY <1>0, <1>1, <1>2, <1>3, <2>2 DEF OwnerInv
  <2> QED
    BY <1>0, <2>1, <2>2, <2>3
<1>6. CASE UNCHANGED <<heap, numCreated, sets, timerfd, ids, cancelingTimers_, cancelled>>
  <2>1. UNCHANGED <<heap, numCreated, timers_, activeTimers_>> /\ ids' = ids
    BY <1>6 DEF sets
  <2>2. /\ HeapType' /\ IndexInv'
        /\ \A q \in Ptrs : (In(q)' <=> In(q)) /\ (Live(q)' <=> Live(q))
    BY <2>1, SameIndexes
  <2>3. OwnerInv'
    BY <1>0, <1>1, <1>2, <1>3, <2>2 DEF OwnerInv
  <2> QED
    BY <1>0, <2>1, <2>2, <2>3
<1> QED
  BY <1>4, <1>5, <1>6 DEF Callback

(* timers_.begin() is the entry with the least expiration. *)
LEMMA EarliestIsLeast ==
  ASSUME NEW T, T \subseteq Nat \X Ptrs, T # {}
  PROVE  /\ Earliest(T) \in Nat
         /\ \E e \in T : e[1] = Earliest(T)
         /\ \A e \in T : Earliest(T) <= e[1]
<1> DEFINE S == {e[1] : e \in T}
<1>1. S \subseteq Nat /\ S # {}
  OBVIOUS
<1> HIDE DEF S
<1>2. PICK x \in S : \A y \in S : ~(<<y, x>> \in OpToRel(<, Nat))
  BY <1>1, NatLessThanWellFounded, WFMin, Zenon
<1>3. \A y \in S : x <= y
  <2>1. \A y \in S : ~(y < x)
    BY <1>1, <1>2, Zenon DEF OpToRel
  <2> QED
    BY <1>1, <2>1
<1>4. \A e \in T : x <= e[1]
  BY <1>3 DEF S
<1>5. Earliest(T) = CHOOSE t \in S : \A e \in T : t <= e[1]
  BY DEF Earliest, S
<1>6. Earliest(T) \in S /\ \A e \in T : Earliest(T) <= e[1]
  BY <1>4, <1>5
<1> QED
  BY <1>1, <1>6 DEF S

(* What the timerfd is set for is a time. *)
LEMMA ArmedType ==
  ASSUME TQType
  PROVE  /\ \A t \in Nat : resetTimerfd(t) => armed' \in Nat
         /\ \A p \in Ptrs : \A tm : tm.expiration \in Nat /\ addTimerInLoop(p, tm) => armed' \in Nat
BY DEF TQType, resetTimerfd, ArmFor, addTimerInLoop, timerfd

(* getExpired moves the due timers from the sets to the batch. *)
LEMMA HandleReadOwners ==
  ASSUME TQInv, HandleRead
  PROVE  TQInv'
<1> DEFINE D == {e[2] : e \in Due}
<1>0. TQType /\ IndexInv /\ OwnerInv /\ expired = {} /\ called = {}
  BY DEF TQInv, OwnerInv, HandleRead
<1>1. /\ timers_' = timers_ \ Due
      /\ activeTimers_' = activeTimers_ \ {Key(e[2]) : e \in Due}
      /\ expired' = D /\ called' = {} /\ callingExpiredTimers_' = TRUE /\ since' = 0
      /\ UNCHANGED <<heap, numCreated, armed, pending, calls, ids>>
  BY DEF HandleRead, shared
<1>2. \A q \in Ptrs : q \in D <=> In(q) /\ heap[q].expiration = 0
  BY <1>0 DEF Due, In, IndexInv, TQType
<1>3. {Key(e[2]) : e \in Due} = {Key(q) : q \in D}
  OBVIOUS
<1>4. D \subseteq Ptrs
  BY <1>0 DEF Due, TQType
<1>5. \A e \in timers_ : e[2] \in Ptrs /\ (e \in Due <=> e[2] \in D)
  BY <1>0 DEF Due, IndexInv, TQType
<1> HIDE DEF D
<1>6. \A q \in Ptrs : In(q)' <=> In(q) /\ q \notin D
  BY <1>0, <1>1, <1>5 DEF In
<1>7. \A q \in Ptrs : Key(q)' \in activeTimers_' <=> Key(q) \in activeTimers_ /\ q \notin D
  BY <1>1, <1>3, <1>4 DEF Key
<1>8. IndexInv'
  <2>1. (\A e \in timers_ : e = <<heap[e[2]].expiration, e[2]>>)'
    BY <1>0, <1>1 DEF IndexInv
  <2>2. (\A a \in activeTimers_ : a = Key(a[1]))'
    BY <1>0, <1>1 DEF IndexInv, Key
  <2> QED
    BY <1>0, <1>6, <1>7, <2>1, <2>2 DEF IndexInv
<1>9. \A q \in Ptrs : Live(q)' <=> Live(q)
  BY <1>1 DEF Live
<1>10. Adds(pending)' = Adds(pending) /\ (AddsDistinct(pending)' <=> AddsDistinct(pending))
  BY <1>1
<1>11. OwnerInv'
  BY <1>0, <1>1, <1>2, <1>4, <1>6, <1>9, <1>10 DEF OwnerInv
<1>12. TQType'
  BY <1>0, <1>1, <1>4 DEF TQType
<1> QED
  BY <1>8, <1>11, <1>12 DEF TQInv

(* reset puts repeating timers back and deletes the others. *)
LEMMA ResetOwners ==
  ASSUME TQInv, Reset
  PROVE  TQInv'
<1> DEFINE kept == {p \in called : Restarts(p)}
<1>0. TQType /\ IndexInv /\ OwnerInv /\ expired = {} /\ called \subseteq Ptrs
  BY DEF TQInv, TQType, Reset
<1>1. /\ heap' = [p \in Ptrs |-> IF p \in called THEN AfterReset(p) ELSE heap[p]]
      /\ timers_' = timers_ \cup {<<Restarted(p).expiration, p>> : p \in kept}
      /\ activeTimers_' = activeTimers_ \cup {Key(p) : p \in kept}
      /\ expired' = {} /\ called' = {} /\ callingExpiredTimers_' = FALSE /\ since' = 0
      /\ UNCHANGED <<numCreated, pending, calls, ids>>
  BY DEF Reset, shared
<1>2. \A p \in Ptrs : /\ Restarted(p) \in [seq : Nat, expiration : Nat, interval : Nat]
                      /\ Restarted(p).seq = heap[p].seq
  <2> TAKE p \in Ptrs
  <2> DEFINE x == IF heap[p].interval > since THEN heap[p].interval - since ELSE 0
  <2>1. heap[p] \in [seq : Nat, expiration : Nat, interval : Nat] /\ x \in Nat
    BY <1>0 DEF TQType
  <2>2. Restarted(p) = [heap[p] EXCEPT !.expiration = x]
    BY DEF Restarted
  <2> HIDE DEF x
  <2> QED
    BY <2>1, <2>2
<1>3. /\ \A p \in kept : p \in Ptrs /\ p \in called /\ heap'[p] = Restarted(p)
      /\ \A p \in called : p \notin kept => heap'[p] = NoTimer
      /\ \A p \in Ptrs : p \notin called => heap'[p] = heap[p]
  BY <1>0, <1>1 DEF AfterReset
<1>4. \A p \in called : Live(p) /\ ~In(p) /\ p \notin Adds(pending)
  BY <1>0 DEF OwnerInv
<1> HIDE DEF kept
<1>5. \A e \in timers_ : e[2] \in Ptrs /\ e[2] \notin called /\ e = <<heap[e[2]].expiration, e[2]>>
  BY <1>0, <1>4 DEF TQType, IndexInv, In
<1>6. \A a \in activeTimers_ : a[1] \in Ptrs /\ a[1] \notin called /\ a = <<a[1], heap[a[1]].seq>>
  BY <1>0, <1>4 DEF TQType, IndexInv, Key, Ids
<1>7. TQType'
  <2>1. heap' \in [Ptrs -> [seq : Nat, expiration : Nat, interval : Nat]]
    BY <1>0, <1>1, <1>2 DEF TQType, AfterReset, NoTimer
  <2>2. timers_' \subseteq Nat \X Ptrs
    <3>1. \A p \in kept : <<Restarted(p).expiration, p>> \in Nat \X Ptrs
      BY <1>2, <1>3
    <3> QED
      BY <1>0, <1>1, <3>1 DEF TQType
  <2>3. activeTimers_' \subseteq Ids
    <3>1. \A p \in kept : Key(p) \in Ids
      BY <1>0, <1>3, <1>4 DEF TQType, Ids, Key, Live
    <3> QED
      BY <1>0, <1>1, <3>1 DEF TQType
  <2>4. armed' \in Nat
    <3>1. CASE timers_' = {}
      BY <1>0, <3>1 DEF Reset, TQType, timerfd
    <3>2. CASE timers_' # {}
      BY <1>0, <2>2, <3>2, EarliestIsLeast, ArmedType DEF Reset
    <3> QED
      BY <3>1, <3>2
  <2> QED
    BY <1>0, <1>1, <2>1, <2>2, <2>3, <2>4, Zenon DEF TQType
<1>8. IndexInv'
  <2>1. (\A e \in timers_ : e = <<heap[e[2]].expiration, e[2]>>)'
    BY <1>1, <1>3, <1>5
  <2>2. (\A a \in activeTimers_ : a = Key(a[1]))'
    BY <1>1, <1>2, <1>3, <1>6 DEF Key
  <2>3. \A q \in Ptrs : In(q)' <=> In(q) \/ q \in kept
    BY <1>1, <1>3, <1>5 DEF In
  <2>4. \A q \in Ptrs : Key(q)' \in activeTimers_' <=> Key(q) \in activeTimers_ \/ q \in kept
    <3> TAKE q \in Ptrs
    <3>1. CASE q \in kept
      <4>1. Key(q)' = Key(q)
        BY <1>2, <1>3, <3>1 DEF Key
      <4> QED
        BY <1>1, <3>1, <4>1
    <3>2. CASE q \notin called
      <4>1. Key(q)' = Key(q)
        BY <1>3, <3>2 DEF Key
      <4>2. \A p \in kept : Key(p) # Key(q)
        BY <1>3, <3>2 DEF Key
      <4> QED
        BY <1>1, <1>3, <3>2, <4>1, <4>2
    <3>3. CASE q \in called /\ q \notin kept
      <4>1. Key(q)' = <<q, 0>>
        BY <1>3, <3>3 DEF Key, NoTimer
      <4>2. Key(q)' \notin activeTimers_'
        BY <1>7, <4>1 DEF TQType, Ids
      <4>3. Key(q) \notin activeTimers_
        BY <1>6, <3>3 DEF Key
      <4> QED
        BY <3>3, <4>2, <4>3
    <3> QED
      BY <1>3, <3>1, <3>2, <3>3
  <2> QED
    BY <1>0, <2>1, <2>2, <2>3, <2>4 DEF IndexInv
<1>9. \A q \in Ptrs : In(q)' <=> In(q) \/ q \in kept
  BY <1>1, <1>3, <1>5 DEF In
<1>10. \A q \in Ptrs : Live(q)' <=> Live(q) /\ (q \in called => q \in kept)
  BY <1>2, <1>3, <1>4 DEF Live, NoTimer
<1>11. Adds(pending)' = Adds(pending) /\ (AddsDistinct(pending)' <=> AddsDistinct(pending))
  BY <1>1
<1>12. OwnerInv'
  BY <1>0, <1>1, <1>3, <1>4, <1>9, <1>10, <1>11 DEF OwnerInv
<1> QED
  BY <1>7, <1>8, <1>12 DEF TQInv

(* Time passes: every expiration in both sets moves alike. *)
LEMMA TickOwners ==
  ASSUME TQInv, Tick
  PROVE  TQInv'
<1>0. TQType /\ IndexInv /\ OwnerInv
  BY DEF TQInv
<1>1. /\ heap' = [p \in Ptrs |-> [heap[p] EXCEPT !.expiration = Nearer(@)]]
      /\ timers_' = {<<Nearer(e[1]), e[2]>> : e \in timers_}
      /\ armed' = Nearer(armed)
      /\ since' = IF callingExpiredTimers_ /\ since < MaxDelay THEN since + 1 ELSE since
      /\ UNCHANGED <<numCreated, activeTimers_, callingExpiredTimers_, expired, called, pending,
                     calls, ids>>
  BY DEF Tick, shared
<1>2. \A t \in Nat : Nearer(t) \in Nat
  BY DEF Nearer
<1>3. \A p \in Ptrs : /\ heap'[p] \in [seq : Nat, expiration : Nat, interval : Nat]
                      /\ heap'[p].seq = heap[p].seq
                      /\ heap'[p].expiration = Nearer(heap[p].expiration)
  BY <1>0, <1>1, <1>2 DEF TQType
<1>4. \A e \in timers_ : e[2] \in Ptrs /\ e[1] \in Nat /\ e[1] = heap[e[2]].expiration
  BY <1>0 DEF TQType, IndexInv
<1>5. TQType'
  <2>1. heap' \in [Ptrs -> [seq : Nat, expiration : Nat, interval : Nat]]
    BY <1>1, <1>3
  <2>2. timers_' \subseteq Nat \X Ptrs
    BY <1>1, <1>2, <1>4
  <2>3. since' \in Nat /\ armed' \in Nat
    BY <1>0, <1>1, <1>2 DEF TQType
  <2> QED
    BY <1>0, <1>1, <2>1, <2>2, <2>3 DEF TQType
<1>6. \A q \in Ptrs : (In(q)' <=> In(q)) /\ (Live(q)' <=> Live(q)) /\ Key(q)' = Key(q)
  <2> TAKE q \in Ptrs
  <2>1. In(q) => In(q)'
    BY <1>1, <1>3 DEF In
  <2>2. In(q)' => In(q)
    <3> HAVE In(q)'
    <3>1. PICK e \in timers_ : <<heap'[q].expiration, q>> = <<Nearer(e[1]), e[2]>>
      BY <1>1 DEF In
    <3>2. e[2] = q
      BY <3>1
    <3> QED
      BY <1>0, <3>2 DEF In, IndexInv
  <2> QED
    BY <1>3, <2>1, <2>2 DEF Live, Key
<1>7. IndexInv'
  <2>1. (\A e \in timers_ : e = <<heap[e[2]].expiration, e[2]>>)'
    BY <1>1, <1>3, <1>4
  <2>2. (\A a \in activeTimers_ : a = Key(a[1]))'
    BY <1>0, <1>1, <1>6 DEF IndexInv, TQType, Ids
  <2> QED
    BY <1>0, <1>1, <1>6, <2>1, <2>2 DEF IndexInv
<1>8. Adds(pending)' = Adds(pending) /\ (AddsDistinct(pending)' <=> AddsDistinct(pending))
  BY <1>1
<1>9. OwnerInv'
  BY <1>0, <1>1, <1>6, <1>8 DEF OwnerInv
<1> QED
  BY <1>5, <1>7, <1>9 DEF TQInv

(* addTimer and cancel in another thread, and the functors they queue. *)
LEMMA RemoteOwners ==
  ASSUME TQInv, NEW u \in Users, AddRemote(u) \/ AddReturns(u) \/ CancelRemote(u)
  PROVE  TQInv'
<1>0. TQType /\ HeapType /\ IndexInv /\ OwnerInv
  BY TwoTypes DEF TQInv
<1>1. CASE AddRemote(u)
  <2>1. PICK p \in Ptrs, delay \in Delays, interval \in {0, MaxDelay} :
          /\ NewTimer(p, delay, interval)
          /\ pending' = Append(pending, [op |-> "add", timer |-> p])
          /\ calls' = [calls EXCEPT ![u] = {p}]
    BY <1>1, Zenon DEF AddRemote
  <2>2. UNCHANGED <<timers_, activeTimers_, armed, since, expired, called, callingExpiredTimers_, ids>>
    BY <1>1 DEF AddRemote, sets, timerfd, batch
  <2>3. delay \in Nat /\ interval \in Nat
    BY TimerAssumption DEF Delays
  <2>4. /\ heap' = [heap EXCEPT ![p] =
                     [seq |-> numCreated + 1, expiration |-> delay, interval |-> interval]]
        /\ numCreated' = numCreated + 1 /\ ~Live(p)
    BY <2>1 DEF NewTimer
  <2>5. /\ heap' \in [Ptrs -> [seq : Nat, expiration : Nat, interval : Nat]]
        /\ heap'[p].seq # 0 /\ numCreated' \in Nat
        /\ \A q \in Ptrs : q # p => heap'[q] = heap[q]
    BY <1>0, <2>3, <2>4 DEF TQType
  <2>6. ~In(p) /\ p \notin expired /\ p \notin called /\ p \notin Adds(pending)
    BY <1>0, <2>4 DEF OwnerInv
  <2>7. /\ pending' \in Seq(Functors)
        /\ Adds(pending') = Adds(pending) \cup {p} /\ AddsDistinct(pending')
    <3> DEFINE f == [op |-> "add", timer |-> p]
    <3>1. f \in Functors /\ IsAdd(f) /\ f.timer = p
      BY DEF Functors, IsAdd
    <3>2. pending \in Seq(Functors) /\ AddsDistinct(pending) /\ pending' = Append(pending, f)
      BY <1>0, <2>1 DEF TQType, OwnerInv
    <3> HIDE DEF f
    <3> QED
      BY <2>6, <3>1, <3>2, AddsAppend
  <2>8. TQType'
    BY <1>0, <2>1, <2>2, <2>5, <2>7 DEF TQType
  <2>9. \A e \in timers_ : e[2] \in Ptrs /\ e[2] # p /\ e = <<heap[e[2]].expiration, e[2]>>
    BY <1>0, <2>6 DEF TQType, IndexInv, In
  <2>10. \A a \in activeTimers_ : a[1] \in Ptrs /\ a[1] # p /\ a = <<a[1], heap[a[1]].seq>>
    BY <1>0, <2>6 DEF TQType, IndexInv, In, Key, Ids
  <2>11. \A q \in Ptrs : /\ In(q)' <=> In(q)
                         /\ Key(q)' \in activeTimers_' <=> Key(q) \in activeTimers_
    BY <2>2, <2>5, <2>6, <2>9, <2>10 DEF In, Key
  <2>12. IndexInv'
    BY <1>0, <2>2, <2>5, <2>9, <2>10, <2>11, ZenonT(30) DEF IndexInv, Key
  <2>13. \A q \in Ptrs : Live(q)' <=> Live(q) \/ q = p
    BY <2>5 DEF Live
  <2>14. OwnerInv'
    BY <1>0, <2>2, <2>6, <2>7, <2>11, <2>13 DEF OwnerInv
  <2> QED
    BY <2>8, <2>12, <2>14 DEF TQInv
<1>2. CASE AddReturns(u)
  <2>1. PICK p \in calls[u], seq \in Seqs :
          ids' = ids \cup {<<p, seq>>} /\ calls' = [calls EXCEPT ![u] = {}]
    BY <1>2 DEF AddReturns
  <2>2. UNCHANGED <<heap, numCreated, timers_, activeTimers_, armed, since, expired, called,
                    callingExpiredTimers_, pending>>
    BY <1>2 DEF AddReturns, sets, timerfd, batch
  <2>3. <<p, seq>> \in Ids
    BY <1>0, TimerAssumption DEF Ids, Seqs, TQType
  <2>4. TQType'
    BY <1>0, <2>1, <2>2, <2>3, ZenonT(30) DEF TQType
  <2> QED
    BY <1>0, <2>2, <2>4 DEF TQInv, IndexInv, OwnerInv, In, Key, Live
<1>3. CASE CancelRemote(u)
  <2>1. PICK id \in ids : pending' = Append(pending, [op |-> "cancel", id |-> id])
    BY <1>3 DEF CancelRemote
  <2>2. UNCHANGED <<heap, numCreated, timers_, activeTimers_, armed, since, expired, called,
                    callingExpiredTimers_, calls, ids>>
    BY <1>3, Zenon DEF CancelRemote, sets, timerfd, batch
  <2>3. /\ pending' \in Seq(Functors)
        /\ Adds(pending') = Adds(pending) /\ AddsDistinct(pending')
    <3> DEFINE f == [op |-> "cancel", id |-> id]
    <3>1. f \in Functors /\ ~IsAdd(f)
      BY <1>0 DEF Functors, IsAdd, TQType
    <3>2. pending \in Seq(Functors) /\ AddsDistinct(pending) /\ pending' = Append(pending, f)
      BY <1>0, <2>1 DEF TQType, OwnerInv
    <3> HIDE DEF f
    <3> QED
      BY <3>1, <3>2, AddsAppend
  <2>4. TQType'
    BY <1>0, <2>2, <2>3 DEF TQType
  <2> QED
    BY <1>0, <2>2, <2>3, <2>4 DEF TQInv, IndexInv, OwnerInv, In, Key, Live
<1> QED
  BY <1>1, <1>2, <1>3

(* addTimerInLoop or cancelInLoop, from the queue of the loop. *)
LEMMA RunPendingOwners ==
  ASSUME TQInv, RunPending
  PROVE  TQInv'
<1> DEFINE f == Head(pending)
<1>0. TQType /\ HeapType /\ IndexInv /\ OwnerInv /\ expired = {} /\ called = {}
  BY TwoTypes DEF TQInv, OwnerInv, RunPending
<1>1. /\ pending # <<>> /\ pending' = Tail(pending)
      /\ UNCHANGED <<numCreated, since, expired, called, callingExpiredTimers_, calls, ids>>
  BY DEF RunPending, batch
<1>2. /\ f \in Functors /\ pending' \in Seq(Functors) /\ AddsDistinct(pending')
      /\ IsAdd(f) => f.timer \in Adds(pending) /\ Adds(pending') = Adds(pending) \ {f.timer}
      /\ ~IsAdd(f) => Adds(pending') = Adds(pending)
  BY <1>0, <1>1, AddsTail DEF TQType, OwnerInv
<1>3. \/ IsAdd(f) /\ addTimerInLoop(f.timer, heap[f.timer]) /\ heap' = heap
      \/ f.op = "cancel" /\ cancelInLoop(f.id) /\ armed' = armed
  BY DEF RunPending, IsAdd, timerfd
<1> HIDE DEF f
<1>4. CASE IsAdd(f) /\ addTimerInLoop(f.timer, heap[f.timer]) /\ heap' = heap
  <2> DEFINE p == f.timer
  <2>1. p \in Ptrs /\ p \in Adds(pending) /\ Adds(pending') = Adds(pending) \ {p}
    BY <1>2, <1>4 DEF Functors, IsAdd
  <2>2. Live(p) /\ ~In(p)
    BY <1>0, <2>1 DEF OwnerInv
  <2>3. /\ timers_' = timers_ \cup {<<heap'[p].expiration, p>>}
        /\ activeTimers_' = activeTimers_ \cup {<<p, heap'[p].seq>>}
    BY <1>4 DEF addTimerInLoop
  <2>4. /\ <<heap'[p].expiration, p>> \in Nat \X Ptrs
        /\ <<p, heap'[p].seq>> \in Ids
        /\ heap[p].expiration \in Nat
    BY <1>0, <1>4, <2>1, <2>2 DEF TQType, Ids, Live
  <2>5. HeapType'
    BY <1>0, <1>1, <1>4, <2>3, <2>4, ZenonT(30) DEF HeapType
  <2>6. IndexInv' /\ \A q \in Ptrs : In(q)' <=> In(q) \/ q = p
    <3>1. \A q \in Ptrs : q # p => heap'[q] = heap[q]
      BY <1>4
    <3> HIDE DEF p
    <3> QED
      BY <1>0, <2>1, <2>2, <2>3, <2>5, <3>1, InsertIndexes
  <2>7. \A q \in Ptrs : Live(q)' <=> Live(q)
    BY <1>4 DEF Live
  <2>8. armed' \in Nat
    BY <1>0, <1>4, <2>1, <2>4, ArmedType
  <2>9. TQType'
    BY <1>0, <1>1, <1>2, <2>5, <2>8, SMTT(30) DEF TQType, HeapType
  <2> HIDE DEF p
  <2>10. OwnerInv'
    BY <1>0, <1>1, <1>2, <2>1, <2>2, <2>6, <2>7, Zenon DEF OwnerInv
  <2> QED
    BY <2>6, <2>9, <2>10 DEF TQInv
<1>5. CASE f.op = "cancel" /\ cancelInLoop(f.id) /\ armed' = armed
  <2> DEFINE id == f.id
  <2>1. ~IsAdd(f) /\ id \in Ids
    BY <1>2, <1>5 DEF IsAdd, Functors
  <2>2. cancelInLoop(id) /\ Adds(pending') = Adds(pending)
    BY <1>2, <1>5, <2>1
  <2> HIDE DEF id
  <2>3. /\ HeapType' /\ IndexInv' /\ (id \in activeTimers_ => In(id[1]))
        /\ \A q \in Ptrs : In(q)' <=> In(q) /\ ~(id \in activeTimers_ /\ q = id[1])
        /\ \A q \in Ptrs : Live(q)' <=> Live(q) /\ ~(id \in activeTimers_ /\ q = id[1])
    BY <1>1, <2>1, <2>2, CancelIndexes
  <2>4. OwnerInv'
    BY <1>0, <1>1, <1>2, <2>2, <2>3 DEF OwnerInv
  <2>5. TQType'
    BY <1>0, <1>1, <1>2, <1>5, <2>3 DEF TQType, HeapType
  <2> QED
    BY <2>3, <2>4, <2>5 DEF TQInv
<1> QED
  BY <1>3, <1>4, <1>5

(* AddHere sets the timerfd, CancelHere does not. *)
LEMMA CallbackArmed ==
  ASSUME TQType, HeapType', Callback
  PROVE  armed' \in Nat
<1>1. CASE AddHere
  <2>1. PICK p \in Ptrs : addTimerInLoop(p, heap'[p])
    BY <1>1 DEF AddHere
  <2>2. heap'[p].expiration \in Nat
    BY DEF HeapType
  <2> QED
    BY <2>1, <2>2, ArmedType
<1> QED
  BY <1>1 DEF Callback, CancelHere, TQType, timerfd

(* The batch goes through the callbacks of its timers. *)
LEMMA RunTimerOwners ==
  ASSUME TQInv, RunTimer
  PROVE  TQInv'
<1>0. TQType /\ OwnerInv
  BY DEF TQInv
<1>1. PICK p \in expired : expired' = expired \ {p} /\ called' = called \cup {p} /\ Callback
  BY DEF RunTimer
<1>2. UNCHANGED <<callingExpiredTimers_, since, pending, calls>>
  BY DEF RunTimer, shared
<1>3. /\ expired' \subseteq expired /\ expired' \cup called' = expired \cup called
      /\ expired' \cap called' = {}
  BY <1>0, <1>1 DEF OwnerInv
<1>4. HeapType' /\ IndexInv' /\ OwnerInv' /\ ids' \subseteq Ids
  BY <1>1, <1>2, <1>3, CallbackOwners
<1>5. armed' \in Nat
  BY <1>0, <1>1, <1>4, CallbackArmed
<1>6. TQType'
  BY <1>0, <1>1, <1>2, <1>4, <1>5, Zenon DEF TQType, HeapType
<1> QED
  BY <1>4, <1>6 DEF TQInv

(* Callbacks of other channels. *)
LEMMA OtherCallbackOwners ==
  ASSUME TQInv, OtherCallback
  PROVE  TQInv'
<1>0. TQType /\ OwnerInv /\ Callback
  BY DEF TQInv, OtherCallback, Callback
<1>1. UNCHANGED <<callingExpiredTimers_, since, expired, called, pending, calls>>
  BY DEF OtherCallback, shared, batch
<1>2. expired \cap called = {}
  BY <1>0 DEF OwnerInv
<1>3. HeapType' /\ IndexInv' /\ OwnerInv' /\ ids' \subseteq Ids
  BY <1>0, <1>1, <1>2, CallbackOwners
<1>4. armed' \in Nat
  BY <1>0, <1>3, CallbackArmed
<1>5. TQType'
  BY <1>0, <1>1, <1>3, <1>4 DEF TQType, HeapType
<1> QED
  BY <1>3, <1>5 DEF TQInv

(* Every step of the system. *)
LEMMA TQStep ==
  ASSUME TQInv, [Next]_vars
  PROVE  TQInv'
<1>1. CASE Poll \/ UNCHANGED vars
  <2>1. UNCHANGED <<heap, numCreated, timers_, activeTimers_, armed, since, expired, called,
                    callingExpiredTimers_, pending, calls, ids>>
    BY <1>1 DEF Poll, vars, sets, timerfd, batch, shared
  <2> QED
    BY <2>1 DEF TQInv, TQType, IndexInv, OwnerInv, In, Key, Live
<1> QED
  BY SMTT(30), <1>1, RunPendingOwners, HandleReadOwners, RunTimerOwners, ResetOwners, OtherCallbackOwners,
     RemoteOwners, TickOwners DEF Next, LoopStep

(* After the constructor nothing is owned. *)
LEMMA TQInitially == Init => TQInv
<1> SUFFICES ASSUME Init PROVE TQInv
  OBVIOUS
<1>1. TQType
  <2>1. heap \in [Ptrs -> [seq : Nat, expiration : Nat, interval : Nat]]
    BY DEF Init, NoTimer
  <2>2. pending \in Seq(Functors) /\ calls \in [Users -> SUBSET Ptrs]
    BY DEF Init
  <2> QED
    BY <2>1, <2>2, Zenon DEF Init, TQType
<1>2. Adds(pending) = {} /\ AddsDistinct(pending)
  BY DEF Init, Adds, AddsDistinct, Range
<1> QED
  BY <1>1, <1>2 DEF Init, TQInv, IndexInv, OwnerInv, In, Live, Key, NoTimer

(* Every Timer has exactly one owner that will delete it, and timers_ and  *)
(* activeTimers_ agree on what they own (insert, cancelInLoop, getExpired  *)
(* and reset): no order of additions, cancellations, callbacks and reads   *)
(* of the timerfd leaks one, deletes one twice or calls one after delete.  *)
THEOREM EveryTimerHasOneOwner == Spec => []OneOwner
<1>1. TQInv => OneOwner
  <2> SUFFICES ASSUME TQInv PROVE OneOwner
    OBVIOUS
  <2>0. TQType /\ IndexInv /\ OwnerInv
    BY DEF TQInv
  <2>1. \A p \in Ptrs : p \in InTimers <=> In(p)
    BY <2>0 DEF InTimers, In, IndexInv, TQType
  <2>2. InTimers \subseteq Ptrs
    BY <2>0 DEF InTimers, TQType
  <2>3. Queued = Adds(pending)
    BY DEF Queued, Adds
  <2>4. Queued \subseteq Ptrs
    <3> SUFFICES ASSUME NEW p \in Adds(pending) PROVE p \in Ptrs
      BY <2>3
    <3>1. PICK i \in 1..Len(pending) : IsAdd(pending[i]) /\ pending[i].timer = p
      BY <2>0, AddsAre DEF TQType
    <3>2. pending[i] \in Functors
      BY <2>0 DEF TQType
    <3> QED
      BY <3>1, <3>2 DEF Functors, IsAdd
  <2>5. timers_ = {<<heap[p].expiration, p>> : p \in InTimers}
    BY <2>0, <2>1, <2>2 DEF IndexInv, In, InTimers
  <2>6. activeTimers_ = {Key(p) : p \in InTimers}
    <3>1. \A a \in activeTimers_ : a[1] \in Ptrs /\ a = Key(a[1])
      BY <2>0 DEF TQType, IndexInv, Ids
    <3>2. \A a \in activeTimers_ : a[1] \in InTimers
      BY <2>0, <2>1, <3>1 DEF IndexInv
    <3> QED
      BY <2>0, <2>1, <2>2, <3>1, <3>2 DEF IndexInv
  <2>7. \A p \in InTimers : Live(p)
    BY <2>0, <2>1, <2>2 DEF OwnerInv
  <2>8. {p \in Ptrs : Live(p)} = InTimers \cup InBatch \cup Queued
    BY <2>0, <2>1, <2>2, <2>3, <2>4 DEF OwnerInv, InBatch, TQType
  <2>9. /\ InTimers \cap InBatch = {} /\ InTimers \cap Queued = {} /\ InBatch \cap Queued = {}
        /\ expired \cap called = {}
    BY <2>0, <2>1, <2>2, <2>3, SMTT(30) DEF OwnerInv, InBatch
  <2> QED
    BY <2>5, <2>6, <2>7, <2>8, <2>9 DEF OneOwner, IndexesAgree
<1> QED
  BY <1>1, TQInitially, TQStep, PTL DEF Spec

-----------------------------------------------------------------------------
(* Sequence numbers are not used twice, and a timer that was cancelled and *)
(* still exists is in the batch, noted for reset.                          *)
CancelInv ==
  /\ \A p \in Ptrs : heap[p].seq <= numCreated
  /\ \A p, q \in Ptrs : Live(p) /\ heap[p].seq = heap[q].seq => p = q
  /\ \A c \in cancelled : c \in Nat /\ c <= numCreated
  /\ \A p \in Ptrs : Live(p) /\ heap[p].seq \in cancelled =>
       (p \in expired \/ p \in called) /\ Key(p) \in cancelingTimers_

ArmInv ==
  ~callingExpiredTimers_ /\ timers_ # {} =>
    readable \/ active \/ (armed >= 1 /\ \A e \in timers_ : armed <= ArmFor(e[1]))

-----------------------------------------------------------------------------
(* Steps that leave the sequence numbers and what is cancelled alone. *)
LEMMA CancelSame ==
  ASSUME CancelInv, TQType, \A p \in Ptrs : heap'[p].seq = heap[p].seq,
         UNCHANGED <<numCreated, cancelled, cancelingTimers_>>,
         expired' \cup called' = expired \cup called
  PROVE  CancelInv'
<1>1. \A p : p \in expired' \/ p \in called' <=> p \in expired \/ p \in called
  OBVIOUS
<1>2. \A p \in Ptrs : (Live(p)' <=> Live(p)) /\ Key(p)' = Key(p)
  BY DEF Live, Key
<1> QED
  BY <1>1, <1>2 DEF CancelInv

(* A new timer has a sequence number that was never cancelled. *)
LEMMA CancelNew ==
  ASSUME CancelInv, TQType, NEW p \in Ptrs, NEW delay \in Delays, NEW interval,
         NewTimer(p, delay, interval), UNCHANGED <<cancelled, cancelingTimers_>>,
         expired' \cup called' = expired \cup called
  PROVE  CancelInv'
<1>1. \A q : q \in expired' \/ q \in called' <=> q \in expired \/ q \in called
  OBVIOUS
<1>2. /\ heap'[p].seq = numCreated + 1 /\ numCreated' = numCreated + 1 /\ numCreated \in Nat
      /\ \A q \in Ptrs : q # p => heap'[q] = heap[q]
  BY DEF NewTimer, TQType
<1>3. \A q \in Ptrs : heap[q].seq \in Nat /\ heap[q].seq <= numCreated
  BY SMTT(30) DEF CancelInv, TQType
<1>4. \A c \in cancelled : c \in Nat /\ c <= numCreated
  BY Zenon DEF CancelInv
<1>5. heap'[p].seq \notin cancelled
  BY <1>2, <1>4
<1>6. \A q \in Ptrs : heap'[q].seq <= numCreated'
  BY <1>2, <1>3
<1>7. \A c \in cancelled' : c \in Nat /\ c <= numCreated'
  BY <1>2, <1>4
<1>8. ASSUME NEW q \in Ptrs, NEW r \in Ptrs, heap'[q].seq # 0, heap'[q].seq = heap'[r].seq
      PROVE  q = r
  BY <1>2, <1>3, <1>8 DEF CancelInv, Live
<1>9. \A q \in Ptrs : q # p => (Live(q)' <=> Live(q)) /\ Key(q)' = Key(q)
  BY <1>2 DEF Live, Key
<1>10. ASSUME NEW q \in Ptrs, Live(q)', heap'[q].seq \in cancelled'
       PROVE  (q \in expired' \/ q \in called') /\ Key(q)' \in cancelingTimers_'
  BY <1>1, <1>2, <1>5, <1>9, <1>10 DEF CancelInv
<1> QED
  BY <1>6, <1>7, <1>8, <1>10 DEF CancelInv, Live

(* cancelInLoop deletes the timer, or notes it for reset: a timer that was *)
(* added and is in neither set is in the batch.                            *)
LEMMA CancelCancels ==
  ASSUME CancelInv, TQInv, NEW id \in Ids, cancelInLoop(id), numCreated' = numCreated,
         expired' \cup called' = expired \cup called
  PROVE  CancelInv'
<1> DEFINE p == id[1]
<1>0. TQType /\ IndexInv /\ OwnerInv /\ p \in Ptrs /\ id = <<p, id[2]>> /\ id[2] \in Nat \ {0}
  BY DEF TQInv, Ids
<1>1. \A q : q \in expired' \/ q \in called' <=> q \in expired \/ q \in called
  OBVIOUS
<1>2. cancelled' = (IF Added(id) THEN cancelled \cup {id[2]} ELSE cancelled)
  BY DEF cancelInLoop
<1>3. Added(id) => heap[p].seq = id[2] /\ Live(p) /\ Key(p) = id
  BY <1>0 DEF Added, Live, Key
<1>4. \A c \in cancelled' : c \in Nat /\ c <= numCreated'
  BY <1>0, <1>2, <1>3 DEF CancelInv
<1>5. \A q \in Ptrs : heap'[q] = heap[q] \/ heap'[q].seq = 0
  BY <1>0 DEF cancelInLoop, NoTimer, TQType
<1>6. \A q \in Ptrs : heap'[q].seq <= numCreated'
  <2>1. numCreated' = numCreated /\ 0 <= numCreated
        /\ \A q \in Ptrs : heap[q].seq <= numCreated
    BY <1>0 DEF CancelInv, TQType
  <2> QED
    BY <1>5, <2>1
<1>7. ASSUME NEW q \in Ptrs, NEW r \in Ptrs, heap'[q].seq # 0, heap'[q].seq = heap'[r].seq
      PROVE  q = r
  BY <1>5, <1>7 DEF CancelInv, Live
<1>8. ASSUME NEW q \in Ptrs, heap'[q].seq # 0, heap'[q].seq \in cancelled'
      PROVE  (q \in expired' \/ q \in called') /\ Key(q)' \in cancelingTimers_'
  <2>1. heap'[q] = heap[q] /\ Live(q) /\ Key(q)' = Key(q)
    BY <1>5, <1>8 DEF Live, Key
  <2>2. cancelingTimers_ \subseteq cancelingTimers_'
    BY DEF cancelInLoop
  <2>3. CASE heap[q].seq \in cancelled
    BY <1>1, <2>1, <2>2, <2>3 DEF CancelInv
  <2>4. CASE heap[q].seq \notin cancelled
    <3>1. Added(id) /\ heap[q].seq = id[2]
      BY <1>2, <1>8, <2>1, <2>4
    <3>2. q = p
      BY <1>0, <1>3, <2>1, <3>1 DEF CancelInv
    <3>3. id \notin activeTimers_
      BY <1>0, <1>8, <3>2 DEF cancelInLoop, NoTimer, TQType
    <3>4. ~In(p)
      BY <1>0, <1>3, <3>1, <3>3 DEF IndexInv
    <3>5. p \notin Adds(pending)
      <4> SUFFICES ASSUME p \in Adds(pending) PROVE FALSE
        OBVIOUS
      <4>1. PICK f \in Range(pending) : f.op = "add" /\ f.timer = p
        BY DEF Adds
      <4>2. f \in Functors
        BY <1>0 DEF TQType, Range
      <4>3. f = [op |-> "add", timer |-> p]
        BY <4>1, <4>2 DEF Functors
      <4> QED
        BY <3>1, <4>1, <4>3 DEF Added
    <3>6. p \in expired \/ p \in called
      BY <1>0, <1>3, <3>1, <3>4, <3>5 DEF OwnerInv
    <3>7. callingExpiredTimers_
      BY <1>0, <3>6 DEF OwnerInv
    <3>8. id \in cancelingTimers_'
      BY <3>3, <3>7 DEF cancelInLoop, NotedForReset
    <3> QED
      BY <1>1, <1>3, <2>1, <3>1, <3>2, <3>6, <3>8
  <2> QED
    BY <2>3, <2>4
<1> QED
  BY <1>4, <1>6, <1>7, <1>8 DEF CancelInv, Live

(* A callback that adds or cancels timers. *)
LEMMA CancelCallback ==
  ASSUME CancelInv, TQInv, Callback, expired' \cup called' = expired \cup called
  PROVE  CancelInv'
<1>0. TQType /\ ids \subseteq Ids
  BY DEF TQInv, TQType
<1>1. CASE AddHere
  <2>1. PICK p \in Ptrs, delay \in Delays, interval \in {0, MaxDelay} :
          NewTimer(p, delay, interval)
    BY <1>1 DEF AddHere
  <2>2. UNCHANGED <<cancelled, cancelingTimers_>>
    BY <1>1 DEF AddHere
  <2> QED
    BY <1>0, <2>1, <2>2, CancelNew
<1>2. CASE CancelHere
  <2>1. PICK id \in ids : cancelInLoop(id) /\ numCreated' = numCreated
    BY <1>2 DEF CancelHere
  <2> QED
    BY <1>0, <2>1, CancelCancels
<1>3. CASE UNCHANGED <<heap, numCreated, sets, timerfd, ids, cancelingTimers_, cancelled>>
  BY <1>0, <1>3, CancelSame
<1> QED
  BY <1>1, <1>2, <1>3 DEF Callback

(* reset restarts none that was cancelled; they are all in the batch. *)
LEMMA CancelReset ==
  ASSUME CancelInv, TQInv, Reset
  PROVE  CancelInv'
<1>0. TQType /\ OwnerInv /\ expired = {} /\ called \subseteq Ptrs
  BY DEF TQInv, TQType, Reset
<1>1. /\ heap' = [p \in Ptrs |-> IF p \in called THEN AfterReset(p) ELSE heap[p]]
      /\ UNCHANGED <<numCreated, cancelled>>
  BY DEF Reset
<1>2. \A p \in Ptrs : Restarted(p).seq = heap[p].seq
  <2> TAKE p \in Ptrs
  <2>1. heap[p] \in [seq : Nat, expiration : Nat, interval : Nat]
    BY <1>0 DEF TQType
  <2> QED
    BY <2>1 DEF Restarted
<1>3. \A p \in Ptrs : \/ heap'[p].seq = 0
                      \/ heap'[p].seq = heap[p].seq /\ (p \in called => Restarts(p))
  BY <1>1, <1>2 DEF AfterReset, NoTimer
<1>4. ASSUME NEW p \in Ptrs, heap'[p].seq # 0, heap'[p].seq \in cancelled'
      PROVE  FALSE
  <2>1. heap'[p].seq = heap[p].seq /\ (p \in called => Restarts(p)) /\ Live(p)
    BY <1>3, <1>4, SMTT(30) DEF Live
  <2>2. p \in called /\ Key(p) \in cancelingTimers_
    BY <1>0, <1>1, <1>4, <2>1 DEF CancelInv
  <2> QED
    BY <2>1, <2>2 DEF Restarts
<1>5. \A p \in Ptrs : heap'[p].seq <= numCreated'
  <2>1. numCreated' = numCreated /\ 0 <= numCreated
        /\ \A p \in Ptrs : heap[p].seq <= numCreated
    BY <1>0, <1>1 DEF CancelInv, TQType
  <2> QED
    BY <1>3, <2>1
<1>6. ASSUME NEW p \in Ptrs, NEW q \in Ptrs, heap'[p].seq # 0, heap'[p].seq = heap'[q].seq
      PROVE  p = q
  BY <1>3, <1>6 DEF CancelInv, Live
<1> QED
  BY <1>1, <1>4, <1>5, <1>6, SMTT(30) DEF CancelInv, Live

(* Every step of the system. *)
LEMMA CancelStep ==
  ASSUME CancelInv, TQInv, [Next]_vars
  PROVE  CancelInv'
<1>0. TQType /\ OwnerInv /\ ids \subseteq Ids
  BY SMTT(30) DEF TQInv, TQType
<1>1. CASE HandleRead
  <2>1. UNCHANGED <<heap, numCreated, cancelled>> /\ expired = {} /\ called = {}
    BY <1>0, <1>1, ZenonT(30) DEF HandleRead, OwnerInv
  <2>2. \A p \in Ptrs : ~(Live(p) /\ heap[p].seq \in cancelled)
    BY <2>1 DEF CancelInv
  <2> QED
    BY <2>1, <2>2, SMTT(30) DEF CancelInv, Live
<1>2. CASE RunTimer
  <2>1. PICK p \in expired : expired' = expired \ {p} /\ called' = called \cup {p} /\ Callback
    BY <1>2 DEF RunTimer
  <2>2. expired' \cup called' = expired \cup called
    BY <2>1
  <2> QED
    BY <2>1, <2>2, CancelCallback
<1>3. CASE OtherCallback
  <2>1. Callback /\ UNCHANGED <<expired, called>>
    BY <1>3 DEF OtherCallback, Callback, batch
  <2> QED
    BY <2>1, CancelCallback
<1>4. CASE RunPending
  <2>1. pending # <<>> /\ UNCHANGED <<numCreated, expired, called>>
    BY <1>4 DEF RunPending, batch
  <2>2. Head(pending) \in Functors
    BY <1>0, <2>1, AddsTail DEF TQType, OwnerInv
  <2>3. \/ UNCHANGED <<heap, cancelingTimers_, cancelled>>
        \/ Head(pending).op = "cancel" /\ cancelInLoop(Head(pending).id)
    BY <1>4 DEF RunPending
  <2>4. Head(pending).op = "cancel" => Head(pending).id \in Ids
    BY <2>2 DEF Functors
  <2> QED
    BY <1>0, <2>1, <2>3, <2>4, CancelSame, CancelCancels, SMTT(30)
<1>5. ASSUME NEW u \in Users, AddRemote(u)
      PROVE  CancelInv'
  <2>1. PICK p \in Ptrs, delay \in Delays, interval \in {0, MaxDelay} :
          NewTimer(p, delay, interval)
    BY <1>5 DEF AddRemote
  <2>2. UNCHANGED <<cancelled, cancelingTimers_, expired, called>>
    BY <1>5 DEF AddRemote, batch
  <2> QED
    BY <1>0, <2>1, <2>2, CancelNew
<1>6. CASE Tick
  <2>1. \A p \in Ptrs : heap[p] \in [seq : Nat, expiration : Nat, interval : Nat]
    BY <1>0 DEF TQType
  <2>2. \A p \in Ptrs : heap'[p].seq = heap[p].seq
    BY <1>6, <2>1 DEF Tick
  <2>3. UNCHANGED <<numCreated, cancelled, cancelingTimers_, expired, called>>
    BY <1>6 DEF Tick
  <2> QED
    BY <1>0, <2>2, <2>3, CancelSame
<1>7. ASSUME Poll \/ UNCHANGED vars \/ \E u \in Users : AddReturns(u) \/ CancelRemote(u)
      PROVE  CancelInv'
  <2>1. UNCHANGED <<heap, numCreated, cancelled, cancelingTimers_, expired, called>>
    BY <1>7, Zenon DEF Poll, vars, AddReturns, CancelRemote, batch
  <2> QED
    BY <1>0, <2>1, CancelSame, SMTT(30)
<1> QED
  BY <1>1, <1>2, <1>3, <1>4, <1>5, <1>6, <1>7, CancelReset DEF Next, LoopStep

(* A cancelled timer is never in the queue again after the batch in which  *)
(* it was cancelled: cancelInLoop deletes it or notes it for reset, which  *)
(* then deletes it (Restarts).  This rests on s_numCreated_ never giving a *)
(* sequence number twice, for addresses are reused.                        *)
THEOREM CancelledTimerStaysOut == Spec => []CancelledStaysOut
<1>1. Init => CancelInv
  BY DEF Init, CancelInv, NoTimer, Live
<1>2. TQInv /\ CancelInv => CancelledStaysOut
  <2> SUFFICES ASSUME TQInv, CancelInv, ~callingExpiredTimers_, NEW k \in activeTimers_,
                      k[2] \in cancelled
               PROVE  FALSE
    BY DEF CancelledStaysOut
  <2>1. k[1] \in Ptrs /\ k = Key(k[1]) /\ k[2] # 0 /\ expired = {} /\ called = {}
    BY DEF TQInv, TQType, IndexInv, OwnerInv, Ids
  <2>2. k[2] = heap[k[1]].seq
    BY <2>1 DEF Key
  <2> QED
    BY <2>1, <2>2 DEF CancelInv, Live
<1> QED
  BY <1>1, <1>2, TQInitially, TQStep, CancelStep, PTL DEF Spec

-----------------------------------------------------------------------------
(* resetTimerfd for the earliest of the entries serves them all. *)
LEMMA ArmForIsMonotonic ==
  ASSUME NEW t \in Nat, NEW r \in Nat, t <= r
  PROVE  ArmFor(t) \in Nat /\ ArmFor(t) >= 1 /\ ArmFor(t) <= ArmFor(r)
BY DEF ArmFor

(* insert says whether the new timer is the earliest, and only then is the *)
(* timerfd set again.                                                      *)
LEMMA ArmInsert ==
  ASSUME ArmInv, TQType, NEW p \in Ptrs, NEW tm, tm.expiration \in Nat,
         addTimerInLoop(p, tm), UNCHANGED <<callingExpiredTimers_, active>>
  PROVE  ArmInv'
<1> DEFINE t == tm.expiration
<1>1. timers_' = timers_ \cup {<<t, p>>} /\ timers_ \subseteq Nat \X Ptrs /\ t \in Nat
      /\ armed \in Nat
  BY DEF addTimerInLoop, TQType
<1>2. CASE EarliestChanged(t)
  <2>1. armed' = ArmFor(t)
    BY <1>2 DEF addTimerInLoop, resetTimerfd
  <2>2. \A e \in timers_ : e[1] \in Nat /\ t <= e[1]
    <3>1. CASE timers_ = {}
      BY <3>1
    <3>2. CASE timers_ # {}
      <4>1. /\ Earliest(timers_) \in Nat /\ t < Earliest(timers_)
            /\ \A e \in timers_ : e[1] \in Nat /\ Earliest(timers_) <= e[1]
        BY <1>1, <1>2, <3>2, EarliestIsLeast DEF EarliestChanged
      <4> HIDE DEF t
      <4> QED
        BY <1>1, <4>1
    <3> QED
      BY <3>1, <3>2
  <2>3. \A e \in timers_' : e[1] \in Nat /\ t <= e[1]
    BY <1>1, <2>2
  <2> QED
    BY <1>1, <2>1, <2>3, ArmForIsMonotonic DEF ArmInv
<1>3. CASE ~EarliestChanged(t)
  <2>1. UNCHANGED <<armed, readable>> /\ timers_ # {}
    BY <1>3 DEF addTimerInLoop, EarliestChanged, timerfd
  <2>2. PICK e \in timers_ : e[1] \in Nat /\ e[1] <= t
    BY <1>1, <1>3, <2>1, EarliestIsLeast DEF EarliestChanged
  <2>3. ArmFor(e[1]) <= ArmFor(t) /\ ArmFor(e[1]) \in Nat /\ ArmFor(t) \in Nat
    BY <1>1, <2>2, ArmForIsMonotonic
  <2>4. armed <= ArmFor(e[1]) => armed <= ArmFor(t)
    BY <1>1, <2>3
  <2> QED
    BY <1>1, <2>1, <2>2, <2>4 DEF ArmInv
<1> QED
  BY <1>2, <1>3

(* cancelInLoop takes entries out and leaves the timerfd. *)
LEMMA ArmCancel ==
  ASSUME ArmInv, NEW id, cancelInLoop(id),
         UNCHANGED <<callingExpiredTimers_, active, armed, readable>>
  PROVE  ArmInv'
<1>1. timers_' \subseteq timers_
  BY DEF cancelInLoop, TimersWithout, sets
<1> QED
  BY <1>1 DEF ArmInv

(* Every step of the system. *)
LEMMA ArmStep ==
  ASSUME ArmInv, TQInv, TQInv', [Next]_vars
  PROVE  ArmInv'
<1>0. TQType /\ OwnerInv /\ TQType'
  BY DEF TQInv
<1>1. CASE Poll \/ HandleRead
  BY <1>1 DEF Poll, HandleRead, ArmInv
<1>2. CASE RunTimer
  <2>1. callingExpiredTimers_' = callingExpiredTimers_ /\ expired # {}
    BY <1>2 DEF RunTimer
  <2> QED
    BY <1>0, <2>1 DEF OwnerInv, ArmInv
<1>3. CASE OtherCallback
  <2>1. UNCHANGED <<callingExpiredTimers_, active>>
    BY <1>3 DEF OtherCallback, batch
  <2>2. CASE AddHere
    <3>1. PICK p \in Ptrs : addTimerInLoop(p, heap'[p])
      BY <2>2 DEF AddHere
    <3>2. heap'[p].expiration \in Nat
      BY <1>0 DEF TQType
    <3> QED
      BY <1>0, <2>1, <3>1, <3>2, ArmInsert
  <2>3. CASE CancelHere
    <3>1. PICK id \in ids : cancelInLoop(id) /\ UNCHANGED <<armed, readable>>
      BY <2>3 DEF CancelHere, timerfd
    <3> QED
      BY <2>1, <3>1, ArmCancel
  <2> QED
    BY <1>3, <2>2, <2>3 DEF OtherCallback
<1>4. CASE RunPending
  <2> DEFINE f == Head(pending)
  <2>1. UNCHANGED <<callingExpiredTimers_, active>> /\ pending # <<>>
    BY <1>4 DEF RunPending, batch
  <2>2. f \in Functors
    BY <1>0, <2>1, AddsTail DEF TQType, OwnerInv
  <2>3. CASE f.op = "add" /\ addTimerInLoop(f.timer, heap[f.timer])
    <3>1. f.timer \in Ptrs
      BY <2>2, <2>3 DEF Functors
    <3>2. heap[f.timer].expiration \in Nat
      BY <1>0, <3>1 DEF TQType
    <3> QED
      BY <1>0, <2>1, <2>3, <3>1, <3>2, ArmInsert
  <2>4. CASE cancelInLoop(f.id) /\ UNCHANGED <<armed, readable>>
    BY <2>1, <2>4, ArmCancel
  <2> QED
    BY <1>4, <2>3, <2>4 DEF RunPending, timerfd
<1>5. CASE Reset
  <2>1. CASE timers_' = {}
    BY <2>1 DEF ArmInv
  <2>2. CASE timers_' # {}
    <3>1. armed' = ArmFor(Earliest(timers_'))
      BY <1>5, <2>2 DEF Reset, resetTimerfd
    <3>2. /\ Earliest(timers_') \in Nat
          /\ \A e \in timers_' : e[1] \in Nat /\ Earliest(timers_') <= e[1]
      BY <1>0, <2>2, EarliestIsLeast, Zenon DEF TQType
    <3> QED
      BY <3>1, <3>2, ArmForIsMonotonic DEF ArmInv
  <2> QED
    BY <2>1, <2>2
<1>6. CASE Tick
  <2>1. /\ timers_' = {<<Nearer(e[1]), e[2]>> : e \in timers_}
        /\ armed' = Nearer(armed) /\ readable' = (readable \/ armed = 1)
        /\ UNCHANGED <<active, callingExpiredTimers_>>
    BY <1>6 DEF Tick
  <2> SUFFICES ASSUME ~callingExpiredTimers_, timers_ # {}, ~readable, ~active, armed # 1
               PROVE  armed' >= 1 /\ \A e \in timers_' : armed' <= ArmFor(e[1])
    BY <2>1, Zenon DEF ArmInv
  <2>2. armed \in Nat /\ armed >= 2 /\ \A e \in timers_ : armed <= ArmFor(e[1]) /\ e[1] \in Nat
    <3>1. armed >= 1 /\ \A e \in timers_ : armed <= ArmFor(e[1])
      BY DEF ArmInv
    <3>2. armed \in Nat /\ \A e \in timers_ : e[1] \in Nat
      BY <1>0 DEF TQType
    <3> QED
      BY <3>1, <3>2
  <2>3. armed' = armed - 1
    BY <2>1, <2>2 DEF Nearer
  <2>4. \A e \in timers_ : armed - 1 <= ArmFor(Nearer(e[1]))
    BY <2>2 DEF ArmFor, Nearer
  <2> QED
    BY <2>1, <2>2, <2>3, <2>4
<1>7. ASSUME UNCHANGED vars \/ \E u \in Users : AddRemote(u) \/ AddReturns(u) \/ CancelRemote(u)
      PROVE  ArmInv'
  <2>1. UNCHANGED <<timers_, armed, readable, active, callingExpiredTimers_>>
    BY <1>7, Zenon DEF vars, AddRemote, AddReturns, CancelRemote, sets, timerfd, batch
  <2> QED
    BY <2>1, SMTT(30) DEF ArmInv
<1> QED
  BY <1>1, <1>2, <1>3, <1>4, <1>5, <1>6, <1>7 DEF Next, LoopStep

(* The timerfd goes off in time for the earliest timer, in whatever order  *)
(* insert, cancelInLoop, handleRead and reset come: outside handleRead a   *)
(* timer in timers_ means that the timerfd has fired, or is set for that   *)
(* timer or sooner.                                                        *)
THEOREM TimerfdServesEarliest == Spec => []ArmedForEarliest
<1>1. Init => ArmInv
  BY DEF Init, ArmInv
<1>2. TQInv /\ ArmInv => ArmedForEarliest
  <2> SUFFICES ASSUME TQInv, ArmInv, ~callingExpiredTimers_, timers_ # {}, ~readable, ~active
               PROVE  armed \in 1..ArmFor(Earliest(timers_))
    BY DEF ArmedForEarliest
  <2>1. armed \in Nat /\ timers_ \subseteq Nat \X Ptrs
    BY DEF TQInv, TQType
  <2>2. PICK e \in timers_ : e[1] = Earliest(timers_) /\ Earliest(timers_) \in Nat
    BY <2>1, EarliestIsLeast
  <2>3. armed >= 1 /\ armed <= ArmFor(Earliest(timers_))
    BY <2>2 DEF ArmInv
  <2>4. ArmFor(Earliest(timers_)) \in Nat
    BY <2>2, ArmForIsMonotonic
  <2> QED
    BY <2>1, <2>3, <2>4
<1>3. TQInv /\ TQInv' /\ ArmInv /\ [Next]_vars => ArmInv'
  BY ArmStep
<1> QED
  BY <1>1, <1>2, <1>3, TQInitially, TQStep, PTL DEF Spec
=============================================================================
