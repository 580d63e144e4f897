-------------------------- MODULE ThreadingProofs --------------------------
(***************************************************************************)
(* The safety of the threading layer for every finite set of threads,      *)
(* number of cycles, tasks, readers, room, clients and workers.  Every     *)
(* component has an inductive invariant of its own: those of ThreadBarrier *)
(* and FiberTaskQueue are here, the others in RecentChannelProofs and      *)
(* ServiceProofs.                                                          *)
(***************************************************************************)
EXTENDS MCThreading, FiniteSetTheorems, SequenceTheorems, TLAPS

(* ThreadBarrier.  The invariant places every thread relative to the cycle   *)
(* in progress: it waits in it, has not come to it yet, or has still to      *)
(* leave the one before; and current_ counts those that have not come.       *)
Inside(t) ==
  /\ arrived[t] = met + 1 /\ passed[t] = met
  /\ pc[t] \in {"waiting", "awake"}
  /\ cycle[t] = cycle_

Outside(t) == arrived[t] = met /\ passed[t] = met /\ pc[t] = "out"

Leaving(t) ==
  /\ arrived[t] = met /\ passed[t] + 1 = met
  /\ \/ pc[t] = "notify"
     \/ pc[t] \in {"waiting", "awake"} /\ cycle[t] # cycle_

Missing == {t \in Threads : arrived[t] = met}

Placed == \A t \in Threads : Inside(t) \/ Outside(t) \/ Leaving(t)

Types ==
  /\ current_ \in Nat /\ cycle_ \in BOOLEAN
  /\ pc \in [Threads -> {"out", "notify", "waiting", "awake"}]
  /\ cycle \in [Threads -> BOOLEAN]
  /\ arrived \in [Threads -> Nat] /\ passed \in [Threads -> Nat]
  /\ met \in Nat

Counted == current_ = Cardinality(Missing) /\ Missing # {}

Inv == Types /\ Placed /\ Counted

(* The number of threads is positive: thread_barrier asserts 0 != initial. *)
LEMMA InitialPositive == initial_ \in Nat \ {0}
<1>1. Cardinality(Threads) \in Nat
  BY BarrierAssumption, FS_CardinalityType, Zenon
<1>2. Cardinality(Threads) # 0
  BY BarrierAssumption, FS_EmptySet, Zenon
<1> QED BY <1>1, <1>2, Zenon DEF initial_

(* A subset of the threads can be counted. *)
LEMMA MissingFinite ==
  /\ IsFiniteSet(Missing) /\ Cardinality(Missing) \in Nat
  /\ Cardinality(Missing) <= initial_
  /\ Missing # {} => Cardinality(Missing) # 0
<1>1. Missing \subseteq Threads
  BY Zenon DEF Missing
<1>2. IsFiniteSet(Missing) /\ Cardinality(Missing) <= Cardinality(Threads)
  BY <1>1, BarrierAssumption, FS_Subset, Zenon
<1>3. Cardinality(Missing) \in Nat
  BY <1>2, FS_CardinalityType, Zenon
<1>4. Missing # {} => Cardinality(Missing) # 0
  BY <1>2, FS_EmptySet, Zenon
<1> QED BY <1>2, <1>3, <1>4, Zenon DEF initial_

(* A new barrier has nobody inside and misses all. *)
LEMMA InitInv == Init => Inv
<1> SUFFICES ASSUME Init PROVE Inv
  BY Zenon
<1>1. Types
  BY InitialPositive, Zenon DEF Init, Types
<1>2. Placed
  BY Zenon DEF Init, Placed, Outside
<1>3. Missing = Threads
  BY Zenon DEF Init, Missing
<1>4. Counted
  BY <1>3, BarrierAssumption, Zenon DEF Counted, Init, initial_
<1> QED BY <1>1, <1>2, <1>4, Zenon DEF Inv

(* Only a thread that current_ still counts enters wait; it is no longer     *)
(* counted afterwards, and nobody is left to count if it was the last one.   *)
LEMMA EnterOutside ==
  ASSUME Inv, NEW t \in Threads, Enter(t)
  PROVE  /\ Outside(t) /\ t \in Missing
         /\ Cardinality(Missing \ {t}) = current_ - 1
         /\ current_ = 1 => Missing = {t}
<1>1. Outside(t)
  BY Zenon DEF Inv, Placed, Inside, Leaving, Enter
<1>2. t \in Missing
  BY <1>1, Zenon DEF Outside, Missing
<1>3. Cardinality(Missing \ {t}) = Cardinality(Missing) - 1 /\ IsFiniteSet(Missing \ {t})
  BY <1>2, MissingFinite, FS_RemoveElement, Zenon
<1>4. Cardinality(Missing \ {t}) = current_ - 1
  BY <1>3, Zenon DEF Inv, Counted
<1>5. ASSUME current_ = 1 PROVE Missing = {t}
  <2>1. Cardinality(Missing \ {t}) = 0
    BY <1>4, <1>5, SMTT(30)
  <2>2. Missing \ {t} = {}
    BY <1>3, <2>1, FS_EmptySet, Zenon
  <2> QED BY <2>2, <1>2, Zenon
<1> QED BY <1>1, <1>2, <1>4, <1>5, SMTT(30)

(* The last thread makes everybody a leaving thread of the cycle it closes. *)
LEMMA ArriveLastInv ==
  ASSUME Inv, NEW t \in Threads, ArriveLast(t)
  PROVE  Inv'
<1> USE DEF Types
<1>0. Enter(t) /\ Types /\ Placed /\ Counted /\ current_ = 1
  BY Zenon DEF ArriveLast, Inv
<1>1. Outside(t) /\ Missing = {t}
  BY <1>0, EnterOutside, Zenon
<1>2. ASSUME NEW u \in Threads, u # t PROVE Inside(u)
  BY <1>0, <1>1, <1>2, SMTT(30) DEF Missing, Placed, Outside, Leaving
<1>3. Types'
  <2>1. cycle_' \in BOOLEAN /\ cycle' \in [Threads -> BOOLEAN]
    BY <1>0, Zenon DEF ArriveLast, Enter
  <2> QED BY <1>0, <2>1, InitialPositive, SMTT(30) DEF ArriveLast, Enter
<1>4. ASSUME NEW u \in Threads PROVE Leaving(u)'
  <2>1. CASE u = t
    BY <1>0, <1>1, <2>1, SMTT(30) DEF ArriveLast, Enter, Leaving, Outside
  <2>2. CASE u # t
    <3>1. cycle'[u] = cycle_ /\ cycle_' = ~cycle_ /\ cycle_ \in BOOLEAN
      BY <1>0, <1>2, <2>2, SMTT(30) DEF ArriveLast, Enter, Inside
    <3>2. cycle'[u] # cycle_'
      BY <3>1, Zenon
    <3>3. arrived'[u] = met' /\ passed'[u] + 1 = met' /\ pc'[u] \in {"waiting", "awake"}
      BY <1>0, <1>2, <2>2, SMTT(30) DEF ArriveLast, Enter, Inside
    <3> QED BY <3>2, <3>3, Zenon DEF Leaving
  <2> QED BY <2>1, <2>2, SMTT(30)
<1>5. Missing' = Threads
  BY <1>4, Zenon DEF Missing, Leaving
<1>6. Counted'
  BY <1>0, <1>5, BarrierAssumption, Zenon DEF Counted, ArriveLast, initial_
<1>7. Placed'
  BY <1>4, Zenon DEF Placed
<1> QED BY <1>3, <1>6, <1>7, Zenon DEF Inv

(* Any other thread leaves current_ by one and waits in the cycle. *)
LEMMA ArriveEarlyInv ==
  ASSUME Inv, NEW t \in Threads, ArriveEarly(t)
  PROVE  Inv'
<1> USE DEF Types
<1>0. Enter(t) /\ Types /\ Placed /\ Counted /\ current_ # 1
  BY Zenon DEF ArriveEarly, Inv
<1>1. Outside(t) /\ t \in Missing /\ Cardinality(Missing \ {t}) = current_ - 1
  BY <1>0, EnterOutside, Zenon
<1>2. Cardinality(Missing) \in Nat \ {0} /\ current_ = Cardinality(Missing)
  BY <1>0, MissingFinite, Zenon DEF Counted
<1>3. Types'
  <2>1. cycle_' \in BOOLEAN /\ cycle' \in [Threads -> BOOLEAN]
    BY <1>0, Zenon DEF ArriveEarly, Enter
  <2> QED BY <1>0, <1>2, <2>1, SMTT(30) DEF ArriveEarly, Enter
<1>4. Missing' = Missing \ {t}
  BY <1>0, <1>1, SMTT(30) DEF Missing, ArriveEarly, Enter, Outside
<1>5. Missing' # {}
  <2>1. Cardinality(Missing \ {t}) # 0
    BY <1>0, <1>1, <1>2, SMTT(30)
  <2> QED BY <1>4, <2>1, FS_EmptySet, SMTT(30)
<1>6. Counted'
  BY <1>0, <1>1, <1>4, <1>5, SMTT(30) DEF Counted, ArriveEarly
<1>7. ASSUME NEW u \in Threads PROVE (Inside(u) \/ Outside(u) \/ Leaving(u))'
  <2>1. CASE u = t
    <3>1. cycle'[t] = cycle_'
      BY <1>0, Zenon DEF ArriveEarly, Enter
    <3> QED BY <1>0, <1>1, <2>1, <3>1, SMTT(30) DEF ArriveEarly, Enter, Inside, Outside
  <2>2. CASE u # t
    <3>1. /\ arrived'[u] = arrived[u] /\ passed'[u] = passed[u] /\ pc'[u] = pc[u]
          /\ cycle'[u] = cycle[u] /\ cycle_' = cycle_ /\ met' = met
      BY <1>0, <2>2, Zenon DEF ArriveEarly, Enter
    <3> QED BY <1>0, <3>1, Zenon DEF Placed, Inside, Outside, Leaving
  <2> QED BY <2>1, <2>2, Zenon
<1>8. Placed'
  BY <1>7, Zenon DEF Placed
<1> QED BY <1>3, <1>6, <1>8, Zenon DEF Inv

(* The steps after mtx_ was released change neither the counter nor the      *)
(* cycle, and a thread returns only from a cycle that is over.               *)
LEMMA LeaveInv ==
  ASSUME Inv, NEW t \in Threads, NotifyAll(t) \/ Spurious(t) \/ Recheck(t)
  PROVE  Inv'
<1> USE DEF Types
<1>0. Types /\ Placed /\ Counted
  BY Zenon DEF Inv
<1>1. UNCHANGED <<current_, cycle_, cycle, arrived, met>>
  BY Zenon DEF NotifyAll, Spurious, Recheck
<1>2. Counted'
  BY <1>0, <1>1, Zenon DEF Counted, Missing
<1>3. pc' \in [Threads -> {"out", "notify", "waiting", "awake"}] /\ passed' \in [Threads -> Nat]
  <2>1. CASE NotifyAll(t)
    <3> DEFINE p == [u \in Threads |-> IF pc[u] = "waiting" THEN "awake" ELSE pc[u]]
    <3>1. p \in [Threads -> {"out", "notify", "waiting", "awake"}]
      BY <1>0, Zenon
    <3>2. pc' = [p EXCEPT ![t] = "out"] /\ passed' = [passed EXCEPT ![t] = @ + 1]
      BY <2>1, Zenon DEF NotifyAll, Return
    <3> HIDE DEF p
    <3> QED BY <1>0, <3>1, <3>2, SMTT(30)
  <2>2. CASE Spurious(t)
    BY <1>0, <2>2, SMTT(30) DEF Spurious
  <2>3. CASE Recheck(t)
    <3>1. CASE cycle[t] # cycle_
      BY <1>0, <2>3, <3>1, SMTT(30) DEF Recheck, Return
    <3>2. CASE cycle[t] = cycle_
      BY <1>0, <2>3, <3>2, SMTT(30) DEF Recheck
    <3> QED BY <3>1, <3>2, Zenon
  <2> QED BY <2>1, <2>2, <2>3, SMTT(30)
<1>4. ASSUME NEW u \in Threads PROVE (Inside(u) \/ Outside(u) \/ Leaving(u))'
  <2>1. CASE pc'[u] = "out" /\ pc[u] # "out"
    <3>1. u = t /\ passed'[u] = passed[u] + 1 /\ ~Inside(u)
      BY <1>0, <2>1, ZenonT(60) DEF NotifyAll, Spurious, Recheck, Return, Inside
    <3>2. Leaving(u)
      BY <1>0, <2>1, <3>1, Zenon DEF Placed, Outside
    <3> QED BY <1>0, <1>1, <2>1, <3>1, <3>2, SMTT(30) DEF Leaving, Outside
  <2>2. CASE ~(pc'[u] = "out" /\ pc[u] # "out")
    <3>1. /\ passed'[u] = passed[u]
          /\ \/ pc'[u] = pc[u]
             \/ pc[u] \in {"waiting", "awake"} /\ pc'[u] \in {"waiting", "awake"}
      BY <1>0, <2>2, Zenon DEF NotifyAll, Spurious, Recheck, Return
    <3> QED BY <1>0, <1>1, <3>1, Zenon DEF Placed, Inside, Outside, Leaving
  <2> QED BY <2>1, <2>2, Zenon
<1>5. Placed'
  BY <1>4, Zenon DEF Placed
<1>6. Types'
  <2>1. cycle_' \in BOOLEAN /\ cycle' \in [Threads -> BOOLEAN]
    BY <1>0, <1>1, Zenon
  <2> QED BY <1>0, <1>1, <1>3, <2>1, SMTT(30)
<1> QED BY <1>2, <1>5, <1>6, Zenon DEF Inv

(* thread_barrier keeps every thread in its place relative to the cycle. *)
LEMMA BarrierStep == ASSUME Inv, [Next]_vars PROVE Inv'
<1>1. ASSUME NEW t \in Threads, ArriveLast(t) PROVE Inv'
  BY <1>1, ArriveLastInv, Zenon
<1>2. ASSUME NEW t \in Threads, ArriveEarly(t) PROVE Inv'
  BY <1>2, ArriveEarlyInv, Zenon
<1>3. ASSUME NEW t \in Threads, NotifyAll(t) \/ Spurious(t) \/ Recheck(t) PROVE Inv'
  BY <1>3, LeaveInv, Zenon
<1>4. CASE UNCHANGED vars
  BY <1>4, Zenon DEF vars, Inv, Types, Placed, Inside, Outside, Leaving, Counted, Missing
<1> QED BY <1>1, <1>2, <1>3, <1>4, SMTT(30) DEF Next

(* wait keeps every thread in its place relative to the cycle in progress. *)
THEOREM BarrierInvariant == Spec => []Inv
<1>1. Inv /\ [Next]_vars => Inv'
  BY BarrierStep, Zenon
<1> QED BY InitInv, <1>1, PTL DEF Spec

(* The members keep their types; current_ is never zero between two calls. *)
THEOREM BarrierTypes == Spec => []TypeOK
<1>1. Inv => TypeOK
  <2> SUFFICES ASSUME Inv PROVE TypeOK
    BY Zenon
  <2>1. current_ \in 1 .. initial_
    BY MissingFinite, InitialPositive, SMTT(30) DEF Inv, Types, Counted
  <2> QED BY <2>1, Zenon DEF Inv, Types, TypeOK
<1> QED BY BarrierInvariant, <1>1, PTL

(* In its place, no thread has returned from a wait that another has not     *)
(* called.                                                                   *)
LEMMA PlacedTogether == ASSUME Inv PROVE Together
<1> SUFFICES ASSUME NEW t \in Threads, NEW u \in Threads
             PROVE  passed[t] <= arrived[u]
  BY Zenon DEF Together
<1>1. passed[t] <= met /\ met <= arrived[u]
  BY SMTT(30) DEF Inv, Types, Placed, Inside, Outside, Leaving
<1> QED BY <1>1, SMTT(30) DEF Inv, Types

(* No thread returns from its k-th wait before all have called wait k times. *)
THEOREM BarrierTogether == Spec => []Together
<1>1. Inv => Together
  BY PlacedTogether, Zenon
<1> QED BY BarrierInvariant, <1>1, PTL
----------------------------------------------------------------------------
(* FiberTaskQueue.  m_detached counts the tasks that enqueue has counted and *)
(* whose fiber has not ended, those among them that were lost included; the  *)
(* thread stops popping when the channel is closed and empty.                *)
Detached ==
  {t \in QueueTasks : queue_task[t] \in {"counted", "queued", "fiber", "ran", "lost"}}

QueueTypes ==
  /\ m_queue \in Seq(QueueTasks)
  /\ queue_task \in [QueueTasks -> {"new", "thrown", "checked", "counted", "queued", "fiber",
                                    "ran", "done", "lost"}]

QueueInv ==
  /\ QueueTypes
  /\ IsFiniteSet(Detached) /\ m_detached = Cardinality(Detached)
  /\ main # "popping" => queue_closed /\ m_queue = <<>>
  /\ FQ!FibersGone

(* A queue that has just been made has no task to wait for. *)
LEMMA QueueInit == FQ!Init => QueueInv
<1> SUFFICES ASSUME FQ!Init PROVE QueueInv
  BY Zenon
<1> USE DEF FQ!Init
<1>1. QueueTypes
  BY EmptySeq, Zenon DEF QueueTypes
<1>2. Detached = {}
  BY Zenon DEF Detached
<1>3. IsFiniteSet(Detached) /\ m_detached = Cardinality(Detached)
  BY <1>2, FS_EmptySet, Zenon
<1> QED BY <1>1, <1>3, Zenon DEF QueueInv, FQ!FibersGone

(* enqueue: a task is counted once, before it is pushed, and reaches the     *)
(* channel only while main has not found it closed.                          *)
LEMMA QueueEnqueue ==
  ASSUME QueueInv, NEW t \in QueueTasks, FQ!Enqueue(t) PROVE QueueInv'
<1> USE DEF QueueInv, QueueTypes
<1>1. CASE FQ!EnqueueCheck(t)
  <2> USE <1>1 DEF FQ!EnqueueCheck, FQ!Move
  <2>1. QueueTypes' /\ Detached' = Detached
    BY Zenon DEF Detached
  <2>2. FQ!FibersGone'
    BY Zenon DEF FQ!FibersGone
  <2> QED BY <2>1, <2>2, Zenon
<1>2. CASE FQ!EnqueueCount(t)
  <2> USE <1>2 DEF FQ!EnqueueCount, FQ!Move
  <2>1. QueueTypes' /\ Detached' = Detached \cup {t} /\ t \notin Detached
    BY Zenon DEF Detached
  <2>2. IsFiniteSet(Detached') /\ m_detached' = Cardinality(Detached')
    BY <2>1, FS_AddElement, Zenon
  <2>3. FQ!FibersGone'
    BY Zenon DEF FQ!FibersGone
  <2> QED BY <2>1, <2>2, <2>3, SMTT(30)
<1>3. CASE FQ!EnqueuePush(t)
  <2> USE <1>3 DEF FQ!EnqueuePush, FQ!Move
  <2>0. Append(m_queue, t) \in Seq(QueueTasks)
    BY AppendProperties, Zenon
  <2>1. QueueTypes' /\ Detached' = Detached
    BY <2>0, Zenon DEF Detached
  <2>2. FQ!FibersGone'
    BY Zenon DEF FQ!FibersGone
  <2> QED BY <2>1, <2>2, Zenon
<1> QED BY <1>1, <1>2, <1>3, Zenon DEF FQ!Enqueue

(* A fiber runs its task and takes it off the count. *)
LEMMA QueueFiber ==
  ASSUME QueueInv, NEW t \in QueueTasks, FQ!FiberRun(t) \/ FQ!FiberEnd(t) PROVE QueueInv'
<1> USE DEF QueueInv, QueueTypes, FQ!Move
<1>1. CASE FQ!FiberRun(t)
  <2> USE <1>1 DEF FQ!FiberRun
  <2>1. QueueTypes' /\ Detached' = Detached
    BY Zenon DEF Detached
  <2>2. FQ!FibersGone'
    BY Zenon DEF FQ!FibersGone
  <2> QED BY <2>1, <2>2, Zenon
<1>2. CASE FQ!FiberEnd(t)
  <2> USE <1>2 DEF FQ!FiberEnd
  <2>1. QueueTypes' /\ Detached' = Detached \ {t} /\ t \in Detached
    BY Zenon DEF Detached
  <2>2. IsFiniteSet(Detached') /\ m_detached' = Cardinality(Detached')
    BY <2>1, FS_RemoveElement, Zenon
  <2>3. FQ!FibersGone'
    BY Zenon DEF FQ!FibersGone
  <2> QED BY <2>1, <2>2, <2>3, SMTT(30)
<1> QED BY <1>1, <1>2, Zenon

(* main: it leaves when nothing is counted any more, so no fiber is left. *)
LEMMA QueueMain == ASSUME QueueInv, FQ!Main PROVE QueueInv'
<1> USE DEF QueueInv, QueueTypes
<1>1. CASE FQ!MainPop
  <2> USE <1>1 DEF FQ!MainPop, FQ!Move
  <2>1. Head(m_queue) \in QueueTasks /\ Tail(m_queue) \in Seq(QueueTasks)
    BY HeadTailProperties, Zenon
  <2>2. QueueTypes' /\ Detached' = Detached
    BY <2>1, Zenon DEF Detached
  <2>3. FQ!FibersGone'
    BY Zenon DEF FQ!FibersGone
  <2> QED BY <2>2, <2>3, Zenon
<1>2. CASE FQ!MainClosed
  BY <1>2, Zenon DEF FQ!MainClosed, Detached, FQ!FibersGone
<1>3. CASE FQ!MainDone
  <2> USE <1>3 DEF FQ!MainDone
  <2>1. Detached = {}
    BY FS_EmptySet, Zenon
  <2>2. FQ!FibersGone'
    BY <2>1, Zenon DEF Detached, FQ!FibersGone
  <2> QED BY <2>2, Zenon DEF Detached
<1> QED BY <1>1, <1>2, <1>3, Zenon DEF FQ!Main

(* Every step of the queue, its owner's included. *)
LEMMA QueueStep == ASSUME QueueInv, [FQ!Next]_queueVars PROVE QueueInv'
<1>1. CASE FQ!Shutdown \/ FQ!Destroy \/ FQ!Destroyed \/ UNCHANGED queueVars
  BY <1>1, Zenon DEF FQ!Shutdown, FQ!Destroy, FQ!Destroyed, queueVars, QueueInv, QueueTypes, Detached,
     FQ!FibersGone
<1> QED BY <1>1, QueueEnqueue, QueueFiber, QueueMain, SMTT(30) DEF FQ!Next
-----------------------------------------------------------------------------
(* RecentChannel.  Its invariant is that of RecentChannelProofs, for the     *)
(* readers of MCThreading.                                                   *)
CP == INSTANCE RecentChannelProofs

(* The two copies of the module RecentChannel say the same. *)
LEMMA SameChannel ==
  /\ RC!Init => CP!Init
  /\ [RC!Next]_channelVars => [CP!Next]_(CP!vars)
  /\ CP!MostRecent => RC!MostRecent
  /\ CP!NoLostWakeup => RC!NoLostWakeup
<1>1. RC!Init => CP!Init
  BY Zenon DEF RC!Init, CP!Init
<1>2. CP!MostRecent => RC!MostRecent
  BY Zenon DEF CP!MostRecent, RC!MostRecent
<1>3. CP!NoLostWakeup => RC!NoLostWakeup
  BY Zenon DEF CP!NoLostWakeup, RC!NoLostWakeup, CP!Cardinality, RC!Cardinality
<1> USE DEF RC!NotifyOne, CP!NotifyOne, RC!NotifyAll, CP!NotifyAll, RC!Return, CP!Return,
       RC!Wait, CP!Wait, RC!Outcome, CP!Outcome, RC!NothingToRead, CP!NothingToRead,
       RC!Blocking, CP!Blocking
<1>4. (RC!AwaitWrite => CP!AwaitWrite) /\ (RC!CloseChannel => CP!CloseChannel)
  BY Zenon DEF RC!AwaitWrite, CP!AwaitWrite, RC!CloseChannel, CP!CloseChannel
<1>5. ASSUME NEW r PROVE /\ RC!AwaitRead(r) => CP!AwaitRead(r)
                         /\ RC!TryRead(r) => CP!TryRead(r)
                         /\ RC!AwaitReadUntil(r) => CP!AwaitReadUntil(r)
  BY Zenon DEF RC!AwaitRead, CP!AwaitRead, RC!TryRead, CP!TryRead, RC!AwaitReadUntil,
     CP!AwaitReadUntil
<1>6. ASSUME NEW r PROVE /\ RC!Call(r) => CP!Call(r)
                         /\ RC!Resume(r) => CP!Resume(r)
                         /\ RC!WakeUp(r) => CP!WakeUp(r)
                         /\ RC!Expire(r) => CP!Expire(r)
  <2>1. RC!Call(r) => CP!Call(r)
    BY <1>5, ZenonT(30) DEF RC!Call, CP!Call
  <2>2. RC!Resume(r) => CP!Resume(r)
    BY <1>5, ZenonT(30) DEF RC!Resume, CP!Resume
  <2>3. RC!WakeUp(r) => CP!WakeUp(r)
    BY <1>5, ZenonT(30) DEF RC!WakeUp, CP!WakeUp
  <2>4. RC!Expire(r) => CP!Expire(r)
    BY <1>5, ZenonT(30) DEF RC!Expire, CP!Expire
  <2> QED BY <2>1, <2>2, <2>3, <2>4, Zenon
<1>7. RC!Next => CP!Next
  BY <1>4, <1>6, SMTT(30) DEF RC!Next, CP!Next
<1> QED BY <1>1, <1>2, <1>3, <1>7, SMTT(30) DEF channelVars, CP!vars
-----------------------------------------------------------------------------
(* Service.  Its invariant is that of ServiceProofs, for the clients and     *)
(* workers of MCThreading.                                                   *)
SP == INSTANCE ServiceProofs WITH pc <- caller

(* The two copies of the module Service say the same. *)
LEMMA SameService ==
  /\ SV!Init => SP!Init
  /\ SV!Next => SP!Next
  /\ SP!ServiceSound => SV!ServiceSound
<1> USE DEF SV!Callers, SP!Callers, SV!Initialized, SP!Initialized, SV!Running, SP!Running,
       SV!Awaiting, SP!Awaiting, SV!Stopping, SP!Stopping, SV!Killing, SP!Killing,
       SV!Completed, SP!Completed, SV!history, SP!history
<1>1. SV!Init => SP!Init
  BY Zenon DEF SV!Init, SP!Init
<1>2. SP!ServiceSound => SV!ServiceSound
  BY Zenon DEF SV!ServiceSound, SP!ServiceSound, SV!CompletedMeansJoined, SP!CompletedMeansJoined,
     SV!DestructorCheck, SP!DestructorCheck, SV!KillDelivered, SP!KillDelivered
<1> USE DEF SV!At, SP!At, SV!GoTo, SP!GoTo, SV!InDestructor, SP!InDestructor,
       SV!MayCall, SP!MayCall, SV!Abort, SP!Abort, SV!ForwardState, SP!ForwardState,
       SV!KillLocked, SP!KillLocked, SV!JoinLocked, SP!JoinLocked
<1>3. ASSUME NEW c PROVE /\ SV!ServiceStart(c) => SP!ServiceStart(c)
                         /\ SV!ServiceStop(c) => SP!ServiceStop(c)
                         /\ SV!ServiceKill(c) => SP!ServiceKill(c)
                         /\ SV!ServiceAwaitJoin(c) => SP!ServiceAwaitJoin(c)
  <2>1. SV!ServiceStart(c) => SP!ServiceStart(c)
    BY ZenonT(30) DEF SV!ServiceStart, SP!ServiceStart
  <2>2. SV!ServiceStop(c) => SP!ServiceStop(c)
    BY ZenonT(30) DEF SV!ServiceStop, SP!ServiceStop
  <2>3. SV!ServiceKill(c) => SP!ServiceKill(c)
    BY ZenonT(30) DEF SV!ServiceKill, SP!ServiceKill
  <2>4. SV!ServiceAwaitJoin(c) => SP!ServiceAwaitJoin(c)
    BY ZenonT(30) DEF SV!ServiceAwaitJoin, SP!ServiceAwaitJoin
  <2> QED BY <2>1, <2>2, <2>3, <2>4, Zenon
<1>4. ASSUME NEW c PROVE SV!Step(c) => SP!Step(c)
  BY Zenon DEF SV!Step, SP!Step, SV!DoServiceStart, SP!DoServiceStart, SV!DoServiceStop,
     SP!DoServiceStop, SV!DoServiceKill, SP!DoServiceKill, SV!DoServiceAwaitJoin,
     SP!DoServiceAwaitJoin, SV!JoinThrows, SP!JoinThrows, SV!ServiceComplete,
     SP!ServiceComplete
<1>5. ASSUME NEW w PROVE SV!WorkerEnds(w) => SP!WorkerEnds(w)
  BY Zenon DEF SV!WorkerEnds, SP!WorkerEnds
<1>6. SV!Destructor => SP!Destructor
  <2>1. SV!Destruct => SP!Destruct
    BY ZenonT(30) DEF SV!Destruct, SP!Destruct
  <2>2. SV!DestructKill => SP!DestructKill
    BY ZenonT(30) DEF SV!DestructKill, SP!DestructKill
  <2>3. SV!DestructJoin => SP!DestructJoin
    BY ZenonT(30) DEF SV!DestructJoin, SP!DestructJoin
  <2>4. SV!DestructCheck => SP!DestructCheck
    BY ZenonT(30) DEF SV!DestructCheck, SP!DestructCheck
  <2> QED BY <2>1, <2>2, <2>3, <2>4, Zenon DEF SV!Destructor, SP!Destructor
<1>7. SV!Next => SP!Next
  BY <1>3, <1>4, <1>5, <1>6, SMTT(30) DEF SV!Next, SP!Next
<1> QED BY <1>1, <1>2, <1>7, SMTT(30)
-----------------------------------------------------------------------------
(* A barrier that rests after its last cycle is in order, too. *)
LEMMA FinishedInv == Finished => Inv
<1> SUFFICES ASSUME Finished PROVE Inv
  BY Zenon
<1> USE DEF Finished
<1>1. Types
  <2>1. cycle_ \in BOOLEAN /\ cycle \in [Threads -> BOOLEAN]
    BY Zenon
  <2> QED BY <2>1, InitialPositive, BarrierAssumption, SMTT(30) DEF Types
<1>2. Placed
  BY Zenon DEF Placed, Outside
<1>3. Missing = Threads
  BY Zenon DEF Missing
<1>4. Counted
  BY <1>3, BarrierAssumption, SMTT(30) DEF Counted, initial_
<1> QED BY <1>1, <1>2, <1>4, SMTT(30) DEF Inv

(* The threading layer: the component that is live keeps its invariant, the  *)
(* others rest.                                                              *)
ThreadingInv == Inv /\ QueueInv /\ CP!ChannelInv /\ SP!IInv

(* Every component is in order at the start. *)
LEMMA ThreadingStart == ThreadingInit => ThreadingInv
<1> SUFFICES ASSUME ThreadingInit PROVE ThreadingInv
  BY Zenon
<1>1. Inv
  BY InitInv, FinishedInv, SMTT(30) DEF ThreadingInit
<1>2. QueueInv
  BY QueueInit, SMTT(30) DEF ThreadingInit
<1>3. CP!Init /\ CP!ChannelAssumption
  BY SameChannel, ThreadingAssumption, SMTT(30) DEF ThreadingInit, CP!ChannelAssumption
<1>4. CP!ChannelInv
  BY <1>3, CP!ChannelInit, SMTT(30)
<1>5. SP!Init /\ SP!ServiceAssumption
  BY SameService, ThreadingAssumption, SMTT(30) DEF ThreadingInit, SP!ServiceAssumption
<1>6. SP!IInv
  BY <1>5, SP!ServiceInit, SMTT(30)
<1> QED BY <1>1, <1>2, <1>4, <1>6, SMTT(30) DEF ThreadingInv

(* A step is one of a component, and leaves the variables of the others. *)
LEMMA OneComponent ==
  ASSUME [ThreadingNext]_allVars
  PROVE  /\ [Next]_vars /\ [FQ!Next]_queueVars
         /\ [CP!Next]_(CP!vars) /\ [SP!Next]_(SP!vars)
<1>1. [Next]_vars /\ [FQ!Next]_queueVars /\ [RC!Next]_channelVars /\ [SV!Next]_serviceVars
  BY Zenon DEF ThreadingNext, allVars
<1>2. UNCHANGED serviceVars => UNCHANGED SP!vars
  BY Zenon DEF serviceVars, SP!vars, SP!history
<1> QED BY <1>1, <1>2, SameService, SameChannel, SMTT(30)

(* Every step of the layer keeps the invariant. *)
LEMMA ThreadingStep == ASSUME ThreadingInv, [ThreadingNext]_allVars PROVE ThreadingInv'
<1>1. Inv' /\ QueueInv'
  BY OneComponent, BarrierStep, QueueStep, SMTT(30) DEF ThreadingInv
<1>2. SP!ServiceAssumption /\ CP!ChannelAssumption
  BY ThreadingAssumption, SMTT(30) DEF SP!ServiceAssumption, CP!ChannelAssumption
<1>3. CP!ChannelInv'
  BY <1>2, OneComponent, CP!ChannelStep, SMTT(30) DEF ThreadingInv
<1>4. SP!IInv'
  BY <1>2, OneComponent, SP!ServiceStep, SMTT(30) DEF ThreadingInv
<1> QED BY <1>1, <1>3, <1>4, SMTT(30) DEF ThreadingInv

(* Whichever component of the threading layer runs, all keep their invariants. *)
THEOREM ThreadingInvariant == ThreadingSpec => []ThreadingInv
<1>1. ThreadingInv /\ [ThreadingNext]_allVars => ThreadingInv'
  BY ThreadingStep, SMTT(30)
<1> QED BY ThreadingStart, <1>1, PTL DEF ThreadingSpec

(* No thread returns from its k-th thread_barrier::wait before all have      *)
(* called wait k times.                                                      *)
THEOREM BarriersTogether == ThreadingSpec => []Together
<1>1. ThreadingInv => Together
  BY PlacedTogether, SMTT(30) DEF ThreadingInv
<1> QED BY ThreadingInvariant, <1>1, PTL

(* FiberTaskQueue::main leaves no fiber behind; and RecentChannel keeps the  *)
(* newest elements, at most m_max_size, delivers them in order, and has a    *)
(* notified reader under way for every element while a reader waits.         *)
THEOREM QueuesAreSound == ThreadingSpec => []QueuesSound
<1>1. ThreadingInv => QueuesSound
  BY SameChannel, SMTT(30) DEF ThreadingInv, QueueInv, CP!ChannelInv, QueuesSound
<1> QED BY ThreadingInvariant, <1>1, PTL

(* Completed services have been joined, killed ones are killed, and ~Service *)
(* finds a state it accepts: ServiceProofs, within the threading layer.      *)
THEOREM ServicesAreSound == ThreadingSpec => []ServiceSound
<1>1. ThreadingInv => SP!ServiceSound
  <2> SUFFICES ASSUME SP!IInv PROVE SP!ServiceSound
    BY Zenon DEF ThreadingInv
  <2> QED BY SP!InvariantSound, SMTT(30)
<1>2. ThreadingInv => ServiceSound
  BY <1>1, SameService, SMTT(30) DEF ServiceSound
<1> QED BY ThreadingInvariant, <1>2, PTL

(* A Service that is Completed stays so. *)
THEOREM ServicesStayCompleted == ThreadingSpec => CompletedIsFinal
<1>1. [ThreadingNext]_allVars => [m_state = SV!Completed => m_state' = SV!Completed]_serviceVars
  BY OneComponent, SP!CompletedStep, SMTT(30) DEF SV!Completed, SP!Completed
<1> QED BY <1>1, PTL DEF ThreadingSpec, CompletedIsFinal
=============================================================================
