---------------------------- MODULE RunnerProofs ----------------------------
(***************************************************************************)
(* For every number of instances: the completion callback of a Runner runs *)
(* at most once, after all instances are Completed and before await_join   *)
(* returns; a reported failure is real; no CHECK of Runner::update_state   *)
(* fails.  The inductive invariant ties m_remaining_instances to the set   *)
(* of tasks that have not decremented it yet.                              *)
(* For every request, program and number of contexts: the instances that   *)
(* Launch hands to the Runner find their own context, exclude each other   *)
(* and meet.  The inductive invariant says that all contexts share the     *)
(* resources of the first and a barrier for all of them.                   *)
(***************************************************************************)
EXTENDS MCRunner, FiniteSetTheorems, SequenceTheorems, WellFoundedInduction,
        TLAPS

(* The instances whose task has not decremented m_remaining_instances. *)
Pending == {r \in Ranks : pc[r] \notin {"callback", "finish", "done"}}

(* A Runner that was never enqueued. *)
Idle ==
  /\ owner \in {"made", "destroyed"}
  /\ \A r \in Ranks : pc[r] = "unlaunched" /\ m_state[r] = Unqueued
  /\ callbacks = <<>>
  /\ launched = 0

(* The statement the task of r is at determines the state of instance r. *)
StateOfPC(r) ==
  /\ pc[r] \in {"unlaunched", "init"} => m_state[r] = Queued
  /\ pc[r] \in {"live", "main", "returned", "threw"} => m_state[r] = Running
  /\ pc[r] = "completing" => m_state[r] \in {Running, Error}
  /\ pc[r] \in {"load", "store", "decrement", "callback", "finish", "done"}
       => m_state[r] = Completed

(* m_instances is populated while a task may still use it. *)
OwnerInv ==
  /\ owner \in {"launching", "launched", "destroying"} => m_instances
  /\ owner \in {"joined", "destroyed", "terminated"} => \A r \in Ranks : Joinable(r)
  /\ owner = "launching" => launched < Size

(* The callback is owed to exactly one task once the counter is zero. *)
CallbackInv ==
  /\ Len(callbacks) <= 1
  /\ callbacks # <<>> => m_remaining_instances = 0
  /\ \A r \in Ranks : pc[r] = "callback" => m_remaining_instances = 0 /\ callbacks = <<>>
  /\ \A r, q \in Ranks : pc[r] = "callback" /\ pc[q] = "callback" => r = q
  /\ m_remaining_instances = 0 /\ m_completion_callback
       => callbacks # <<>> \/ \E r \in Ranks : pc[r] = "callback"

Active ==
  /\ owner # "made"
  /\ OwnerInv
  /\ \A r \in Ranks : StateOfPC(r)
  /\ m_remaining_instances = Cardinality(Pending)
  /\ CallbackInv

(* A FALSE in m_status, or on its way into it, has a stored exception behind it. *)
StatusInv ==
  (~m_status \/ (\E r \in Ranks : ~loaded[r]) \/ (callbacks # <<>> /\ ~callbacks[1]))
    => \E r \in Ranks : exception[r]

IInv == TypeOK /\ ~fatal /\ (Idle \/ Active) /\ StatusInv
-----------------------------------------------------------------------------
(* Ranks is a finite set of Size elements; so is any set of pending tasks. *)
LEMMA RanksFinite ==
  /\ IsFiniteSet(Ranks)
  /\ Cardinality(Ranks) = Size
  /\ IsFiniteSet(Pending)
  /\ Cardinality(Pending) \in 0 .. Size
  /\ Cardinality(Pending) = 0 <=> Pending = {}
<1>1. IsFiniteSet(Ranks) /\ Cardinality(Ranks) = Size
  <2>1. IsFiniteSet(0 .. Size - 1) /\ Cardinality(0 .. Size - 1) = Size
    BY FS_Interval, SizeAssumption, SMTT(30)
  <2> QED BY <2>1, Zenon DEF Ranks
<1>2. Pending \in SUBSET Ranks
  BY Zenon DEF Pending
<1>3. IsFiniteSet(Pending) /\ Cardinality(Pending) <= Cardinality(Ranks)
  BY <1>1, <1>2, FS_Subset, Zenon
<1>4. Cardinality(Pending) \in Nat
  BY <1>3, FS_CardinalityType, Zenon
<1>5. Cardinality(Pending) = 0 <=> Pending = {}
  BY <1>3, FS_EmptySet, Zenon
<1> QED BY <1>1, <1>3, <1>4, <1>5, SizeAssumption, SMTT(30)

(* The initial state of a Runner satisfies the invariant. *)
LEMMA InitIInv == Init => IInv
<1> SUFFICES ASSUME Init PROVE IInv
  BY Zenon
<1>1. TypeOK
  <2>1. launched \in 0 .. Size /\ m_remaining_instances \in 0 .. Size
    BY SizeAssumption, SMTT(30) DEF Init
  <2>2. m_runnable \in Owned .. Kill /\ Unqueued \in Unqueued .. Completed
    BY SMTT(30) DEF Init, Owned, Kill, Unqueued, Completed
  <2>3. callbacks \in Seq(BOOLEAN)
    BY SMTT(30) DEF Init
  <2> QED BY <2>1, <2>2, <2>3, Zenon DEF Init, TypeOK, Owners, PCs
<1>2. Idle
  BY Zenon DEF Init, Idle
<1>3. StatusInv
  BY Zenon DEF Init, StatusInv
<1> QED BY <1>1, <1>2, <1>3, Zenon DEF Init, IInv

(* Every task step of an enqueued Runner that keeps the counter. *)
LEMMA TaskKeepsActive ==
  ASSUME IInv, NEW r \in Ranks,
         \/ TaskRunning(r) \/ TaskLive(r) \/ MainSetException(r) \/ MainReturn(r)
         \/ MainThrow(r) \/ TaskError(r) \/ TaskCompleted(r) \/ TaskLoadStatus(r)
         \/ TaskStoreStatus(r) \/ TaskFinish(r)
  PROVE  Active' /\ ~fatal'
<1> USE DEF Goto
<1>1. pc[r] # "unlaunched"
  BY Zenon DEF TaskRunning, TaskLive, MainSetException, MainReturn, MainThrow, TaskError,
     TaskCompleted, TaskLoadStatus, TaskStoreStatus, TaskFinish
<1>2. Active
  BY <1>1, Zenon DEF IInv, Idle
<1>3. owner \in {"launching", "launched", "destroying"} /\ m_instances
  BY <1>2, Zenon DEF IInv, TypeOK, Owners, Active, OwnerInv, Joinable, TaskRunning, TaskLive,
     MainSetException, MainReturn, MainThrow, TaskError, TaskCompleted, TaskLoadStatus,
     TaskStoreStatus, TaskFinish
<1>4. UNCHANGED <<ownerVars, m_remaining_instances, callbacks>>
  BY Zenon DEF TaskRunning, TaskLive, MainSetException, MainReturn, MainThrow, TaskError,
     TaskCompleted, TaskLoadStatus, TaskStoreStatus, TaskFinish, statusVars
<1>5. Pending' = Pending
  BY ZenonT(60) DEF Pending, IInv, TypeOK, TaskRunning, TaskLive, MainSetException, MainReturn,
     MainThrow, TaskError, TaskCompleted, TaskLoadStatus, TaskStoreStatus, TaskFinish, Ranks
<1>6. OwnerInv'
  BY <1>3, <1>4, <1>2, Zenon DEF OwnerInv, ownerVars, Active, Joinable
<1>7. \A q \in Ranks : q # r => pc'[q] = pc[q] /\ m_state'[q] = m_state[q]
  BY Zenon DEF IInv, TypeOK, TaskRunning, TaskLive, MainSetException, MainReturn, MainThrow,
     TaskError, TaskCompleted, TaskLoadStatus, TaskStoreStatus, TaskFinish, UpdateState,
     stateVars
<1>8. StateOfPC(r)
  BY <1>2, Zenon DEF Active
<1>9. StateOfPC(r)' /\ ~fatal'
  <2>1. r \in DOMAIN pc /\ r \in DOMAIN m_state /\ ~fatal
    BY Zenon DEF IInv, TypeOK
  <2>2. CASE TaskRunning(r)
    <3>1. pc[r] = "init" /\ pc'[r] = "live" /\ m_state'[r] = Running
          /\ (m_state[r] < Running => ~fatal')
      BY <1>3, <2>1, <2>2, Zenon DEF TaskRunning, UpdateState
    <3> QED BY ONLY <1>3, <1>8, <2>1, <3>1, SMTT(30) DEF StateOfPC, Queued, Running
  <2>3. CASE TaskError(r)
    <3>1. pc[r] = "returned" /\ pc'[r] = "completing"
      BY <2>1, <2>3, Zenon DEF TaskError
    <3>2. \/ m_state'[r] = m_state[r] /\ ~fatal'
          \/ m_state'[r] = Error /\ (m_state[r] < Error => ~fatal')
      BY <1>3, <2>1, <2>3, Zenon DEF TaskError, UpdateState, stateVars
    <3> QED BY ONLY <1>3, <1>8, <2>1, <3>1, <3>2, SMTT(30) DEF StateOfPC, Running, Error
  <2>4. CASE TaskCompleted(r)
    <3>1. pc[r] = "completing" /\ pc'[r] = "load" /\ m_state'[r] = Completed
          /\ (m_state[r] < Completed => ~fatal')
      BY <1>3, <2>1, <2>4, Zenon DEF TaskCompleted, UpdateState
    <3> QED BY ONLY <1>3, <1>8, <2>1, <3>1, SMTT(30) DEF StateOfPC, Running, Error, Completed
  <2>5. CASE TaskLive(r) \/ MainSetException(r) \/ MainReturn(r) \/ MainThrow(r)
             \/ TaskLoadStatus(r) \/ TaskStoreStatus(r) \/ TaskFinish(r)
    <3>1. m_state' = m_state /\ fatal' = fatal
      BY <2>5, Zenon DEF TaskLive, MainSetException, MainReturn, MainThrow, TaskLoadStatus,
         TaskStoreStatus, TaskFinish, stateVars
    <3>2. \/ pc[r] \in {"live", "main"} /\ pc'[r] \in {"main", "returned", "threw"}
          \/ pc[r] \in {"load", "store", "finish"} /\ pc'[r] \in {"store", "decrement", "done"}
      BY <2>1, <2>5, Zenon DEF TaskLive, MainSetException, MainReturn, MainThrow, TaskLoadStatus,
         TaskStoreStatus, TaskFinish
    <3> QED BY ONLY <1>8, <2>1, <3>1, <3>2, SMTT(30) DEF StateOfPC
  <2> QED BY <2>2, <2>3, <2>4, <2>5, Zenon
<1>10. \A q \in Ranks : StateOfPC(q)'
  BY <1>2, <1>7, <1>9, Zenon DEF Active, StateOfPC
<1>11. pc'[r] # "callback" /\ pc[r] # "callback"
  BY Zenon DEF IInv, TypeOK, TaskRunning, TaskLive, MainSetException, MainReturn, MainThrow,
     TaskError, TaskCompleted, TaskLoadStatus, TaskStoreStatus, TaskFinish
<1>12. CallbackInv'
  BY <1>2, <1>4, <1>7, <1>11, Zenon DEF Active, CallbackInv, ownerVars
<1> QED BY <1>2, <1>4, <1>5, <1>6, <1>9, <1>10, <1>12, SMTT(30) DEF Active, ownerVars

(* The decrement takes r out of Pending; the one that empties it owes the     *)
(* callback to r.                                                             *)
LEMMA DecrementKeepsActive ==
  ASSUME IInv, NEW r \in Ranks, TaskDecrement(r)
  PROVE  Active' /\ m_remaining_instances' \in 0 .. Size
<1> USE DEF Goto
<1>1. Active /\ pc[r] = "decrement"
  BY Zenon DEF IInv, Idle, TaskDecrement
<1>2. UNCHANGED <<ownerVars, stateVars, callbacks>>
  BY Zenon DEF TaskDecrement
<1>3. \A q \in Ranks : q # r => pc'[q] = pc[q]
  BY Zenon DEF IInv, TypeOK, TaskDecrement
<1>4. pc'[r] \in {"callback", "finish"} /\ pc' \in [Ranks -> PCs]
  BY Zenon DEF IInv, TypeOK, TaskDecrement, PCs
<1>5. Pending' = Pending \ {r} /\ r \in Pending
  BY <1>1, <1>3, <1>4, Zenon DEF Pending
<1>6. Cardinality(Pending') = Cardinality(Pending) - 1
  BY <1>5, RanksFinite, FS_RemoveElement, Zenon
<1>7. /\ m_remaining_instances' = Cardinality(Pending')
      /\ m_remaining_instances' = m_remaining_instances - 1
      /\ m_remaining_instances \in 1 .. Size
  BY <1>1, <1>5, <1>6, RanksFinite, SizeAssumption, SMTT(30) DEF Active, TaskDecrement
<1>8. OwnerInv'
  BY <1>1, <1>2, <1>4, Zenon DEF Active, OwnerInv, Joinable, ownerVars
<1>9. \A q \in Ranks : StateOfPC(q)'
  BY <1>1, <1>2, <1>3, <1>4, Zenon DEF Active, StateOfPC, stateVars
<1>10. callbacks = <<>> /\ \A q \in Ranks : pc[q] # "callback"
  BY <1>1, <1>7, SMTT(30) DEF Active, CallbackInv
<1>11. pc'[r] = "callback" <=> m_remaining_instances' = 0 /\ m_completion_callback
  BY <1>7, SMTT(30) DEF IInv, TypeOK, TaskDecrement
<1>12. CallbackInv'
  BY <1>2, <1>3, <1>10, <1>11, SizeAssumption, SMTT(30) DEF CallbackInv, ownerVars
<1> QED BY <1>1, <1>2, <1>7, <1>8, <1>9, <1>12, SizeAssumption, SMTT(30) DEF Active, ownerVars

(* The callback is made by the one task that owes it. *)
LEMMA CallbackKeepsActive ==
  ASSUME IInv, NEW r \in Ranks, TaskCallback(r)
  PROVE  Active'
<1> USE DEF Goto
<1>1. Active /\ pc[r] = "callback"
  BY Zenon DEF IInv, Idle, TaskCallback
<1>2. UNCHANGED <<ownerVars, stateVars, m_remaining_instances>>
  BY Zenon DEF TaskCallback
<1>3. \A q \in Ranks : q # r => pc'[q] = pc[q]
  BY Zenon DEF IInv, TypeOK, TaskCallback
<1>4. pc'[r] = "finish"
  BY Zenon DEF IInv, TypeOK, TaskCallback
<1>5. Pending' = Pending
  BY <1>1, <1>3, <1>4, Zenon DEF Pending
<1>6. OwnerInv'
  BY <1>1, <1>2, <1>4, Zenon DEF Active, OwnerInv, Joinable, ownerVars
<1>7. \A q \in Ranks : StateOfPC(q)'
  BY <1>1, <1>2, <1>3, <1>4, Zenon DEF Active, StateOfPC, stateVars
<1>8. callbacks = <<>> /\ m_remaining_instances = 0
  BY <1>1, Zenon DEF Active, CallbackInv
<1>9. callbacks' = <<m_status>>
  BY <1>8, SMTT(30) DEF TaskCallback
<1>10. \A q \in Ranks : pc'[q] # "callback"
  BY <1>1, <1>3, <1>4, Zenon DEF Active, CallbackInv
<1>11. CallbackInv'
  BY <1>2, <1>8, <1>9, <1>10, SMTT(30) DEF CallbackInv
<1> QED BY <1>1, <1>2, <1>5, <1>6, <1>7, <1>11, SMTT(30) DEF Active, ownerVars

(* The steps of the owner keep the shape of the Runner. *)
LEMMA OwnerKeepsShape ==
  ASSUME IInv, Owner
  PROVE  (Idle \/ Active)' /\ ~fatal'
<1> USE DEF Goto
<1>1. CASE Enqueue
  <2>1. Idle /\ pc' = pc /\ callbacks' = callbacks /\ fatal' = fatal
    BY <1>1, Zenon DEF Enqueue, IInv, Active, Idle
  <2>2. Pending' = Ranks
    BY <2>1, Zenon DEF Pending, Idle
  <2>3. m_remaining_instances' = Cardinality(Pending') /\ m_remaining_instances' # 0
    BY <1>1, <2>2, RanksFinite, SizeAssumption, Zenon DEF Enqueue
  <2>4. CallbackInv'
    BY <2>1, <2>3, SMTT(30) DEF Idle, CallbackInv
  <2>5. OwnerInv'
    BY <1>1, <2>1, SizeAssumption, SMTT(30) DEF Enqueue, OwnerInv, Idle
  <2>6. \A r \in Ranks : StateOfPC(r)'
    BY <1>1, <2>1, Zenon DEF Enqueue, Idle, StateOfPC
  <2> QED BY <1>1, <2>1, <2>3, <2>4, <2>5, <2>6, SMTT(30) DEF Enqueue, IInv, Active
<1>2. CASE LaunchTask
  <2>1. Active /\ launched \in Ranks /\ pc[launched] = "unlaunched"
    <3>1. owner = "launching" /\ launched \in 0 .. Size /\ pc[launched] = "unlaunched"
      BY <1>2, Zenon DEF LaunchTask, IInv, TypeOK
    <3>2. Active /\ launched < Size
      BY <3>1, Zenon DEF IInv, Idle, Active, OwnerInv
    <3> QED BY ONLY <3>1, <3>2, SizeAssumption, SMTT(30) DEF Ranks
  <2>2. /\ pc'[launched] = "init"
        /\ \A r \in Ranks : r # launched => pc'[r] = pc[r]
    BY <1>2, <2>1, Zenon DEF LaunchTask, IInv, TypeOK
  <2>3. UNCHANGED <<m_instances, m_completion_callback, stateVars, m_remaining_instances,
                    callbacks>>
    BY <1>2, Zenon DEF LaunchTask, statusVars
  <2>4. Pending' = Pending
    BY <2>1, <2>2, Zenon DEF Pending
  <2>5. OwnerInv'
    <3>0. m_instances'
      <4>1. owner = "launching" /\ m_instances' = m_instances
        BY <1>2, Zenon DEF LaunchTask
      <4> QED BY <2>1, <4>1, Zenon DEF Active, OwnerInv
    <3>1. /\ launched' = launched + 1
          /\ owner' = IF launched + 1 = Size THEN "launched" ELSE "launching"
      BY <1>2, Zenon DEF LaunchTask
    <3>2. launched + 1 # Size => launched' < Size
      BY ONLY <2>1, <3>1, SizeAssumption, SMTT(30) DEF Ranks
    <3>3. owner' \in {"launching", "launched"} /\ (owner' = "launching" => launched + 1 # Size)
      BY ONLY <3>1, Zenon
    <3> QED BY ONLY <3>0, <3>1, <3>2, <3>3, Zenon DEF OwnerInv
  <2>6. \A r \in Ranks : StateOfPC(r)'
    BY <2>1, <2>2, <2>3, Zenon DEF Active, StateOfPC, stateVars
  <2>7. CallbackInv'
    BY <2>1, <2>2, <2>3, Zenon DEF Active, CallbackInv
  <2>8. owner' # "made"
    BY <1>2, Zenon DEF LaunchTask
  <2> QED BY <2>1, <2>3, <2>4, <2>5, <2>6, <2>7, <2>8, SMTT(30) DEF IInv, Active, stateVars
<1>3. CASE AwaitJoin \/ DestroyKill \/ DestroyJoin \/ DestroyIdle
  <2>1. UNCHANGED <<pc, stateVars, m_remaining_instances, callbacks, m_completion_callback,
                    launched>>
    BY <1>3, Zenon DEF AwaitJoin, DestroyKill, DestroyJoin, DestroyIdle, statusVars
  <2>2. CASE Idle
    BY <1>3, <2>1, <2>2, Zenon DEF AwaitJoin, DestroyKill, DestroyJoin, DestroyIdle, Idle, IInv,
       stateVars
  <2>3. CASE Active
    <3>1. OwnerInv' /\ owner' # "made"
      BY <1>3, <2>1, <2>3, Zenon DEF AwaitJoin, DestroyKill, DestroyJoin, DestroyIdle, Active,
         OwnerInv, Joinable
    <3>2. Pending' = Pending /\ \A r \in Ranks : StateOfPC(r)'
      BY <2>1, <2>3, Zenon DEF Active, Pending, StateOfPC, stateVars
    <3>3. CallbackInv'
      BY <2>1, <2>3, Zenon DEF Active, CallbackInv
    <3> QED BY <2>1, <2>3, <3>1, <3>2, <3>3, Zenon DEF Active, IInv, stateVars
  <2> QED BY <2>2, <2>3, Zenon DEF IInv
<1> QED BY <1>1, <1>2, <1>3, Zenon DEF Owner

(* If some instance failed, one of them is the first in rank order. *)
LEMMA FirstExceptionType ==
  FirstException \in Ranks \cup {None}
<1> SUFFICES ASSUME \E r \in Ranks : Failed(r)
             PROVE  \E r \in Ranks : Failed(r) /\ \A q \in Ranks : Failed(q) => r <= q
  BY Zenon DEF FirstException
<1> DEFINE T == {r \in Ranks : Failed(r)}
<1>1. T \subseteq Nat /\ T # {}
  BY SizeAssumption, SMTT(30) DEF Ranks
<1>2. \E x \in T : \A y \in T : ~ (<<y, x>> \in OpToRel(<, Nat))
  BY <1>1, NatLessThanWellFounded, WFMin, Zenon
<1>3. PICK x \in T : \A y \in T : ~ (<<y, x>> \in OpToRel(<, Nat))
  BY <1>2, Zenon
<1>4. \A y \in T : ~ (y < x)
  BY <1>1, <1>3, Zenon DEF OpToRel
<1> QED BY <1>1, <1>4, SMTT(30)

(* Every variable keeps its type. *)
LEMMA TypeStep ==
  ASSUME IInv, Next
  PROVE  TypeOK'
<1> USE DEF Goto, RunnableUpdateState, UpdateState, Owned, Run, Stop, Kill, ownerVars,
        stateVars, contextVars, statusVars
<1>0. TypeOK /\ Size \in Nat \ {0}
  BY SizeAssumption, Zenon DEF IInv
<1>1. CASE Enqueue
  BY <1>0, <1>1, SMTT(30) DEF TypeOK, Enqueue, Owners, Queued, Unqueued, Completed
<1>2. CASE LaunchTask
  <2>1. launched' \in 0 .. Size
    <3>1. launched < Size /\ launched \in 0 .. Size /\ launched' = launched + 1
      BY <1>0, <1>2, Zenon DEF TypeOK, LaunchTask, IInv, Idle, Active, OwnerInv
    <3> QED BY ONLY <1>0, <3>1, SMTT(30)
  <2> QED BY <1>2, <1>0, <2>1, Zenon DEF TypeOK, LaunchTask, Owners, PCs
<1>3. CASE AwaitJoin \/ DestroyJoin
  BY <1>0, <1>3, FirstExceptionType, Zenon DEF TypeOK, AwaitJoin, DestroyJoin, Owners
<1>4. CASE DestroyKill \/ DestroyIdle \/ StopRunner \/ KillRunner
  <2>1. m_runnable \in Owned .. Kill
    BY <1>0, Zenon DEF TypeOK
  <2>2. m_runnable' \in Owned .. Kill
    <3>1. \/ m_runnable' = m_runnable
          \/ m_runnable' = IF m_runnable < Kill THEN Kill ELSE m_runnable
          \/ m_runnable' = IF m_runnable < Stop THEN Stop ELSE m_runnable
      BY <1>4, Zenon DEF DestroyKill, DestroyIdle, StopRunner, KillRunner
    <3> QED BY ONLY <2>1, <3>1, SMTT(30) DEF Owned, Stop, Kill
  <2>3. owner' \in Owners
    BY <1>0, <1>4, Zenon DEF TypeOK, DestroyKill, DestroyIdle, StopRunner, KillRunner, Owners
  <2>4. UNCHANGED <<launched, m_instances, m_completion_callback, rethrown, stateVars,
                    contextVars, statusVars, pc>>
    BY <1>4, Zenon DEF DestroyKill, DestroyIdle, StopRunner, KillRunner
  <2> QED BY <1>0, <2>2, <2>3, <2>4, Zenon DEF TypeOK
<1>5. ASSUME NEW r \in Ranks, Task(r) \/ MainSetException(r) \/ MainReturn(r) \/ MainThrow(r)
      PROVE  TypeOK'
  <2>1. CASE TaskRunning(r) \/ TaskError(r) \/ TaskCompleted(r)
    <3>1. m_state' \in [Ranks -> Unqueued .. Completed]
      <4>1. m_state' = m_state \/ \E new \in {Running, Error, Completed} :
                                     m_state' = [m_state EXCEPT ![r] = new]
        BY <2>1, Zenon DEF TaskRunning, TaskError, TaskCompleted
      <4>2. m_state \in [Ranks -> Unqueued .. Completed]
        BY <1>0, Zenon DEF TypeOK
      <4>3. {Running, Error, Completed} \subseteq Unqueued .. Completed
        BY ONLY SMTT(30) DEF Unqueued, Running, Error, Completed
      <4> QED BY <4>1, <4>2, <4>3, Zenon
    <3>0. fatal' \in BOOLEAN
      BY <1>0, <2>1, Zenon DEF TypeOK, TaskRunning, TaskError, TaskCompleted
    <3>2. pc' \in [Ranks -> PCs]
      BY <1>0, <2>1, ZenonT(60) DEF TypeOK, TaskRunning, TaskError, TaskCompleted, PCs
    <3>3. UNCHANGED <<ownerVars, m_runnable, contextVars, statusVars>>
      BY <2>1, Zenon DEF TaskRunning, TaskError, TaskCompleted
    <3> HIDE DEF ownerVars, contextVars, statusVars
    <3> QED BY <1>0, <3>0, <3>1, <3>2, <3>3, Zenon DEF TypeOK, ownerVars, contextVars, statusVars
  <2>2. CASE TaskLive(r) \/ MainReturn(r) \/ MainThrow(r) \/ TaskFinish(r)
    BY <1>0, <2>2, ZenonT(60) DEF TypeOK, TaskLive, MainReturn, MainThrow, TaskFinish, PCs
  <2>3. CASE MainSetException(r)
    <3>1. m_runnable' \in Owned .. Kill
      <4>1. m_runnable \in Owned .. Kill
            /\ m_runnable' = IF m_runnable < Kill THEN Kill ELSE m_runnable
        BY <1>0, <2>3, Zenon DEF TypeOK, MainSetException
      <4> QED BY ONLY <4>1, SMTT(30) DEF Owned, Kill
    <3> QED BY <1>0, <2>3, <3>1, Zenon DEF TypeOK, MainSetException
  <2>4. CASE TaskLoadStatus(r)
    BY <1>0, <2>4, Zenon DEF TypeOK, TaskLoadStatus, PCs
  <2>5. CASE TaskStoreStatus(r)
    BY <1>0, <2>5, Zenon DEF TypeOK, TaskStoreStatus, PCs
  <2>6. CASE TaskDecrement(r)
    <3>1. m_remaining_instances' \in 0 .. Size
      BY <2>6, DecrementKeepsActive, Zenon
    <3> QED BY <1>0, <2>6, <3>1, Zenon DEF TypeOK, TaskDecrement, PCs
  <2>7. CASE TaskCallback(r)
    <3>1. callbacks' \in Seq(BOOLEAN)
      BY <1>0, <2>7, AppendProperties, Zenon DEF TypeOK, TaskCallback
    <3> QED BY <1>0, <2>7, <3>1, Zenon DEF TypeOK, TaskCallback, PCs
  <2> QED BY <1>5, <2>1, <2>2, <2>3, <2>4, <2>5, <2>6, <2>7, SMTT(30) DEF Task
<1> QED BY <1>1, <1>2, <1>3, <1>4, <1>5, Zenon DEF Next, Owner

(* A failure on its way to the callback stays backed by a stored exception. *)
LEMMA StatusStep ==
  ASSUME IInv, Next
  PROVE  StatusInv'
<1> USE DEF Goto, ownerVars, stateVars, contextVars, statusVars
<1>0. StatusInv /\ TypeOK
  BY Zenon DEF IInv
<1>1. CASE Owner \/ StopRunner \/ KillRunner
  <2>1. UNCHANGED <<m_status, loaded, callbacks, exception>>
    BY <1>1, Zenon DEF Owner, Enqueue, LaunchTask, AwaitJoin, DestroyKill, DestroyJoin, DestroyIdle,
       StopRunner, KillRunner
  <2> QED BY <1>0, <2>1, Zenon DEF StatusInv
<1>2. ASSUME NEW r \in Ranks, Task(r) \/ MainSetException(r) \/ MainReturn(r) \/ MainThrow(r)
      PROVE  StatusInv'
  <2>1. \A q \in Ranks : exception[q] => exception'[q]
    BY <1>0, <1>2, Zenon DEF TypeOK, Task, TaskRunning, TaskLive, MainSetException, MainReturn,
       MainThrow, TaskError, TaskCompleted, TaskLoadStatus, TaskStoreStatus, TaskDecrement,
       TaskCallback, TaskFinish
  <2>2. CASE TaskStoreStatus(r)
    BY <1>0, <2>2, Zenon DEF TypeOK, TaskStoreStatus, StatusInv
  <2>3. CASE TaskLoadStatus(r)
    BY <1>0, <2>3, Zenon DEF TypeOK, TaskLoadStatus, StatusInv
  <2>4. CASE TaskCallback(r)
    <3>1. Active /\ pc[r] = "callback"
      BY <2>4, Zenon DEF IInv, Idle, TaskCallback
    <3>2. callbacks = <<>> /\ callbacks' = Append(callbacks, m_status)
      BY <2>4, <3>1, Zenon DEF Active, CallbackInv, TaskCallback
    <3>3. callbacks'[1] = m_status
      BY ONLY <3>2, SMTT(30)
    <3>4. UNCHANGED <<m_status, loaded, exception>>
      BY <2>4, Zenon DEF TaskCallback
    <3> QED BY <1>0, <3>3, <3>4, Zenon DEF StatusInv
  <2>5. CASE ~(TaskStoreStatus(r) \/ TaskLoadStatus(r) \/ TaskCallback(r))
    <3>1. UNCHANGED <<m_status, loaded, callbacks>>
      BY <1>2, <2>5, Zenon DEF Task, TaskRunning, TaskLive, MainSetException, MainReturn,
         MainThrow, TaskError, TaskCompleted, TaskDecrement, TaskFinish
    <3> QED BY <1>0, <2>1, <3>1, Zenon DEF StatusInv
  <2> QED BY <2>2, <2>3, <2>4, <2>5, Zenon
<1> QED BY <1>1, <1>2, Zenon DEF Next

(* Every step of a Runner preserves the invariant. *)
LEMMA NextIInv == IInv /\ [Next]_vars => IInv'
<1> SUFFICES ASSUME IInv, [Next]_vars PROVE IInv'
  BY Zenon
<1>1. CASE Next
  <2>1. (Idle \/ Active)' /\ ~fatal'
    <3>1. CASE Owner
      BY <3>1, OwnerKeepsShape, Zenon
    <3>2. CASE StopRunner \/ KillRunner
      <4>1. UNCHANGED <<ownerVars, stateVars, statusVars, pc>>
        BY <3>2, Zenon DEF StopRunner, KillRunner
      <4> QED BY <4>1, Zenon DEF IInv, Idle, Active, OwnerInv, CallbackInv, StateOfPC, Pending,
         Joinable, ownerVars, stateVars, statusVars
    <3>3. ASSUME NEW r \in Ranks,
                 Task(r) \/ MainSetException(r) \/ MainReturn(r) \/ MainThrow(r)
          PROVE  (Idle \/ Active)' /\ ~fatal'
      <4>1. CASE TaskDecrement(r)
        BY <4>1, DecrementKeepsActive, Zenon DEF IInv, TaskDecrement, stateVars
      <4>2. CASE TaskCallback(r)
        BY <4>2, CallbackKeepsActive, Zenon DEF IInv, TaskCallback, stateVars
      <4> QED BY <3>3, <4>1, <4>2, TaskKeepsActive, Zenon DEF Task
    <3> QED BY <1>1, <3>1, <3>2, <3>3, Zenon DEF Next
  <2> QED BY <1>1, <2>1, TypeStep, StatusStep, Zenon DEF IInv
<1>2. CASE UNCHANGED vars
  <2>1. UNCHANGED <<owner, launched, m_runnable, m_instances, m_state, m_live, m_status,
                    m_remaining_instances, m_completion_callback, exception, pc, loaded,
                    callbacks, rethrown, fatal>>
    BY <1>2, Zenon DEF vars, ownerVars, stateVars, contextVars, statusVars
  <2>2. TypeOK' /\ StatusInv'
    BY <2>1, Zenon DEF IInv, TypeOK, StatusInv
  <2>3. Idle => Idle'
    BY <2>1, Zenon DEF Idle
  <2>4. Active => Active'
    BY <2>1, Zenon DEF Active, OwnerInv, CallbackInv, StateOfPC, Pending, Joinable
  <2> QED BY <2>1, <2>2, <2>3, <2>4, Zenon DEF IInv
<1> QED BY <1>1, <1>2, Zenon

(* For every number of instances, IInv holds in every reachable state. *)
THEOREM RunnerInvariant == Spec => []IInv
BY InitIInv, NextIInv, PTL DEF Spec

(* The members of Runner, Context and Runnable keep their types; in          *)
(* particular m_remaining_instances never drops below zero.                  *)
THEOREM TypeCorrect == Spec => []TypeOK
<1>1. IInv => TypeOK
  BY Zenon DEF IInv
<1> QED BY <1>1, RunnerInvariant, PTL

(* Whichever engine makes the last decrement of m_remaining_instances, the   *)
(* completion callback runs at most once and after every instance has been   *)
(* moved to Completed.                                                       *)
THEOREM CompletionIsLast == Spec => []CompletionOnce
<1>1. IInv => CompletionOnce
  <2> SUFFICES ASSUME IInv PROVE CompletionOnce
    BY Zenon
  <2>1. CASE Idle
    BY <2>1, SMTT(30) DEF Idle, CompletionOnce
  <2>2. CASE Active
    <3>1. callbacks # <<>> => Pending = {}
      BY <2>2, RanksFinite, Zenon DEF Active, CallbackInv
    <3> QED BY <2>2, <3>1, Zenon DEF Active, CallbackInv, Pending, StateOfPC, CompletionOnce
  <2> QED BY <2>1, <2>2, Zenon DEF IInv
<1> QED BY <1>1, RunnerInvariant, PTL

(* A Runner::await_join that returns has the completion callback behind it,  *)
(* unless an exception escaped main.                                         *)
THEOREM JoinIsLast == Spec => []JoinAfterCallback
<1>1. IInv => JoinAfterCallback
  <2> SUFFICES ASSUME IInv, owner = "joined", m_completion_callback,
                      \A r \in Ranks : pc[r] # "threw"
               PROVE  Len(callbacks) = 1
    BY Zenon DEF JoinAfterCallback
  <2>1. Active /\ callbacks \in Seq(BOOLEAN)
    BY Zenon DEF IInv, Idle, TypeOK
  <2>2. \A r \in Ranks : pc[r] = "done"
    BY <2>1, Zenon DEF Active, OwnerInv, Joinable
  <2>3. m_remaining_instances = 0
    BY <2>1, <2>2, RanksFinite, Zenon DEF Active, Pending
  <2>4. callbacks # <<>> /\ Len(callbacks) <= 1
    BY <2>1, <2>2, <2>3, Zenon DEF Active, CallbackInv
  <2>5. Len(callbacks) \in Nat \ {0}
    BY <2>1, <2>4, EmptySeq, Zenon
  <2>6. \A n \in Nat \ {0} : n <= 1 => n = 1
    OBVIOUS
  <2> QED BY <2>4, <2>5, <2>6, Zenon
<1> QED BY <1>1, RunnerInvariant, PTL

(* The completion callback never reports a failure nobody had. *)
THEOREM ReportedFailureIsReal == Spec => []FailureIsReal
<1>1. IInv => FailureIsReal
  BY Zenon DEF IInv, StatusInv, FailureIsReal
<1> QED BY <1>1, RunnerInvariant, PTL

(* No CHECK of Runner::update_state can fail. *)
THEOREM ChecksHold == Spec => []NoCheckFails
<1>1. IInv => NoCheckFails
  BY Zenon DEF IInv, NoCheckFails
<1> QED BY <1>1, RunnerInvariant, PTL

(* The runs' specification contains that of the Runner, so that the above    *)
(* hold of it, too.                                                          *)
THEOREM RunnerWithinLaunch == RunnerSpec => Spec
<1>1. RunnerInit => Init
  BY Zenon DEF RunnerInit
<1>2. [RunnerNext]_<<live, vars, launchVars>> => [Next]_vars
  BY Zenon DEF RunnerNext
<1> QED BY <1>1, <1>2, PTL DEF RunnerSpec, Spec
-----------------------------------------------------------------------------
(* The contexts are numbered from 0 and share the resources of the first,    *)
(* whose barrier is for all of them.                                         *)
Contexts ==
  /\ request \in Requests
  /\ \E n \in Nat : L!Ranks = 0 .. n - 1
  /\ \A r \in L!Ranks : context[r].resources = 0 /\ context[r].barrier = L!size

(* What every instance has: its place, its local context once it has passed  *)
(* Context::init, its counts at the barrier.                                 *)
Instances ==
  /\ DOMAIN instance = L!Ranks /\ DOMAIN found = L!Ranks
  /\ fiber_local \in [L!Ranks -> L!Ranks \cup {L!None}]
  /\ \A r \in L!Ranks : instance[r] \notin {"queued", "launched"} => fiber_local[r] = r
  /\ \A r \in L!Ranks : fiber_local[r] \in {L!None, r}
  /\ arrived \in [L!Ranks -> Nat] /\ passed \in [L!Ranks -> Nat]
  /\ m_runner = "none" => L!Ranks = {} /\ failed = {}

(* The mutex of the resources is held by at most one instance. *)
Locks ==
  /\ DOMAIN locked = L!Ranks
  /\ \A r \in L!Ranks : r # 0 => locked[r] = {}
  /\ \A r \in L!Ranks : \A p, q \in locked[r] : p = q
  /\ \A r \in L!Ranks : locked[r] \subseteq L!Ranks

(* Once the Runner has let go of the instances, all of them are done. *)
Released ==
  released => /\ m_runner = "moved" /\ next = L!size
            /\ \A r \in L!Ranks : instance[r] = "done" /\ engine[r].m_thread \in {"null", "exited"}

(* Instances find their own context, and leave a barrier all have reached. *)
Found ==
  /\ \A r \in L!Ranks : found[r] \in {L!None, r}
  /\ failed \subseteq {r \in L!Ranks : found[r] # L!None}

Met == \A q, r \in L!Ranks : passed[r] <= arrived[q]

LaunchInv == Contexts /\ Instances /\ Locks /\ Released /\ Found /\ Met
-----------------------------------------------------------------------------
(* The ranks can be counted. *)
LEMMA RanksCounted ==
  ASSUME NEW n \in Nat
  PROVE  IsFiniteSet(0 .. n - 1) /\ Cardinality(0 .. n - 1) = n
BY FS_Interval, SMTT(30)

(* Launch counts with the Cardinality of its own copy of FiniteSets. *)
LEMMA LaunchCounts == \A S : L!Cardinality(S) = Cardinality(S)
BY Zenon DEF L!Cardinality, Cardinality

(* As many as there are contexts. *)
LEMMA SizeCounts ==
  ASSUME Contexts
  PROVE  \E n \in Nat : L!Ranks = 0 .. n - 1 /\ L!size = n /\ IsFiniteSet(L!Ranks)
BY RanksCounted, LaunchCounts, Zenon DEF Contexts, L!size

(* A launch that has not begun satisfies the invariant. *)
LEMMA LaunchStart == L!Init => LaunchInv
<1> SUFFICES ASSUME L!Init PROVE LaunchInv
  BY Zenon
<1> USE DEF L!Init
<1>1. L!Ranks = {}
  BY Zenon DEF L!Ranks, L!Empty
<1>2. Contexts
  <2>1. 0 \in Nat /\ 0 .. 0 - 1 = {}
    OBVIOUS
  <2> QED BY <1>1, <2>1, Zenon DEF Contexts
<1>3. Instances /\ Locks /\ Released
  BY <1>1, Zenon DEF Instances, Locks, Released, L!Empty
<1>4. Found /\ Met
  BY <1>1, Zenon DEF Found, Met
<1> QED BY <1>2, <1>3, <1>4, Zenon DEF LaunchInv

(* A step that makes no contexts keeps the ranks, and the locks it leaves. *)
LEMMA RanksKept ==
  ASSUME LaunchInv, UNCHANGED <<request, context>>
  PROVE  /\ L!Ranks' = L!Ranks /\ L!size' = L!size /\ Contexts'
         /\ UNCHANGED locked => Locks'
<1>1. L!Ranks' = L!Ranks /\ L!size' = L!size
  BY Zenon DEF L!Ranks, L!size
<1>2. Contexts'
  BY <1>1, Zenon DEF LaunchInv, Contexts
<1>3. UNCHANGED locked => Locks'
  BY <1>1, Zenon DEF LaunchInv, Locks
<1> QED BY <1>1, <1>2, <1>3, Zenon

(* A step that leaves all but the outcome keeps everything. *)
LEMMA LaunchStutters ==
  ASSUME LaunchInv, UNCHANGED <<L!launchVars, L!engineVars, L!syncVars, L!instanceVars>>
  PROVE  LaunchInv'
<1>0. UNCHANGED <<request, context, locked, m_runner, released, next, engine, instance, fiber_local, found,
                  failed, arrived, passed>>
  BY Zenon DEF L!launchVars, L!engineVars, L!syncVars, L!instanceVars
<1>1. L!Ranks' = L!Ranks /\ L!size' = L!size /\ Contexts' /\ Locks'
  BY <1>0, RanksKept, Zenon
<1>2. Instances' /\ Released'
  BY <1>0, <1>1, Zenon DEF LaunchInv, Instances, Released
<1>3. Found' /\ Met'
  BY <1>0, <1>1, Zenon DEF LaunchInv, Found, Met
<1> QED BY <1>1, <1>2, <1>3, Zenon DEF LaunchInv

(* prepare_launcher: one context per engine. *)
LEMMA LaunchPrepare ==
  ASSUME LaunchInv, L!prepare_launcher PROVE LaunchInv'
<1>1. CASE L!Construct(L!Launchers) /\ m_runner = "none"
  <2>0. PICK n \in Int : n = request.pe_count * request.engines_per_pe
    BY RequestsAssumption, SMTT(30) DEF LaunchInv, Contexts
  <2>1. n \in Nat /\ DOMAIN L!Launchers = 0 .. n - 1
    BY <2>0, RequestsAssumption, SMTT(30) DEF L!Launchers, LaunchInv, Contexts
  <2>2. /\ Cardinality(DOMAIN L!Launchers) = n
        /\ context' = L!make_contexts(Groups[request.name], n)
    BY <1>1, <2>1, RanksCounted, LaunchCounts, Zenon DEF L!Construct
  <2>3. L!Ranks' = 0 .. n - 1 /\ L!size' = n
    BY <2>1, <2>2, RanksCounted, LaunchCounts, Zenon DEF L!make_contexts, L!Ranks, L!size
  <2>4. Contexts'
    <3>1. request' \in Requests
      BY <1>1, Zenon DEF L!Construct, Contexts, LaunchInv
    <3>2. \A r \in L!Ranks' : context'[r].resources = 0 /\ context'[r].barrier = n
      BY <2>2, <2>3, Zenon DEF L!make_contexts
    <3> QED BY <2>1, <2>3, <3>1, <3>2, Zenon DEF Contexts
  <2>5. ~released' /\ failed' = {} /\ m_runner' = "held"
    BY <1>1, Zenon DEF LaunchInv, Instances, Released, L!Construct
  <2>6. Instances' /\ Locks' /\ Released'
    BY <1>1, <2>1, <2>3, <2>5, Zenon DEF Instances, Locks, Released, L!Construct
  <2>7. Found' /\ Met'
    BY <1>1, <2>1, <2>3, <2>5, SMTT(30) DEF Found, Met, L!Construct
  <2> QED BY <2>4, <2>6, <2>7, Zenon DEF LaunchInv
<1> QED BY <1>1, LaunchStutters, Zenon DEF L!prepare_launcher, L!Abort

(* Launcher::ignition, its destruction and the release of the instances      *)
(* leave them alone; Runner::enqueue gives the next one to its engine.       *)
LEMMA LaunchOwner ==
  ASSUME LaunchInv, (\E c \in Callers : L!Ignition(c)) \/ L!DropUnused \/ L!launch_task \/ L!Release
  PROVE  LaunchInv'
<1>1. CASE /\ m_runner = "held" /\ m_runner' \in {"moved", "dropped"}
           /\ UNCHANGED <<request, program, released, next, L!engineVars, L!syncVars, L!instanceVars>>
  <2>1. L!Ranks' = L!Ranks /\ L!size' = L!size /\ Contexts' /\ Locks'
    BY <1>1, RanksKept, Zenon DEF L!engineVars, L!syncVars
  <2>2. Instances' /\ Released' /\ Found' /\ Met'
    BY <1>1, <2>1, Zenon DEF LaunchInv, Instances, Released, Found, Met, L!engineVars, L!syncVars,
       L!instanceVars
  <2> QED BY <2>1, <2>2, Zenon DEF LaunchInv
<1>2. CASE /\ L!launch_task
           /\ instance' = [instance EXCEPT ![next] = "launched"]
           /\ UNCHANGED <<request, m_runner, released, context, L!syncVars, fiber_local, found, failed>>
  <2>1. L!Ranks' = L!Ranks /\ L!size' = L!size /\ Contexts' /\ Locks'
    BY <1>2, RanksKept, Zenon DEF L!syncVars
  <2>2. L!size \in Nat /\ next < L!size
    BY <1>2, SizeCounts, Zenon DEF LaunchInv, L!launch_task
  <2>3. ~released'
    BY <1>2, <2>2, SMTT(30) DEF LaunchInv, Released
  <2>4. Instances' /\ Released' /\ Found' /\ Met'
    BY <1>2, <2>1, <2>3, Zenon DEF LaunchInv, Instances, Released, Found, Met, L!syncVars
  <2> QED BY <2>1, <2>4, Zenon DEF LaunchInv
<1>3. CASE L!Release
  <2>1. L!Ranks' = L!Ranks /\ L!size' = L!size /\ Contexts' /\ Locks'
    BY <1>3, RanksKept, Zenon DEF L!Release, L!engineVars, L!syncVars
  <2>2. Instances' /\ Released' /\ Found' /\ Met'
    BY <1>3, <2>1, Zenon DEF LaunchInv, Instances, Released, Found, Met, L!Release, L!engineVars, L!syncVars,
       L!instanceVars
  <2> QED BY <2>1, <2>2, Zenon DEF LaunchInv
<1>4. CASE \E c \in Callers : L!Ignition(c)
  BY <1>1, <1>4, LaunchStutters, Zenon DEF L!Ignition, L!Abort
<1>5. CASE L!DropUnused
  BY <1>1, <1>5, LaunchStutters, Zenon DEF L!DropUnused, L!Abort
<1>6. CASE L!launch_task
  BY <1>2, <1>6, LaunchStutters, Zenon DEF L!launch_task, L!Abort
<1> QED BY <1>3, <1>4, <1>5, <1>6, Zenon

(* Context::init, Runnable::main and the end of the task and its thread. *)
LEMMA LaunchRun ==
  ASSUME LaunchInv, NEW r \in L!Ranks, L!InitContext(r) \/ L!main(r) \/ L!Finish(r) \/ L!ThreadExit(r)
  PROVE  LaunchInv'
<1>1. CASE /\ L!InitContext(r) \/ L!main(r) \/ L!Finish(r) \/ L!ThreadExit(r)
           /\ instance' \in {instance, [instance EXCEPT ![r] = "main"], [instance EXCEPT ![r] = "run"],
                       [instance EXCEPT ![r] = "done"]}
           /\ fiber_local' \in {fiber_local, [fiber_local EXCEPT ![r] = r]}
           /\ instance[r] \in {"queued", "launched"} /\ instance' # instance => fiber_local'[r] = r
           /\ UNCHANGED <<request, m_runner, released, next, context, locked, arrived, passed, found,
                           failed>>
  <2>1. L!Ranks' = L!Ranks /\ L!size' = L!size /\ Contexts' /\ Locks'
    BY <1>1, RanksKept, Zenon
  <2>2. ~released
    BY <1>1, Zenon DEF LaunchInv, Released, L!InitContext, L!main, L!Finish, L!ThreadExit
  <2>3. Found' /\ Met' /\ Released'
    BY <1>1, <2>1, <2>2, Zenon DEF LaunchInv, Found, Met, Released
  <2>4. Instances'
    <3>1. Instances
      BY Zenon DEF LaunchInv
    <3>2. DOMAIN instance' = L!Ranks /\ DOMAIN found' = L!Ranks
      BY <1>1, <3>1, Zenon DEF Instances
    <3>3. fiber_local' \in [L!Ranks -> L!Ranks \cup {L!None}]
          /\ \A q \in L!Ranks : fiber_local'[q] \in {L!None, q}
      BY <1>1, <3>1, Zenon DEF Instances
    <3>4. \A q \in L!Ranks : instance'[q] \notin {"queued", "launched"} => fiber_local'[q] = q
      BY <1>1, <3>1, Zenon DEF Instances
    <3>5. UNCHANGED <<arrived, passed, m_runner, failed>>
      BY <1>1, Zenon
    <3> QED BY <2>1, <3>1, <3>2, <3>3, <3>4, <3>5, Zenon DEF Instances
  <2> QED BY <2>1, <2>3, <2>4, Zenon DEF LaunchInv
<1> USE DEF L!launchVars, L!engineVars, L!syncVars, L!instanceVars
<1>2. CASE L!InitContext(r)
  <2>1. fiber_local'[r] = r
    BY <1>2, Zenon DEF L!InitContext, LaunchInv, Instances
  <2> QED BY <1>1, <1>2, <2>1, Zenon DEF L!InitContext
<1>3. CASE L!main(r)
  BY <1>1, <1>3, LaunchStutters, Zenon DEF L!main, L!Abort
<1>4. CASE L!Finish(r)
  BY <1>1, <1>4, Zenon DEF L!Finish
<1>5. CASE L!ThreadExit(r)
  BY <1>1, <1>5, Zenon DEF L!ThreadExit
<1> QED BY <1>2, <1>3, <1>4, <1>5, Zenon

(* An instance that finds or reports to a context is past Context::init, so  *)
(* the context is its own.                                                   *)
LEMMA LaunchGet ==
  ASSUME LaunchInv, NEW r \in L!Ranks, L!get_runtime_context(r) \/ L!set_exception(r)
  PROVE  LaunchInv'
<1>1. /\ instance[r] = "run"
      /\ found' = [found EXCEPT ![r] = fiber_local[r]]
      /\ failed' \in {failed, failed \cup {fiber_local[r]}}
      /\ UNCHANGED <<request, m_runner, released, next, context, engine, locked, arrived, passed, instance,
                      fiber_local>>
  BY Zenon DEF L!get_runtime_context, L!set_exception, L!Calls, L!Returns, L!launchVars, L!engineVars, L!syncVars
<1>2. L!Ranks' = L!Ranks /\ L!size' = L!size /\ Contexts' /\ Locks'
  BY <1>1, RanksKept, Zenon
<1>3. fiber_local[r] = r /\ r # L!None
  BY <1>1, SizeCounts, SMTT(30) DEF LaunchInv, Instances, L!None
<1>4. Instances' /\ Released' /\ Met'
  BY <1>1, <1>2, Zenon DEF LaunchInv, Instances, Released, Met
<1>5. Found'
  <2>1. /\ DOMAIN found = L!Ranks /\ r \in L!Ranks
        /\ \A q \in L!Ranks : found[q] \in {L!None, q}
        /\ failed \subseteq {q \in L!Ranks : found[q] # L!None}
    BY Zenon DEF LaunchInv, Instances, Found
  <2>2. \A q \in L!Ranks : found'[q] = IF q = r THEN r ELSE found[q]
    BY <1>1, <1>3, <2>1, Zenon
  <2>3. failed' \subseteq failed \cup {r}
    BY <1>1, <1>3, Zenon
  <2> QED BY <1>2, <1>3, <2>1, <2>2, <2>3, Zenon DEF Found
<1> QED BY <1>2, <1>4, <1>5, Zenon DEF LaunchInv

(* Context::lock and unlock: alone, or with nobody in possession. *)
LEMMA LaunchLock ==
  ASSUME LaunchInv, NEW r \in L!Ranks, L!lock(r) \/ L!unlock(r)
  PROVE  LaunchInv'
<1>1. UNCHANGED <<request, m_runner, released, next, context, engine, instance, arrived, passed, fiber_local,
                  found, failed>>
  BY Zenon DEF L!lock, L!unlock, L!Returns, L!launchVars, L!engineVars
<1>2. L!Ranks' = L!Ranks /\ L!size' = L!size /\ Contexts'
  BY <1>1, RanksKept, Zenon
<1>3. Instances' /\ Released' /\ Found' /\ Met'
  BY <1>1, <1>2, Zenon DEF LaunchInv, Instances, Released, Found, Met
<1>4. PICK n \in Nat : L!Ranks = 0 .. n - 1 /\ L!size = n
  BY SizeCounts, Zenon DEF LaunchInv
<1>5. L!Resources(r) = 0 /\ 0 \in L!Ranks
  BY <1>4, SMTT(30) DEF LaunchInv, Contexts, L!Resources
<1>6. L!Alone => \A q \in L!Ranks : q = r
  BY <1>4, SMTT(30) DEF L!Alone
<1>7. Locks'
  <2>1. CASE L!lock(r)
    <3>1. locked' = [locked EXCEPT ![0] = @ \cup {r}] /\ (L!Alone \/ locked[0] = {})
      BY <1>5, <2>1, Zenon DEF L!lock
    <3>2. locked'[0] = locked[0] \cup {r} /\ locked[0] \subseteq {r}
      BY <1>5, <1>6, <3>1, Zenon DEF LaunchInv, Locks
    <3> QED BY <1>2, <3>1, <3>2, SMTT(30) DEF LaunchInv, Locks
  <2>2. CASE L!unlock(r)
    <3>1. locked' = [locked EXCEPT ![0] = @ \ {r}]
      BY <1>5, <2>2, Zenon DEF L!unlock
    <3> QED BY <1>2, <1>5, <3>1, SMTT(30) DEF LaunchInv, Locks
  <2> QED BY <2>1, <2>2, Zenon
<1> QED BY <1>2, <1>3, <1>7, Zenon DEF LaunchInv

(* Context::barrier opens when all ranks have arrived as often. *)
LEMMA LaunchBarrier ==
  ASSUME LaunchInv, NEW r \in L!Ranks, L!barrier(r) \/ L!wait(r)
  PROVE  LaunchInv'
<1>0. Instances /\ Met
  BY Zenon DEF LaunchInv
<1>1. /\ instance[r] \in {"run", "barrier"}
      /\ instance' \in {[instance EXCEPT ![r] = "run"], [instance EXCEPT ![r] = "barrier"]}
      /\ UNCHANGED <<request, m_runner, released, next, context, engine, locked, fiber_local, found,
                      failed>>
  BY Zenon DEF L!barrier, L!wait, L!Calls, L!Returns, L!launchVars, L!engineVars
<1>2. L!Ranks' = L!Ranks /\ L!size' = L!size /\ Contexts' /\ Locks'
  BY <1>1, RanksKept, Zenon
<1>3. Found' /\ Released'
  BY <1>1, <1>2, Zenon DEF LaunchInv, Found, Released
<1>4. arrived' \in [L!Ranks -> Nat] /\ passed' \in [L!Ranks -> Nat] /\ Met'
  <2>1. CASE L!barrier(r)
    <3>1. /\ arrived' \in [L!Ranks -> Nat] /\ passed' = passed
          /\ \A q \in L!Ranks : arrived[q] <= arrived'[q]
      BY <1>0, <2>1, SMTT(30) DEF Instances, L!barrier
    <3> QED BY <1>0, <1>2, <3>1, SMTT(30) DEF Instances, Met
  <2>2. CASE L!wait(r)
    <3> DEFINE there == {q \in L!Ranks : L!Resources(q) = L!Resources(r) /\ arrived[q] >= arrived[r]}
    <3>1. PICK n \in Nat : L!Ranks = 0 .. n - 1 /\ L!size = n /\ IsFiniteSet(L!Ranks)
      BY SizeCounts, Zenon DEF LaunchInv
    <3>2. /\ IsFiniteSet(there) /\ Cardinality(there) \in Nat /\ Cardinality(there) <= n
          /\ Cardinality(there) = n => there = L!Ranks
      BY <3>1, FS_Subset, FS_CardinalityType, LaunchCounts, SMTT(30) DEF L!size
    <3>3. \A q \in L!Ranks : arrived[r] <= arrived[q]
      <4>1. CASE L!Alone
        BY <1>0, <3>1, <4>1, SMTT(30) DEF L!Alone, Instances
      <4>2. CASE Cardinality(there) >= context[r].barrier
        <5>1. context[r].barrier = n
          BY <3>1, Zenon DEF LaunchInv, Contexts
        <5> HIDE DEF there
        <5>2. there = L!Ranks
          BY <3>2, <4>2, <5>1, SMTT(30)
        <5> QED BY <1>0, <5>2, Zenon DEF there, Instances
      <4> QED BY <2>2, <4>1, <4>2, LaunchCounts, Zenon DEF L!wait
    <3>4. arrived' = arrived /\ passed' = [passed EXCEPT ![r] = arrived[r]]
      BY <2>2, Zenon DEF L!wait
    <3> QED BY <1>0, <1>2, <3>3, <3>4, Zenon DEF Instances, Met
  <2> QED BY <2>1, <2>2, Zenon
<1>5. Instances'
  BY <1>0, <1>1, <1>2, <1>4, Zenon DEF Instances
<1> QED BY <1>2, <1>3, <1>4, <1>5, Zenon DEF LaunchInv

(* Every step of the launch keeps the invariant. *)
LEMMA LaunchStep == ASSUME LaunchInv, [L!Next]_launchVars PROVE LaunchInv'
<1>1. CASE UNCHANGED launchVars
  BY <1>1, LaunchStutters, Zenon DEF launchVars, L!launchVars, L!engineVars, L!syncVars, L!instanceVars
<1> QED BY <1>1, LaunchPrepare, LaunchOwner, LaunchRun, LaunchGet, LaunchLock, LaunchBarrier, SMTT(30)
        DEF L!Next, L!Instance

(* The invariant contains what a Context promises. *)
LEMMA LaunchSound == ASSUME LaunchInv PROVE L!InstancesSynchronised
<1> DEFINE holders == UNION {locked[r] : r \in L!Ranks}
<1>1. \A p, q \in holders : p = q
  <2> SUFFICES ASSUME NEW p \in holders, NEW q \in holders PROVE p = q
    BY Zenon
  <2>1. PICK a \in L!Ranks : p \in locked[a]
    BY Zenon
  <2>2. PICK b \in L!Ranks : q \in locked[b]
    BY Zenon
  <2>3. a = 0 /\ b = 0
    BY <2>1, <2>2, Zenon DEF LaunchInv, Locks
  <2> QED BY <2>1, <2>2, <2>3, Zenon DEF LaunchInv, Locks
<1> HIDE DEF holders
<1>2. ASSUME NEW p \in holders PROVE holders = {p}
  BY <1>1, Zenon
<1>3. Cardinality(holders) <= 1
  BY <1>2, FS_EmptySet, FS_Singleton, SMTT(30)
<1> QED BY <1>3, LaunchCounts, Zenon DEF holders, LaunchInv, Released, Found, Met, L!InstancesSynchronised

(* The instances of one Runnable find their own Context with                 *)
(* get_runtime_context and report errors to no other, hold its lock one at a *)
(* time, leave a barrier only when all have come, and their threads end      *)
(* before their engines, whatever is launched and whatever it calls.         *)
THEOREM InstancesAreSynchronised == RunnerSpec => []InstancesSynchronised
<1>1. RunnerInit => LaunchInv
  BY LaunchStart, Zenon DEF RunnerInit
<1>2. LaunchInv /\ [RunnerNext]_<<live, vars, launchVars>> => LaunchInv'
  <2>1. [RunnerNext]_<<live, vars, launchVars>> => [L!Next]_launchVars
    BY Zenon DEF RunnerNext
  <2> QED BY <2>1, LaunchStep, Zenon
<1>3. LaunchInv => InstancesSynchronised
  BY LaunchSound, Zenon DEF InstancesSynchronised
<1> QED BY <1>1, <1>2, <1>3, PTL DEF RunnerSpec
=============================================================================
