----------------------------- MODULE ThreadPool -----------------------------
(***************************************************************************)
(* system::ThreadPool: std::threads pop packaged tasks from a bounded      *)
(* boost::fibers::buffered_channel that any thread or fiber pushes to.     *)
(* The channel is external: push blocks while it is full and fails once it *)
(* is closed, pop blocks while it is empty and fails once it is also       *)
(* closed.                                                                 *)
(***************************************************************************)
EXTENDS Naturals, Sequences, TLAPS

CONSTANTS Tasks,     \* tasks that may be enqueued, once each
          Threads,   \* one thread per cpu of m_cpuset
          Room       \* elements m_channel holds

VARIABLES m_channel, closed,   \* the channel's elements, and is_closed()
          task,                \* what has become of every task
          thread,              \* what every thread does
          pool                 \* life of the object: alive, joining, destroyed

vars == <<m_channel, closed, task, thread, pool>>

Popping == "popping"
Exited  == "exited"

Init ==
  /\ m_channel = <<>>
  /\ closed = FALSE
  /\ task = [t \in Tasks |-> "new"]
  /\ thread = [w \in Threads |-> Popping]
  /\ pool = "alive"

(* buffered_channel::push *)
Push(t) == m_channel' = Append(m_channel, t)

(* ThreadPool::enqueue: blocks in push until there is room or the channel is *)
(* closed, and throws in the second case.                                    *)
Enqueue(t) ==
  /\ pool # "destroyed" /\ task[t] = "new"
  /\ \/ /\ ~closed /\ Len(m_channel) < Room
        /\ Push(t)
        /\ task' = [task EXCEPT ![t] = "queued"]
     \/ /\ closed
        /\ task' = [task EXCEPT ![t] = "thrown"]
        /\ UNCHANGED m_channel
  /\ UNCHANGED <<closed, thread, pool>>

(* The loop of a pool thread: pop ... *)
Pop(w) ==
  /\ thread[w] = Popping /\ m_channel # <<>>
  /\ thread' = [thread EXCEPT ![w] = Head(m_channel)]
  /\ task' = [task EXCEPT ![Head(m_channel)] = "running"]
  /\ m_channel' = Tail(m_channel)
  /\ UNCHANGED <<closed, pool>>

(* ... execute the task, whose result or exception goes to its future ... *)
RunTask(w) ==
  /\ thread[w] \in Tasks
  /\ task' = [task EXCEPT ![thread[w]] = "done"]
  /\ thread' = [thread EXCEPT ![w] = Popping]
  /\ UNCHANGED <<m_channel, closed, pool>>

(* Mutant of Exit: a thread leaves as soon as the channel is closed. *)
ExitWhenClosed(w) ==
  /\ thread[w] = Popping /\ closed
  /\ thread' = [thread EXCEPT ![w] = Exited]
  /\ UNCHANGED <<m_channel, closed, task, pool>>

(* ... until pop reports closed, which it does when nothing is left. *)
Exit(w) ==
  /\ thread[w] = Popping /\ closed /\ m_channel = <<>>
  /\ thread' = [thread EXCEPT ![w] = Exited]
  /\ UNCHANGED <<m_channel, closed, task, pool>>

(* ThreadPool::shutdown *)
Shutdown ==
  /\ pool = "alive" /\ ~closed
  /\ closed' = TRUE
  /\ UNCHANGED <<m_channel, task, thread, pool>>

(* Mutant of Destroy: the threads are joined without closing the channel. *)
DestroyNoShutdown ==
  /\ pool = "alive"
  /\ pool' = "joining"
  /\ UNCHANGED <<m_channel, closed, task, thread>>

(* ThreadPool::~ThreadPool: close the channel if it is open, join the threads. *)
Destroy ==
  /\ pool = "alive"
  /\ closed' = TRUE
  /\ pool' = "joining"
  /\ UNCHANGED <<m_channel, task, thread>>

Destroyed ==
  /\ pool = "joining"
  /\ \A w \in Threads : thread[w] = Exited
  /\ pool' = "destroyed"
  /\ UNCHANGED <<m_channel, closed, task, thread>>

Worker(w) == Pop(w) \/ RunTask(w) \/ Exit(w)

Next ==
  \/ \E t \in Tasks : Enqueue(t)
  \/ \E w \in Threads : Worker(w)
  \/ Shutdown \/ Destroy \/ Destroyed

(* The operating system schedules the pool's threads and the joining owner. *)
Fairness == WF_vars(Destroyed) /\ \A w \in Threads : WF_vars(Worker(w))

Spec == Init /\ [][Next]_vars /\ Fairness
-----------------------------------------------------------------------------
(* What the abstract pool sees of a task. *)
Outcome == [t \in Tasks |-> CASE task[t] = "new" -> "new"
                              [] task[t] \in {"queued", "running"} -> "accepted"
                              [] task[t] = "done" -> "executed"
                              [] task[t] = "thrown" -> "refused"]

Abstract == INSTANCE TaskPool WITH task <- Outcome, joined <- pool = "destroyed"

(* ThreadPool keeps the promise of a task pool: what enqueue accepts is      *)
(* executed, shutdown or not; what it refuses, it refuses by throwing; the   *)
(* destructor returns after the last accepted task.                          *)
ImplementsTaskPool == Abstract!Spec

(* The destructor returns: closing the channel wakes every thread. *)
DestructorReturns == (pool = "joining") ~> (pool = "destroyed")
-----------------------------------------------------------------------------
(* For all sets of tasks and threads and every size of the channel,          *)
(* ThreadPool takes only the steps that the abstract TaskPool allows.  A     *)
(* pool has a thread (m_cpuset is not empty), and a task is neither of the   *)
(* two marks of a thread that has none.                                      *)
PoolAssumption == Threads # {} /\ Popping \notin Tasks /\ Exited \notin Tasks

Types ==
  /\ m_channel \in Seq(Tasks)
  /\ closed \in BOOLEAN
  /\ task \in [Tasks -> {"new", "queued", "running", "done", "thrown"}]
  /\ thread \in [Threads -> Tasks \cup {Popping, Exited}]
  /\ pool \in {"alive", "joining", "destroyed"}

(* The channel holds the queued tasks, each of them once. *)
Queued ==
  /\ \A t \in Tasks : task[t] = "queued" <=> \E i \in 1 .. Len(m_channel) : m_channel[i] = t
  /\ \A i, j \in 1 .. Len(m_channel) : m_channel[i] = m_channel[j] => i = j

(* The threads hold the running tasks, each of them once. *)
Held ==
  /\ \A t \in Tasks : task[t] = "running" <=> \E w \in Threads : thread[w] = t
  /\ \A w, v \in Threads : thread[w] \in Tasks /\ thread[w] = thread[v] => w = v

(* Threads leave a closed and empty channel only. *)
Left ==
  /\ \A w \in Threads : thread[w] = Exited => closed /\ m_channel = <<>>
  /\ pool # "alive" => closed
  /\ pool = "destroyed" => \A w \in Threads : thread[w] = Exited

Inv == Types /\ Queued /\ Held /\ Left
-----------------------------------------------------------------------------
(* The invariant holds of a pool that has just been made. *)
LEMMA PoolInit == ASSUME PoolAssumption, Init PROVE Inv
<1>1. m_channel = <<>> /\ Len(m_channel) = 0
  BY Zenon DEF Init
<1>2. Types
  <2>1. m_channel \in Seq(Tasks)
    BY <1>1, SMTT(30)
  <2>2. /\ task \in [Tasks -> {"new", "queued", "running", "done", "thrown"}]
        /\ thread \in [Threads -> Tasks \cup {Popping, Exited}]
    BY Zenon DEF Init
  <2> QED BY <2>1, <2>2, Zenon DEF Init, Types
<1>3. Queued
  BY <1>1, SMTT(30) DEF Init, Queued
<1>4. Held /\ Left
  BY <1>1, Zenon DEF Init, Held, Left, PoolAssumption, Popping, Exited
<1> QED BY <1>2, <1>3, <1>4, Zenon DEF Inv

(* enqueue puts a new task at the end of an open channel, or throws. *)
LEMMA PoolEnqueue == ASSUME PoolAssumption, Inv, NEW t \in Tasks, Enqueue(t) PROVE Inv'
<1>1. CASE ~closed /\ Len(m_channel) < Room /\ Push(t) /\ task' = [task EXCEPT ![t] = "queued"]
  <2>1. m_channel' = Append(m_channel, t) /\ Len(m_channel') = Len(m_channel) + 1
    BY <1>1, SMTT(30) DEF Push, Inv, Types
  <2>2. /\ \A i \in 1 .. Len(m_channel) : m_channel'[i] = m_channel[i]
        /\ m_channel'[Len(m_channel) + 1] = t
    BY <2>1, SMTT(30) DEF Inv, Types
  <2>3. Len(m_channel) \in Nat
    BY SMTT(30) DEF Inv, Types
  <2>4. \A i \in 1 .. Len(m_channel) : m_channel[i] # t
    BY Zenon DEF Inv, Queued, Enqueue
  <2>5. UNCHANGED <<closed, thread, pool>>
    BY Zenon DEF Enqueue
  <2>6. Types'
    BY <1>1, <2>1, <2>5, SMTT(30) DEF Inv, Types
  <2>7. Queued'
    <3>1. ASSUME NEW u \in Tasks
          PROVE  task'[u] = "queued" <=> \E i \in 1 .. Len(m_channel') : m_channel'[i] = u
      <4>1. CASE u = t
        BY <1>1, <2>1, <2>2, <2>3, <4>1, SMTT(30) DEF Inv, Types
      <4>2. CASE u # t
        BY <1>1, <2>1, <2>2, <2>3, <4>2, SMTT(30) DEF Inv, Types, Queued
      <4> QED BY <4>1, <4>2, Zenon
    <3>2. ASSUME NEW i \in 1 .. Len(m_channel'), NEW j \in 1 .. Len(m_channel'),
                 m_channel'[i] = m_channel'[j]
          PROVE  i = j
      BY <2>1, <2>2, <2>3, <2>4, <3>2, SMTT(30) DEF Inv, Queued
    <3> QED BY <3>1, <3>2, Zenon DEF Queued
  <2>8. Held'
    BY <1>1, <2>5, SMTT(30) DEF Inv, Types, Held, Enqueue
  <2>9. Left'
    BY <1>1, <2>5, Zenon DEF Inv, Left
  <2> QED BY <2>6, <2>7, <2>8, <2>9, Zenon DEF Inv
<1>2. CASE closed /\ task' = [task EXCEPT ![t] = "thrown"] /\ UNCHANGED m_channel
  <2>1. UNCHANGED <<m_channel, closed, thread, pool>>
    BY <1>2, Zenon DEF Enqueue
  <2>2. Types'
    BY <1>2, <2>1, Zenon DEF Inv, Types
  <2>3. Queued'
    BY <1>2, <2>1, SMTT(30) DEF Inv, Types, Queued, Enqueue
  <2>4. Held' /\ Left'
    BY <1>2, <2>1, SMTT(30) DEF Inv, Types, Held, Left, Enqueue
  <2> QED BY <2>2, <2>3, <2>4, Zenon DEF Inv
<1> QED BY <1>1, <1>2, Zenon DEF Enqueue

(* A popped task was queued; it leaves the channel and is the thread's. *)
LEMMA PoolPop ==
  ASSUME PoolAssumption, Inv, NEW w \in Threads, Pop(w)
  PROVE  Inv' /\ Head(m_channel) \in Tasks /\ task[Head(m_channel)] = "queued"
<1> DEFINE h == Head(m_channel)
<1>1. /\ Len(m_channel) \in Nat /\ Len(m_channel) >= 1 /\ h = m_channel[1] /\ h \in Tasks
      /\ Len(m_channel') = Len(m_channel) - 1
      /\ \A i \in 1 .. Len(m_channel') : m_channel'[i] = m_channel[i + 1]
      /\ m_channel' \in Seq(Tasks)
  BY SMTT(30) DEF Pop, Inv, Types
<1>2. task[h] = "queued"
  BY <1>1, SMTT(30) DEF Inv, Queued
<1>3. /\ thread[w] = Popping /\ thread' = [thread EXCEPT ![w] = h]
      /\ task' = [task EXCEPT ![h] = "running"] /\ UNCHANGED <<closed, pool>>
  BY Zenon DEF Pop
<1> HIDE DEF h
<1>4. Types'
  BY <1>1, <1>3, Zenon DEF Inv, Types
<1>5. Queued'
  <2>1. ASSUME NEW u \in Tasks
        PROVE  task'[u] = "queued" <=> \E i \in 1 .. Len(m_channel') : m_channel'[i] = u
    <3>1. CASE u = h
      <4>1. \A i \in 1 .. Len(m_channel') : m_channel'[i] # h
        BY <1>1, SMTT(30) DEF Inv, Queued
      <4> QED BY <1>1, <1>3, <3>1, <4>1, Zenon DEF Inv, Types
    <3>2. CASE u # h
      <4>1. task'[u] = task[u]
        BY <1>3, <3>2, Zenon DEF Inv, Types
      <4>2. task[u] = "queued" <=> \E i \in 1 .. Len(m_channel) : m_channel[i] = u
        BY Zenon DEF Inv, Queued
      <4>3. (\E i \in 1 .. Len(m_channel) : m_channel[i] = u)
              => \E i \in 1 .. Len(m_channel') : m_channel'[i] = u
        <5> SUFFICES ASSUME NEW i \in 1 .. Len(m_channel), m_channel[i] = u
                     PROVE  \E k \in 1 .. Len(m_channel') : m_channel'[k] = u
          BY Zenon
        <5>1. i # 1 /\ i - 1 \in 1 .. Len(m_channel')
          BY <1>1, <3>2, SMTT(30)
        <5>2. m_channel'[i - 1] = m_channel[(i - 1) + 1] /\ (i - 1) + 1 = i
          BY <1>1, <5>1, SMTT(30)
        <5> QED BY <5>1, <5>2, Zenon
      <4>4. (\E i \in 1 .. Len(m_channel') : m_channel'[i] = u)
              => \E i \in 1 .. Len(m_channel) : m_channel[i] = u
        BY <1>1, SMTT(30)
      <4> QED BY <4>1, <4>2, <4>3, <4>4, Zenon
    <3> QED BY <3>1, <3>2, Zenon
  <2>2. \A i, j \in 1 .. Len(m_channel') : m_channel'[i] = m_channel'[j] => i = j
    BY <1>1, SMTT(30) DEF Inv, Queued
  <2> QED BY <2>1, <2>2, Zenon DEF Queued
<1>6. Held'
  <2>1. \A v \in Threads : thread[v] # h
    BY <1>1, <1>2, Zenon DEF Inv, Held
  <2>2. thread[w] \notin Tasks
    BY <1>3, Zenon DEF PoolAssumption
  <2> QED BY <1>1, <1>3, <2>1, <2>2, SMTT(30) DEF Inv, Types, Held
<1>7. Left'
  <2>1. \A v \in Threads : thread[v] # Exited
    BY <1>1, Zenon DEF Inv, Left, Pop
  <2>2. \A v \in Threads : thread'[v] # Exited
    BY <1>1, <1>3, <2>1, Zenon DEF Inv, Types, PoolAssumption
  <2> QED BY <1>3, <2>1, <2>2, Zenon DEF Inv, Left, PoolAssumption
<1> QED BY <1>1, <1>2, <1>4, <1>5, <1>6, <1>7, Zenon DEF Inv, h

(* The task a thread runs is running, and done afterwards. *)
LEMMA PoolRunTask ==
  ASSUME PoolAssumption, Inv, NEW w \in Threads, RunTask(w)
  PROVE  Inv' /\ task[thread[w]] = "running"
<1>1. /\ thread[w] \in Tasks /\ thread' = [thread EXCEPT ![w] = Popping]
      /\ task' = [task EXCEPT ![thread[w]] = "done"] /\ UNCHANGED <<m_channel, closed, pool>>
  BY Zenon DEF RunTask
<1>2. task[thread[w]] = "running"
  BY <1>1, Zenon DEF Inv, Held
<1>3. Types'
  BY <1>1, Zenon DEF Inv, Types
<1>4. Queued'
  BY <1>1, <1>2, SMTT(30) DEF Inv, Types, Queued
<1>5. Held'
  <2>1. \A v \in Threads : v # w => thread'[v] = thread[v] /\ thread[v] # thread[w]
    BY <1>1, Zenon DEF Inv, Types, Held
  <2>2. thread'[w] \notin Tasks
    BY <1>1, Zenon DEF Inv, Types, PoolAssumption
  <2> QED BY <1>1, <2>1, <2>2, SMTT(30) DEF Inv, Types, Held
<1>6. Left'
  BY <1>1, Zenon DEF Inv, Types, Left, Popping, Exited, PoolAssumption
<1> QED BY <1>2, <1>3, <1>4, <1>5, <1>6, Zenon DEF Inv

(* The steps that touch no task keep the invariant. *)
LEMMA PoolRest ==
  ASSUME PoolAssumption, Inv,
         (\E w \in Threads : Exit(w)) \/ Shutdown \/ Destroy \/ Destroyed \/ UNCHANGED vars
  PROVE  Inv'
<1>1. ASSUME NEW w \in Threads, Exit(w) PROVE Inv'
  BY <1>1, SMTT(30) DEF Inv, Types, Queued, Held, Left, Exit, PoolAssumption, Popping, Exited
<1>2. CASE Shutdown
  BY <1>2, SMTT(30) DEF Inv, Types, Queued, Held, Left, Shutdown
<1>3. CASE Destroy
  BY <1>3, SMTT(30) DEF Inv, Types, Queued, Held, Left, Destroy
<1>4. CASE Destroyed
  BY <1>4, SMTT(30) DEF Inv, Types, Queued, Held, Left, Destroyed
<1>5. CASE UNCHANGED vars
  BY <1>5, SMTT(30) DEF Inv, Types, Queued, Held, Left, vars
<1> QED BY <1>1, <1>2, <1>3, <1>4, <1>5, Zenon
-----------------------------------------------------------------------------
(* Every step of the pool keeps the invariant. *)
LEMMA PoolStep == ASSUME PoolAssumption, Inv, [Next]_vars PROVE Inv'
<1>1. ASSUME NEW w \in Threads, Worker(w) PROVE Inv'
  BY <1>1, PoolPop, PoolRunTask, PoolRest, Zenon DEF Worker
<1> QED BY <1>1, PoolEnqueue, PoolRest, Zenon DEF Next

(* The initial state of a pool is one of the abstract pool. *)
LEMMA InitRefined == ASSUME Init PROVE Abstract!Init
<1>1. Outcome = [t \in Tasks |-> "new"]
  BY Zenon DEF Init, Outcome
<1>2. closed = FALSE /\ (pool = "destroyed") = FALSE
  BY Zenon DEF Init
<1> QED BY <1>1, <1>2, Zenon DEF Abstract!Init

(* What the abstract pool sees of a task that changes. *)
LEMMA OutcomeStep ==
  ASSUME Types, NEW t \in Tasks, NEW s \in {"queued", "running", "done", "thrown"},
         task' = [task EXCEPT ![t] = s]
  PROVE  Outcome' = [Outcome EXCEPT ![t] = CASE s \in {"queued", "running"} -> "accepted"
                                             [] s = "done" -> "executed"
                                             [] s = "thrown" -> "refused"]
BY Zenon DEF Types, Outcome

(* Every step of the pool is a step of the abstract pool, or none for it:    *)
(* enqueue accepts or refuses, the run of a task executes it, and the        *)
(* destructor returns when nothing accepted is left.                         *)
LEMMA StepRefined ==
  ASSUME PoolAssumption, Inv, [Next]_vars
  PROVE  [Abstract!Next]_Abstract!vars
<1> USE DEF Abstract!vars
<1>1. ASSUME NEW t \in Tasks, Enqueue(t) PROVE Abstract!Next
  <2>1. Outcome[t] = "new" /\ UNCHANGED closed /\ UNCHANGED pool
    BY <1>1, Zenon DEF Enqueue, Outcome
  <2>2. CASE ~closed /\ task' = [task EXCEPT ![t] = "queued"]
    <3>1. Outcome' = [Outcome EXCEPT ![t] = "accepted"]
      BY <2>2, OutcomeStep, Zenon DEF Inv
    <3> QED BY <2>1, <2>2, <3>1, Zenon DEF Abstract!Next, Abstract!Accept, Abstract!Become
  <2>3. CASE closed /\ task' = [task EXCEPT ![t] = "thrown"]
    <3>1. Outcome' = [Outcome EXCEPT ![t] = "refused"]
      BY <2>3, OutcomeStep, Zenon DEF Inv
    <3> QED BY <2>1, <2>3, <3>1, Zenon DEF Abstract!Next, Abstract!Refuse, Abstract!Become
  <2> QED BY <1>1, <2>2, <2>3, Zenon DEF Enqueue
<1>2. ASSUME NEW w \in Threads, Pop(w) PROVE UNCHANGED Abstract!vars
  <2>1. Head(m_channel) \in Tasks /\ task[Head(m_channel)] = "queued"
    BY <1>2, PoolPop, Zenon
  <2>2. Outcome' = Outcome
    BY <1>2, <2>1, Zenon DEF Pop, Outcome, Inv, Types
  <2> QED BY <1>2, <2>2, Zenon DEF Pop
<1>3. ASSUME NEW w \in Threads, RunTask(w) PROVE Abstract!Next
  <2>1. thread[w] \in Tasks /\ task[thread[w]] = "running" /\ UNCHANGED <<closed, pool>>
    BY <1>3, PoolRunTask, Zenon DEF RunTask
  <2>2. Outcome[thread[w]] = "accepted"
    BY <2>1, Zenon DEF Outcome
  <2>3. Outcome' = [Outcome EXCEPT ![thread[w]] = "executed"]
    BY <1>3, <2>1, OutcomeStep, Zenon DEF RunTask, Inv
  <2> QED BY <2>1, <2>2, <2>3, Zenon DEF Abstract!Next, Abstract!Execute, Abstract!Become
<1>4. ASSUME NEW w \in Threads, Exit(w) PROVE UNCHANGED Abstract!vars
  BY <1>4, SMTT(30) DEF Exit, Outcome
<1>5. CASE Shutdown \/ Destroy
  <2>1. Outcome' = Outcome /\ closed' = TRUE /\ (pool' = "destroyed") = (pool = "destroyed")
    <3>0. task' = task
      BY <1>5, Zenon DEF Shutdown, Destroy
    <3>1. Outcome' = Outcome
      BY <3>0, SMTT(30) DEF Outcome
    <3>2. closed' = TRUE
      BY <1>5, Zenon DEF Shutdown, Destroy
    <3>3. (pool' = "destroyed") = (pool = "destroyed")
      BY <1>5, Zenon DEF Shutdown, Destroy
    <3> QED BY <3>1, <3>2, <3>3, Zenon
  <2> QED BY <2>1, Zenon DEF Abstract!Next, Abstract!Shutdown
<1>6. CASE Destroyed
  <2>1. Outcome' = Outcome /\ UNCHANGED closed /\ pool' = "destroyed" /\ closed
    BY <1>6, SMTT(30) DEF Destroyed, Outcome, Inv, Left
  <2>2. m_channel = <<>> /\ Len(m_channel) = 0
    BY <1>6, SMTT(30) DEF Destroyed, Inv, Left, PoolAssumption
  <2>3. \A t \in Tasks : task[t] # "queued" /\ task[t] # "running"
    <3>1. \A t \in Tasks : task[t] # "queued"
      BY <2>2, SMTT(30) DEF Inv, Queued
    <3>2. \A w \in Threads : thread[w] \notin Tasks
      BY <1>6, Zenon DEF Destroyed, PoolAssumption
    <3> QED BY <3>1, <3>2, Zenon DEF Inv, Held
  <2>4. \A t \in Tasks : Outcome[t] # "accepted"
    BY <2>3, Zenon DEF Outcome, Inv, Types
  <2> QED BY <2>1, <2>4, Zenon DEF Abstract!Next, Abstract!Join
<1>7. CASE UNCHANGED vars
  BY <1>7, SMTT(30) DEF vars, Outcome
<1> QED BY <1>1, <1>2, <1>3, <1>4, <1>5, <1>6, <1>7, Zenon DEF Next, Worker

(* ThreadPool::enqueue, the threads and ~ThreadPool keep what TaskPool       *)
(* promises, whatever the tasks, the threads and the size of the channel: a  *)
(* task is refused only after shutdown, what was accepted is executed once   *)
(* at most, and the destructor returns when all of it has been executed.     *)
(* (That it is executed in the end is liveness, which TLC checks.)           *)
THEOREM PoolRefinesTaskPool ==
  PoolAssumption => (Spec => Abstract!Init /\ [][Abstract!Next]_Abstract!vars)
<1> SUFFICES ASSUME PoolAssumption
             PROVE  Spec => Abstract!Init /\ [][Abstract!Next]_Abstract!vars
  BY Zenon
<1>1. Init => Inv /\ Abstract!Init
  BY PoolInit, InitRefined, Zenon
<1>2. Inv /\ [Next]_vars => Inv' /\ [Abstract!Next]_Abstract!vars
  BY PoolStep, StepRefined, Zenon
<1> QED BY <1>1, <1>2, PTL DEF Spec
=============================================================================
