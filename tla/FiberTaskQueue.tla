--------------------------- MODULE FiberTaskQueue ---------------------------
(***************************************************************************)
(* system::FiberTaskQueue and the enqueue it inherits from                 *)
(* core::FiberTaskQueue: callers push task packages into a bounded         *)
(* boost::fibers::buffered_channel, one thread pops them and detaches a    *)
(* fiber for each, and m_detached counts the fibers that thread waits for. *)
(* The channel is external, as in ThreadPool.                              *)
(***************************************************************************)
EXTENDS Naturals, Sequences, FiniteSets

CONSTANTS Tasks,   \* tasks that callers enqueue, once each
          Room     \* elements m_queue holds

VARIABLES m_queue, closed,   \* the channel's elements, and is_closed()
          m_detached,        \* core::FiberTaskQueue::m_detached
          task,              \* how far every task is
          main,              \* what the queue's thread does
          queue              \* life of the object: alive, joining, destroyed

vars == <<m_queue, closed, m_detached, task, main, queue>>

Move(t, from, to) ==
  /\ task[t] = from
  /\ task' = [task EXCEPT ![t] = to]

(* The constructor has returned: main runs and has executed one empty task. *)
Init ==
  /\ m_queue = <<>>
  /\ closed = FALSE
  /\ m_detached = 0
  /\ task = [t \in Tasks |-> "new"]
  /\ main = "popping"
  /\ queue = "alive"
-----------------------------------------------------------------------------
(* enqueue, first the test of is_closed ... *)
EnqueueCheck(t) ==
  /\ queue # "destroyed"
  /\ IF closed THEN Move(t, "new", "thrown") ELSE Move(t, "new", "checked")
  /\ UNCHANGED <<m_queue, closed, m_detached, main, queue>>

(* ... then the packaged task is made and counted ... *)
EnqueueCount(t) ==
  /\ Move(t, "checked", "counted")
  /\ m_detached' = m_detached + 1
  /\ UNCHANGED <<m_queue, closed, main, queue>>

(* ... and pushed.  push blocks while the channel is full and open; its      *)
(* result is ignored, so the task is lost if the channel has been closed.    *)
EnqueuePush(t) ==
  \/ /\ ~closed /\ Len(m_queue) < Room
     /\ Move(t, "counted", "queued")
     /\ m_queue' = Append(m_queue, t)
     /\ UNCHANGED <<closed, m_detached, main, queue>>
  \/ /\ closed
     /\ Move(t, "counted", "lost")
     /\ UNCHANGED <<m_queue, closed, m_detached, main, queue>>

Enqueue(t) == EnqueueCheck(t) \/ EnqueueCount(t) \/ EnqueuePush(t)

(* main: pop and launch a detached fiber ... *)
MainPop ==
  /\ main = "popping" /\ m_queue # <<>>
  /\ Move(Head(m_queue), "queued", "fiber")
  /\ m_queue' = Tail(m_queue)
  /\ UNCHANGED <<closed, m_detached, main, queue>>

(* Mutant of MainClosed: leave without draining the channel. *)
MainClosedEarly ==
  /\ main = "popping" /\ closed
  /\ main' = "waiting"
  /\ UNCHANGED <<m_queue, closed, m_detached, task, queue>>

(* ... until the channel is closed and drained ... *)
MainClosed ==
  /\ main = "popping" /\ closed /\ m_queue = <<>>
  /\ main' = "waiting"
  /\ UNCHANGED <<m_queue, closed, m_detached, task, queue>>

(* Mutant of MainDone: the thread ends without waiting for its fibers. *)
MainDoneAtOnce ==
  /\ main = "waiting"
  /\ main' = "done"
  /\ UNCHANGED <<m_queue, closed, m_detached, task, queue>>

(* ... then yield to the detached fibers until none is left. *)
MainDone ==
  /\ main = "waiting" /\ m_detached = 0
  /\ main' = "done"
  /\ UNCHANGED <<m_queue, closed, m_detached, task, queue>>

(* The fiber of a task: the task itself, which may yield any number of times *)
(* and fulfils the caller's future, then the decrement.                      *)
FiberRun(t) ==
  /\ main # "done" /\ Move(t, "fiber", "ran")
  /\ UNCHANGED <<m_queue, closed, m_detached, main, queue>>

(* Mutant of FiberEnd: a task that threw skips the decrement. *)
FiberEndNoDecrement(t) ==
  /\ main # "done" /\ Move(t, "ran", "done")
  /\ \/ m_detached' = m_detached - 1
     \/ UNCHANGED m_detached
  /\ UNCHANGED <<m_queue, closed, main, queue>>

FiberEnd(t) ==
  /\ main # "done" /\ Move(t, "ran", "done")
  /\ m_detached' = m_detached - 1
  /\ UNCHANGED <<m_queue, closed, main, queue>>

(* FiberTaskQueue::shutdown, by FiberManager::stop. *)
Shutdown ==
  /\ queue = "alive" /\ ~closed
  /\ closed' = TRUE
  /\ UNCHANGED <<m_queue, m_detached, task, main, queue>>

(* FiberTaskQueue::~FiberTaskQueue; its owner makes sure that nobody is      *)
(* inside enqueue on an object that is being destroyed.                      *)
Destroy ==
  /\ queue = "alive"
  /\ \A t \in Tasks : task[t] \notin {"checked", "counted"}
  /\ closed' = TRUE
  /\ queue' = "joining"
  /\ UNCHANGED <<m_queue, m_detached, task, main>>

Destroyed ==
  /\ queue = "joining" /\ main = "done"
  /\ queue' = "destroyed"
  /\ UNCHANGED <<m_queue, closed, m_detached, task, main>>

Main == MainPop \/ MainClosed \/ MainDone

Next ==
  \/ \E t \in Tasks : Enqueue(t) \/ FiberRun(t) \/ FiberEnd(t)
  \/ Main \/ Shutdown \/ Destroy \/ Destroyed

Spec == Init /\ [][Next]_vars

(* The queue's thread is scheduled and its scheduler gives every ready fiber *)
(* a turn; a task that was started returns; callers inside enqueue go on.    *)
Fairness ==
  /\ WF_vars(Main) /\ WF_vars(Destroyed)
  /\ \A t \in Tasks : /\ WF_vars(FiberRun(t) \/ FiberEnd(t))
                       /\ WF_vars(EnqueueCount(t) \/ EnqueuePush(t))

FairSpec == Spec /\ Fairness
-----------------------------------------------------------------------------
(* main returns only when every task it took has run to its end, so no fiber *)
(* is left on a thread that is gone or uses a destroyed queue.               *)
FibersGone ==
  main = "done" => \A t \in Tasks : task[t] \notin {"queued", "fiber", "ran"}

(* A task that reached the channel is run, whether or not the queue is shut  *)
(* down in the meantime: main drains the channel before it leaves.           *)
QueuedTasksRun ==
  \A t \in Tasks : (task[t] = "queued") ~> (task[t] = "done")

(* An enqueue comes back, also one that is blocked on a full channel while   *)
(* the queue is shut down.                                                   *)
EnqueueReturns ==
  \A t \in Tasks : (task[t] = "checked") ~> (task[t] \notin {"checked", "counted"})

(* A queue that is shut down ends its thread, unless a push was lost.        *)
ShutdownEnds ==
  closed ~> (main = "done" \/ \E t \in Tasks : task[t] = "lost")

(* task_queue.hpp:62, 'throw std::runtime_error("enqueue on stopped ws fiber *)
(* pool")': an enqueue that the stopped queue does not take throws.          *)
RefusedTaskThrows == \A t \in Tasks : task[t] # "lost"
=============================================================================
