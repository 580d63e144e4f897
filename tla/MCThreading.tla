---------------------------- MODULE MCThreading ----------------------------
(***************************************************************************)
(* The building blocks of the threading layer, which do not depend on each *)
(* other: a behaviour is one of the component named by "live", all others  *)
(* keep their initial state (the barrier the state after its last cycle).  *)
(* In those states nothing that is scheduled has anything to do, so the    *)
(* fairness of the components that rest asks for nothing.                  *)
(***************************************************************************)
EXTENDS ThreadBarrier

CONSTANTS
  PoolTasks, PoolThreads, PoolRoom,   \* more tasks than threads and room
  QueueTasks, QueueRoom,              \* more tasks than room
  Readers, MaxSize, MaxWrites,        \* more writes than room, more readers than that
  Clients, Workers, Owner             \* of the service

(* A channel has room for an element (with m_max_size = 0, do_await_write    *)
(* would pop an empty deque); the owner of the service is one of its clients,*)
(* and the workers are threads of their own.                                 *)
ASSUME ThreadingAssumption ==
  /\ MaxSize \in Nat \ {0}
  /\ Owner \in Clients /\ Clients \cap Workers = {}

VARIABLES
  live,
  m_channel, pool_closed, pool_task, thread, pool,
  m_queue, queue_closed, m_detached, queue_task, main, queue,
  m_deque, m_is_shutdown, waiting, woken, reader, expired, written, reads,
  m_state, caller, seen, working, begun, stopped, killed, joined, fatal

TP == INSTANCE ThreadPool WITH
  Tasks <- PoolTasks, Threads <- PoolThreads, Room <- PoolRoom,
  closed <- pool_closed, task <- pool_task
FQ == INSTANCE FiberTaskQueue WITH
  Tasks <- QueueTasks, Room <- QueueRoom, closed <- queue_closed, task <- queue_task
RC == INSTANCE RecentChannel
SV == INSTANCE Service WITH pc <- caller

poolVars    == <<m_channel, pool_closed, pool_task, thread, pool>>
queueVars   == <<m_queue, queue_closed, m_detached, queue_task, main, queue>>
channelVars == <<m_deque, m_is_shutdown, waiting, woken, reader, expired, written, reads>>
serviceVars == <<m_state, caller, seen, working, begun, stopped, killed, joined, fatal>>

(* The barrier after Rounds cycles. *)
Finished ==
  /\ current_ = initial_ /\ cycle_ = (Rounds % 2 = 0)
  /\ pc = [t \in Threads |-> "out"]
  /\ cycle = [t \in Threads |-> Rounds % 2 # 0]
  /\ arrived = [t \in Threads |-> Rounds]
  /\ passed = [t \in Threads |-> Rounds]
  /\ met = Rounds

ThreadingInit ==
  /\ live \in {"barrier", "pool", "queue", "channel", "service"}
  /\ IF live = "barrier" THEN Init ELSE Finished
  /\ TP!Init /\ FQ!Init /\ RC!Init /\ SV!Init

ThreadingNext ==
  \/ /\ live = "barrier" /\ Next
     /\ UNCHANGED <<live, poolVars, queueVars, channelVars, serviceVars>>
  \/ /\ live = "pool" /\ TP!Next
     /\ UNCHANGED <<live, vars, queueVars, channelVars, serviceVars>>
  \/ /\ live = "queue" /\ FQ!Next
     /\ UNCHANGED <<live, vars, poolVars, channelVars, serviceVars>>
  \/ /\ live = "channel" /\ RC!Next
     /\ UNCHANGED <<live, vars, poolVars, queueVars, serviceVars>>
  \/ /\ live = "service" /\ SV!Next
     /\ UNCHANGED <<live, vars, poolVars, queueVars, channelVars>>

allVars == <<live, vars, poolVars, queueVars, channelVars, serviceVars>>

ThreadingSpec ==
  /\ ThreadingInit /\ [][ThreadingNext]_allVars
  /\ Fairness /\ TP!Fairness /\ FQ!Fairness /\ RC!Fairness /\ SV!Fairness
-----------------------------------------------------------------------------
(* ThreadPool::enqueue, its threads and its destructor keep the promise of   *)
(* the abstract TaskPool.                                                    *)
ImplementsTaskPool == TP!ImplementsTaskPool

(* FiberTaskQueue::main returns after the last fiber of its thread; and      *)
(* RecentChannel hands out the most recent elements, in order, with one      *)
(* notify_one per element waking enough of the readers that wait.            *)
QueuesSound == FQ!FibersGone /\ RC!MostRecent /\ RC!NoLostWakeup

(* A Service that is Completed has been joined, one that is Killing is       *)
(* killed by someone, and ~Service finds a state it accepts and no worker.   *)
ServiceSound == SV!ServiceSound

(* A Service stays Completed. *)
CompletedIsFinal ==
  [][m_state = SV!Completed => m_state' = SV!Completed]_serviceVars

(* Nobody waits for ever: barrier::wait and ~ThreadPool return, an enqueue   *)
(* on a FiberTaskQueue comes back from a full channel, its main loop runs    *)
(* what is queued and leaves after a shutdown (unless a push was lost), and  *)
(* RecentChannel::close_channel releases every reader.                       *)
WaitsEnd ==
  /\ AllReturn
  /\ TP!DestructorReturns
  /\ FQ!EnqueueReturns /\ FQ!QueuedTasksRun /\ FQ!ShutdownEnds
  /\ RC!CloseReleases
=============================================================================
