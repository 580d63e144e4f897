--------------------------- MODULE FiberScheduler ---------------------------
(***************************************************************************)
(* FiberPriorityScheduler, the scheduling algorithm of the thread of a     *)
(* FiberTaskQueue: a ready queue by priority, and the flag on which the    *)
(* thread sleeps while no fiber is ready.  The fibers themselves and the   *)
(* dispatcher with its queue of remotely woken fibers are boost's.         *)
(***************************************************************************)
EXTENDS Naturals, Sequences, FiniteSets, SequencesExt

CONSTANTS Fibers,      \* fibers of the thread
          Main,        \* the one that runs FiberTaskQueue::main
          Priorities,  \* 0 and the priorities of the tasks
          Remotes,     \* other threads
          MaxChanges   \* bound on the changes of a priority and the sleeps with a deadline

VARIABLES
  m_rqueue,   \* the ready queue, first the next fiber
  priority,   \* m_priority of every fiber's FiberPriorityProps
  fiber,      \* every fiber is new, ready, running, blocked, remote (woken elsewhere) or done
  remote,     \* boost: fibers other threads have made ready, in order
  thread,     \* the thread runs a fiber, dispatches, has decided to sleep, or is asleep
  deadline,   \* TRUE: the sleep ends by itself
  m_flag,
  notifying,  \* other threads between their push into remote and notify
  overtaken,  \* history: how often g was picked since f became ready or a priority changed, up to 2
  changes

queueVars == <<m_rqueue, priority, overtaken, changes>>
sleepVars == <<thread, deadline, m_flag>>
vars == <<queueVars, sleepVars, fiber, remote, notifying>>

Running == {f \in Fibers : fiber[f] = "running"}

Init ==
  /\ m_rqueue = <<>> /\ remote = <<>>
  /\ priority = [f \in Fibers |-> 0]
  /\ fiber = [f \in Fibers |-> IF f = Main THEN "running" ELSE "new"]
  /\ thread = "run" /\ deadline = FALSE /\ m_flag = FALSE
  /\ notifying = {}
  /\ overtaken = [f, g \in Fibers |-> 0]
  /\ changes = 0
-----------------------------------------------------------------------------
(* Mutant of awakened: in front of the fibers of the same priority. *)
awakenedInFront(queue, f, p) ==
  LET i == SelectInSeq(queue, LAMBDA g : priority[g] <= p)
  IN IF i = 0 THEN Append(queue, f) ELSE InsertAt(queue, i, f)

(* awakened: in front of the first fiber of lower priority. *)
awakened(queue, f, p) ==
  LET i == SelectInSeq(queue, LAMBDA g : priority[g] < p)
  IN IF i = 0 THEN Append(queue, f) ELSE InsertAt(queue, i, f)

Forget(f) == [x \in Fibers \X Fibers |-> IF f \in {x[1], x[2]} THEN 0 ELSE overtaken[x]]

(* FiberTaskQueue::launch by the running fiber: the fiber is posted with     *)
(* priority 0, then set_priority moves it.                                   *)
Launch(f, p) ==
  /\ Running # {} /\ fiber[f] = "new"
  /\ m_rqueue' = LET posted == awakened(m_rqueue, f, 0)
                 IN IF p = 0 THEN posted ELSE awakened(Remove(posted, f), f, p)
  /\ priority' = [priority EXCEPT ![f] = p]
  /\ fiber' = [fiber EXCEPT ![f] = "ready"]
  /\ overtaken' = Forget(f)
  /\ UNCHANGED <<changes, remote, sleepVars, notifying>>

(* set_priority and property_change: a fiber that is ready moves. *)
set_priority(f, p) ==
  /\ Running # {} /\ fiber[f] # "new" /\ p # priority[f] /\ changes < MaxChanges
  /\ priority' = [priority EXCEPT ![f] = p]
  /\ m_rqueue' = IF fiber[f] = "ready" THEN awakened(Remove(m_rqueue, f), f, p) ELSE m_rqueue
  /\ overtaken' = Forget(f)
  /\ changes' = changes + 1
  /\ UNCHANGED <<fiber, remote, sleepVars, notifying>>

(* The running fiber yields, blocks or ends, or wakes another one.           *)
Yield(f) ==
  /\ f \in Running
  /\ m_rqueue' = awakened(m_rqueue, f, priority[f])
  /\ fiber' = [fiber EXCEPT ![f] = "ready"] /\ thread' = "dispatch"
  /\ overtaken' = [x \in Fibers \X Fibers |-> IF x[1] = f THEN 0 ELSE overtaken[x]]
  /\ UNCHANGED <<priority, changes, deadline, m_flag, remote, notifying>>

Leave(f, how) ==
  /\ f \in Running
  /\ fiber' = [fiber EXCEPT ![f] = how] /\ thread' = "dispatch"
  /\ UNCHANGED <<queueVars, deadline, m_flag, remote, notifying>>

Wake(f) ==
  /\ Running # {} /\ fiber[f] = "blocked"
  /\ m_rqueue' = awakened(m_rqueue, f, priority[f])
  /\ fiber' = [fiber EXCEPT ![f] = "ready"]
  /\ overtaken' = [x \in Fibers \X Fibers |-> IF x[1] = f THEN 0 ELSE overtaken[x]]
  /\ UNCHANGED <<priority, changes, remote, sleepVars, notifying>>
-----------------------------------------------------------------------------
(* boost, in another thread: the fiber is queued, then the algorithm is      *)
(* notified.                                                                 *)
RemoteWake(t, f) ==
  /\ t \notin notifying /\ fiber[f] = "blocked"
  /\ fiber' = [fiber EXCEPT ![f] = "remote"] /\ remote' = Append(remote, f)
  /\ notifying' = notifying \cup {t}
  /\ UNCHANGED <<queueVars, sleepVars>>

(* Mutant of notify: m_flag is left to the sleeping thread. *)
notifySleeperOnly(t) ==
  /\ t \in notifying
  /\ m_flag' = (thread = "asleep")
  /\ notifying' = notifying \ {t}
  /\ UNCHANGED <<queueVars, thread, deadline, fiber, remote>>

notify(t) ==
  /\ t \in notifying
  /\ m_flag' = TRUE
  /\ notifying' = notifying \ {t}
  /\ UNCHANGED <<queueVars, thread, deadline, fiber, remote>>

(* boost's dispatcher: remotely woken fibers become ready ... *)
Dispatch ==
  /\ thread = "dispatch"
  /\ m_rqueue' = FoldLeft(LAMBDA q, f : awakened(q, f, priority[f]), m_rqueue, remote)
  /\ fiber' = [f \in Fibers |-> IF fiber[f] = "remote" THEN "ready" ELSE fiber[f]]
  /\ overtaken' = [x \in Fibers \X Fibers |-> IF fiber[x[1]] = "remote" THEN 0 ELSE overtaken[x]]
  /\ remote' = <<>>
  /\ thread' = "decided"
  /\ UNCHANGED <<priority, changes, deadline, m_flag, notifying>>

(* ... pick_next ... *)
pick_next ==
  /\ thread = "decided" /\ m_rqueue # <<>>
  /\ LET f == Head(m_rqueue)
     IN /\ fiber' = [fiber EXCEPT ![f] = "running"]
        /\ overtaken' = [x \in Fibers \X Fibers |->
             IF x[1] = f THEN 0
             ELSE IF x[2] = f /\ fiber[x[1]] = "ready" /\ overtaken[x] < 2 THEN overtaken[x] + 1
             ELSE overtaken[x]]
  /\ m_rqueue' = Tail(m_rqueue)
  /\ thread' = "run"
  /\ UNCHANGED <<priority, changes, deadline, m_flag, remote, notifying>>

(* ... or suspend_until, with a deadline or none: wait for m_flag ... *)
suspend_until(timed) ==
  /\ thread = "decided" /\ m_rqueue = <<>>
  /\ timed => changes < MaxChanges
  /\ changes' = changes + IF timed THEN 1 ELSE 0
  /\ thread' = "asleep" /\ deadline' = timed
  /\ UNCHANGED <<m_rqueue, priority, overtaken, m_flag, fiber, remote, notifying>>

(* ... and reset it. *)
Awake ==
  /\ thread = "asleep" /\ (m_flag \/ deadline)
  /\ m_flag' = FALSE /\ thread' = "dispatch"
  /\ UNCHANGED <<queueVars, deadline, fiber, remote, notifying>>

Next ==
  \/ \E f \in Fibers, p \in Priorities : Launch(f, p) \/ set_priority(f, p)
  \/ \E f \in Fibers : Yield(f) \/ Leave(f, "blocked") \/ Leave(f, "done") \/ Wake(f)
  \/ \E t \in Remotes : notify(t) \/ \E f \in Fibers : RemoteWake(t, f)
  \/ Dispatch \/ pick_next \/ Awake \/ \E timed \in BOOLEAN : suspend_until(timed)

Spec == Init /\ [][Next]_vars
-----------------------------------------------------------------------------
(* "fibers with higher priority values are preferred over fibers with lower  *)
(* priority values.  But fibers with equal priority values are processed in  *)
(* round-robin fashion": the queue is in the order of the priorities, holds  *)
(* the ready fibers once each, and no ready fiber is overtaken twice by a    *)
(* fiber of its own priority or once by one of a lower priority.             *)
PriorityRoundRobin ==
  /\ \A i, j \in DOMAIN m_rqueue : i < j => priority[m_rqueue[i]] >= priority[m_rqueue[j]]
  /\ Len(m_rqueue) = Cardinality({f \in Fibers : fiber[f] = "ready"})
  /\ \A f, g \in Fibers : fiber[f] = "ready" =>
       /\ priority[g] = priority[f] => overtaken[f, g] <= 1
       /\ priority[g] < priority[f] => overtaken[f, g] = 0

(* suspend_until and notify lose no wakeup: while the thread sleeps without  *)
(* a deadline, a fiber that another thread has woken has set m_flag or is    *)
(* about to.                                                                 *)
NoLostNotify ==
  thread = "asleep" /\ ~deadline /\ remote # <<>> => m_flag \/ notifying # {}
=============================================================================
