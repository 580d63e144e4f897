---------------------------- MODULE SystemThreads ----------------------------
(***************************************************************************)
(* The threads of a System: those of the FiberManager's task queues, one   *)
(* per logical cpu, and those that engines make with make_thread.  Each    *)
(* runs the registered initializers of its first cpu before its task and   *)
(* the finalizers after it; registering an initializer also runs it on the *)
(* task queues.  The two multimaps have no lock: a thread that reads one   *)
(* while a registration inserts into it may miss what is being inserted.   *)
(***************************************************************************)
EXTENDS Naturals, FiniteSets, FiniteSetsExt

CONSTANTS
  Cpus,       \* the cpu_set of the topology; a task queue is named by its cpu
  Engines,    \* threads that engines make
  Affinity,   \* cpu_affinity of every engine's thread
  Numa,       \* numa node of every cpu
  Hooks,      \* initializers and finalizers
  Where,      \* cpu_set of every hook
  IsFinal     \* hooks that are finalizers

Threads == Cpus \cup Engines
cpu_affinity(t) == IF t \in Cpus THEN {t} ELSE Affinity[t]
first(t) == Min(cpu_affinity(t))

VARIABLES
  life,       \* of the System: its constructor, running, stopping, joining, gone
  m_queues,   \* task queues that exist
  thread,     \* every thread is none, created, task (its main), over (finalizing) or ended
  closed,     \* task queues that are shut down
  tasks,      \* hooks waiting in every task queue
  map,        \* m_thread_initializers and m_thread_finalizers, by cpu
  reg,        \* every hook's registration: new, inserting, enqueued or returned
  inserted,   \* cpus the hook that is being registered has been inserted for
  ran,        \* history: how often every thread has run every hook
  due,        \* history: hooks every thread must have run
  fatal

hookVars == <<map, reg, inserted>>
vars == <<life, m_queues, thread, closed, tasks, hookVars, ran, due, fatal>>

Init ==
  /\ life = "constructing" /\ m_queues = {} /\ closed = {}
  /\ thread = [t \in Threads |-> "none"]
  /\ tasks = [c \in Cpus |-> {}]
  /\ map = [c \in Cpus |-> {}]
  /\ reg = [h \in Hooks |-> "new"] /\ inserted = {}
  /\ ran = [t \in Threads |-> [h \in Hooks |-> 0]]
  /\ due = [t \in Threads |-> {}]
  /\ fatal = FALSE
-----------------------------------------------------------------------------
Returned(final) == {h \in Hooks : reg[h] = "returned" /\ (h \in IsFinal) = final}

(* System::make_thread *)
MakeThread(t) ==
  /\ thread[t] = "none"
  /\ thread' = [thread EXCEPT ![t] = "created"]
  /\ due' = [due EXCEPT ![t] = {h \in Returned(FALSE) : first(t) \in Where[h]}]

(* What a thread finds in a multimap: a hook that is being inserted or not. *)
Found(t, final) ==
  LET here == {h \in map[first(t)] : (h \in IsFinal) = final}
      racing == {h \in Hooks : reg[h] = "inserting" /\ first(t) \in Where[h] /\ (h \in IsFinal) = final}
  IN {(here \ racing) \cup s : s \in SUBSET racing}

Count(t, hooks) == [ran EXCEPT ![t] = [h \in Hooks |-> @[h] + IF h \in hooks THEN 1 ELSE 0]]

(* System::initialize_thread; a thread that could move across numa nodes is  *)
(* fatal, and the hooks are those of the first cpu.                          *)
initialize_thread(t) ==
  /\ thread[t] = "created" /\ ~fatal
  /\ IF Cardinality(cpu_affinity(t)) # 1 /\ Cardinality({Numa[c] : c \in cpu_affinity(t)}) # 1
     THEN fatal' = TRUE /\ UNCHANGED <<thread, ran>>
     ELSE /\ \E hooks \in Found(t, FALSE) : ran' = Count(t, hooks)
          /\ thread' = [thread EXCEPT ![t] = "task"]
          /\ UNCHANGED fatal
  /\ UNCHANGED <<life, m_queues, closed, tasks, hookVars, due>>

(* The thread's task is over: an engine's when it pleases, a task queue's    *)
(* when it is closed and drained.                                            *)
TaskOver(t) ==
  /\ thread[t] = "task" /\ (t \in Cpus => t \in closed /\ tasks[t] = {})
  /\ thread' = [thread EXCEPT ![t] = "over"]
  /\ due' = [due EXCEPT ![t] = @ \cup {h \in Returned(TRUE) : first(t) \in Where[h]}]
  /\ UNCHANGED <<life, m_queues, closed, tasks, hookVars, ran, fatal>>

(* Mutant of finalize_thread: the finalizers of every cpu of the affinity. *)
finalize_threadAll(t) ==
  /\ thread[t] = "over"
  /\ ran' = [ran EXCEPT ![t] = [h \in Hooks |->
               @[h] + Cardinality({c \in cpu_affinity(t) : h \in map[c] /\ h \in IsFinal})]]
  /\ thread' = [thread EXCEPT ![t] = "ended"]
  /\ UNCHANGED <<life, m_queues, closed, tasks, hookVars, due, fatal>>

(* System::finalize_thread *)
finalize_thread(t) ==
  /\ thread[t] = "over"
  /\ \E hooks \in Found(t, TRUE) : ran' = Count(t, hooks)
  /\ thread' = [thread EXCEPT ![t] = "ended"]
  /\ UNCHANGED <<life, m_queues, closed, tasks, hookVars, due, fatal>>
-----------------------------------------------------------------------------
(* FiberManager::FiberManager: the queues one after the other ... *)
QueueConstruct(c) ==
  /\ life = "constructing" /\ \A q \in Cpus : q < c => q \in m_queues
  /\ MakeThread(c)
  /\ UNCHANGED <<life, m_queues, closed, tasks, hookVars, ran, fatal>>

(* Mutant of QueueReady: the constructor does not await the thread. *)
QueueReadyAtOnce(c) ==
  /\ life = "constructing" /\ thread[c] # "none" /\ c \notin m_queues
  /\ m_queues' = m_queues \cup {c}
  /\ life' = IF m_queues' = Cpus THEN "running" ELSE life
  /\ UNCHANGED <<thread, closed, tasks, hookVars, ran, due, fatal>>

(* ... each of which awaits an empty task on its thread. *)
QueueReady(c) ==
  /\ life = "constructing" /\ thread[c] = "task" /\ c \notin m_queues
  /\ m_queues' = m_queues \cup {c}
  /\ life' = IF m_queues' = Cpus THEN "running" ELSE life
  /\ UNCHANGED <<thread, closed, tasks, hookVars, ran, due, fatal>>

(* ThreadEngine::do_launch_task *)
EngineLaunch(t) ==
  /\ life = "running" /\ t \in Engines
  /\ MakeThread(t)
  /\ UNCHANGED <<life, m_queues, closed, tasks, hookVars, ran, fatal>>

(* A fiber of a task queue runs a hook that was enqueued. *)
QueueTask(c) ==
  /\ thread[c] = "task"
  /\ \E h \in tasks[c] :
       /\ tasks' = [tasks EXCEPT ![c] = @ \ {h}]
       /\ ran' = Count(c, {h})
       /\ due' = [due EXCEPT ![c] = @ \cup {h}]
  /\ UNCHANGED <<life, m_queues, thread, closed, hookVars, fatal>>
-----------------------------------------------------------------------------
(* register_thread_local_initializer and _finalizer: the checks ... *)
Register(h) ==
  /\ life = "running" /\ reg[h] = "new" /\ \A g \in Hooks : reg[g] \in {"new", "returned"}
  /\ IF Where[h] \subseteq Cpus
     THEN reg' = [reg EXCEPT ![h] = "inserting"] /\ inserted' = {} /\ UNCHANGED fatal
     ELSE fatal' = TRUE /\ UNCHANGED <<reg, inserted>>
  /\ UNCHANGED <<life, m_queues, thread, closed, tasks, map, ran, due>>

(* ... one insertion per bit of the cpu set ... *)
Insert(h) ==
  /\ reg[h] = "inserting" /\ inserted # Where[h]
  /\ LET c == Min(Where[h] \ inserted)
     IN map' = [map EXCEPT ![c] = @ \cup {h}] /\ inserted' = inserted \cup {c}
  /\ UNCHANGED <<life, m_queues, thread, closed, tasks, reg, ran, due, fatal>>

(* ... of an initializer, FiberManager::enqueue_fiber_on_cpuset ... *)
EnqueueOnCpuset(h) ==
  /\ reg[h] = "inserting" /\ inserted = Where[h]
  /\ IF h \in IsFinal
     THEN reg' = [reg EXCEPT ![h] = "returned"] /\ UNCHANGED tasks
     ELSE /\ reg' = [reg EXCEPT ![h] = "enqueued"]
          /\ tasks' = [c \in Cpus |-> tasks[c] \cup (IF c \in Where[h] THEN {h} ELSE {})]
  /\ UNCHANGED <<life, m_queues, thread, closed, map, inserted, ran, due, fatal>>

(* ... and its futures. *)
Registered(h) ==
  /\ reg[h] = "enqueued" /\ \A c \in Where[h] : ran[c][h] > 0
  /\ reg' = [reg EXCEPT ![h] = "returned"]
  /\ UNCHANGED <<life, m_queues, thread, closed, tasks, map, inserted, ran, due, fatal>>

(* System::~System, once nobody uses the System any more; engines hold it:   *)
(* FiberManager::stop closes every queue before join destroys any.           *)
Destroy ==
  /\ life = "running" /\ \A h \in Hooks : reg[h] \in {"new", "returned"}
  /\ \A t \in Engines : thread[t] \in {"none", "ended"}
  /\ life' = "joining" /\ closed' = Cpus
  /\ UNCHANGED <<m_queues, thread, tasks, hookVars, ran, due, fatal>>

(* FiberTaskQueue::~FiberTaskQueue joins the thread. *)
QueueJoined(c) ==
  /\ life = "joining" /\ c \in m_queues /\ thread[c] = "ended" /\ \A q \in m_queues : c <= q
  /\ m_queues' = m_queues \ {c}
  /\ life' = IF m_queues' = {} THEN "gone" ELSE life
  /\ UNCHANGED <<thread, closed, tasks, hookVars, ran, due, fatal>>

Next ==
  ~fatal /\
  \/ \E c \in Cpus : QueueConstruct(c) \/ QueueReady(c) \/ QueueTask(c) \/ QueueJoined(c)
  \/ \E t \in Engines : EngineLaunch(t)
  \/ \E t \in Threads : initialize_thread(t) \/ TaskOver(t) \/ finalize_thread(t)
  \/ \E h \in Hooks : Register(h) \/ Insert(h) \/ EnqueueOnCpuset(h) \/ Registered(h)
  \/ Destroy

Spec == Init /\ [][Next]_vars
-----------------------------------------------------------------------------
(* register_thread_local_initializer and _finalizer with make_thread and the *)
(* task queues: no thread runs a hook twice; a thread does its task only     *)
(* after the initializers that were registered when it was made, and ends    *)
(* only after the finalizers that were registered when its task was over.    *)
(* When the System is gone, so is every thread.                              *)
HooksOnce ==
  /\ \A t \in Threads, h \in Hooks : ran[t][h] <= 1
  /\ \A t \in Threads :
       /\ thread[t] \in {"task", "over"} => \A h \in due[t] \ IsFinal : ran[t][h] = 1
       /\ thread[t] = "ended" => \A h \in due[t] : ran[t][h] = 1
       /\ thread[t] # "ended" => \A h \in IsFinal : ran[t][h] = 0
  /\ \A h \in Hooks \ IsFinal : reg[h] = "returned" =>
       \A c \in Where[h] : ran[c][h] = 1
  /\ life = "gone" => \A t \in Threads : thread[t] \in {"none", "ended"}
=============================================================================
