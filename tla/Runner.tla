------------------------------- MODULE Runner -------------------------------
(***************************************************************************)
(* The life cycle of one runnable::Runner: the owner thread that creates,  *)
(* launches, joins and destroys it, the engine tasks (fibers or threads)   *)
(* that run one instance of the Runnable each, and any other thread that   *)
(* asks it to stop or kill.                                                *)
(*                                                                         *)
(* The pieces of code under Runner::m_mutex are atomic actions.  What the  *)
(* task lambda of Runner::enqueue does outside the mutex is a step of its  *)
(* own; the load and the store of                                          *)
(*    m_status = m_status && context->status()                             *)
(* are two steps, because && on an std::atomic<bool> is a load and the     *)
(* assignment a store.                                                     *)
(***************************************************************************)
EXTENDS Integers, Sequences, FiniteSets

CONSTANT Size   \* number of contexts/instances the Runner is enqueued with

ASSUME SizeAssumption == Size \in Nat \ {0}

VARIABLES
  owner,                  \* what the owning thread does with the Runner
  launched,               \* number of instances handed to an engine so far
  m_runnable,             \* Runnable::m_state
  m_instances,            \* is the vector of instances populated?
  m_state,                \* Instance::m_state of every instance
  m_live,                 \* has the instance's live promise been set?
  m_status,               \* Runner::m_status
  m_remaining_instances,  \* Runner::m_remaining_instances
  m_completion_callback,  \* is a completion callback registered?
  exception,              \* is Context::m_exception_ptr set?
  pc,                     \* where the instance's task is
  loaded,                 \* the value of m_status the task has read
  callbacks,              \* history: arguments the callback was called with
  rethrown,               \* history: rank whose exception await_join rethrew
  fatal                   \* a CHECK failed (the process aborts)

ownerVars  == <<owner, launched, m_instances, m_completion_callback, rethrown>>
stateVars  == <<m_state, fatal>>
contextVars == <<m_live, exception>>
statusVars == <<m_status, m_remaining_instances, loaded, callbacks>>
vars == <<ownerVars, m_runnable, stateVars, contextVars, statusVars, pc>>

Ranks == 0 .. Size - 1
None  == -1

(* Runner::State and Runnable::State, two ordered enumerations. *)
Unqueued  == 0
Queued    == 1
Running   == 2
Error     == 3
Completed == 4

Owned == 1
Run   == 2
Stop  == 3
Kill  == 4

(* The task has delivered a value or an exception to its join future. *)
Joinable(r) == pc[r] \in {"done", "threw"}

-----------------------------------------------------------------------------
(* Runnable::update_state: the state of a Runnable only moves forward. *)
RunnableUpdateState(new) ==
  m_runnable' = IF m_runnable < new THEN new ELSE m_runnable

(* Runner::update_state: the CHECKs and the assignment, under m_mutex. *)
UpdateState(r, new) ==
  /\ m_state' = [m_state EXCEPT ![r] = new]
  /\ fatal' = (fatal \/ ~m_instances \/ ~(m_state[r] < new))

(* The task of instance r moves from one statement to the next. *)
Goto(r, from, to) ==
  /\ pc[r] = from
  /\ pc' = [pc EXCEPT ![r] = to]

-----------------------------------------------------------------------------
(* Runner::Runner owns the Runnable; a callback may have been registered    *)
(* through Launcher::apply before the Launcher is ignited.                  *)
Init ==
  /\ owner = "made"
  /\ launched = 0
  /\ m_runnable = Owned
  /\ m_instances = FALSE
  /\ m_state = [r \in Ranks |-> Unqueued]
  /\ m_live = [r \in Ranks |-> FALSE]
  /\ m_status = TRUE
  /\ m_remaining_instances = 0
  /\ m_completion_callback \in BOOLEAN
  /\ exception = [r \in Ranks |-> FALSE]
  /\ pc = [r \in Ranks |-> "unlaunched"]
  /\ loaded = [r \in Ranks |-> TRUE]
  /\ callbacks = <<>>
  /\ rethrown = None
  /\ fatal = FALSE

(* Runner::enqueue up to the launch loop: under m_mutex every instance is   *)
(* queued and the Runnable marked Run unless it is already Stop or Kill;    *)
(* m_remaining_instances is set before the first launch.                    *)
Enqueue ==
  /\ owner = "made"
  /\ owner' = "launching"
  /\ m_instances' = TRUE
  /\ m_state' = [r \in Ranks |-> Queued]
  /\ RunnableUpdateState(Run)
  /\ m_remaining_instances' = Size
  /\ UNCHANGED <<launched, m_completion_callback, rethrown, fatal, contextVars,
                 m_status, loaded, callbacks, pc>>

(* One iteration of the launch loop of Runner::enqueue. *)
LaunchTask ==
  /\ owner = "launching"
  /\ Goto(launched, "unlaunched", "init")
  /\ launched' = launched + 1
  /\ owner' = IF launched + 1 = Size THEN "launched" ELSE "launching"
  /\ UNCHANGED <<m_runnable, m_instances, m_completion_callback, rethrown,
                 stateVars, contextVars, statusVars>>

-----------------------------------------------------------------------------
(* The task lambda of Runner::enqueue, statement by statement. *)
TaskRunning(r) ==
  /\ Goto(r, "init", "live")
  /\ UpdateState(r, Running)
  /\ UNCHANGED <<ownerVars, m_runnable, contextVars, statusVars>>

TaskLive(r) ==
  /\ Goto(r, "live", "main")
  /\ m_live' = [m_live EXCEPT ![r] = TRUE]
  /\ UNCHANGED <<ownerVars, m_runnable, stateVars, exception, statusVars>>

(* Mutant of MainSetException: the exception is stored, the kill forgotten. *)
MainSetExceptionNoKill(r) ==
  /\ pc[r] = "main"
  /\ ~exception[r]
  /\ exception' = [exception EXCEPT ![r] = TRUE]
  /\ UNCHANGED <<ownerVars, m_runnable, stateVars, m_live, statusVars, pc>>

(* Context::set_exception, called by main: only the first exception is      *)
(* stored, and only then Runner::kill is called.                            *)
MainSetException(r) ==
  /\ pc[r] = "main"
  /\ ~exception[r]
  /\ exception' = [exception EXCEPT ![r] = TRUE]
  /\ RunnableUpdateState(Kill)
  /\ UNCHANGED <<ownerVars, stateVars, m_live, statusVars, pc>>

(* Runnable::main returns. *)
MainReturn(r) ==
  /\ Goto(r, "main", "returned")
  /\ UNCHANGED <<ownerVars, m_runnable, stateVars, contextVars, statusVars>>

(* Runnable::main throws: nothing in the lambda catches, so the rest of it  *)
(* is skipped and the engine's packaged task stores the exception.          *)
MainThrow(r) ==
  /\ Goto(r, "main", "threw")
  /\ UNCHANGED <<ownerVars, m_runnable, stateVars, contextVars, statusVars>>

TaskError(r) ==
  /\ Goto(r, "returned", "completing")
  /\ IF exception[r] THEN UpdateState(r, Error) ELSE UNCHANGED stateVars
  /\ UNCHANGED <<ownerVars, m_runnable, contextVars, statusVars>>

TaskCompleted(r) ==
  /\ Goto(r, "completing", "load")
  /\ UpdateState(r, Completed)
  /\ UNCHANGED <<ownerVars, m_runnable, contextVars, statusVars>>

TaskLoadStatus(r) ==
  /\ Goto(r, "load", "store")
  /\ loaded' = [loaded EXCEPT ![r] = m_status]
  /\ UNCHANGED <<ownerVars, m_runnable, stateVars, contextVars, m_status,
                 m_remaining_instances, callbacks>>

(* Mutant of TaskStoreStatus: a killed instance counts as a failed one. *)
TaskStoreStatusOfKill(r) ==
  /\ Goto(r, "store", "decrement")
  /\ m_status' = (loaded[r] /\ m_runnable # Kill)
  /\ UNCHANGED <<ownerVars, m_runnable, stateVars, contextVars,
                 m_remaining_instances, loaded, callbacks>>

TaskStoreStatus(r) ==
  /\ Goto(r, "store", "decrement")
  /\ m_status' = (loaded[r] /\ ~exception[r])
  /\ UNCHANGED <<ownerVars, m_runnable, stateVars, contextVars,
                 m_remaining_instances, loaded, callbacks>>

(* Mutants of TaskDecrement: the last instance is recognised one decrement  *)
(* early, or by the value before the decrement.                             *)
TaskDecrementEarly(r) ==
  /\ Goto(r, "decrement",
          IF m_remaining_instances <= 2 /\ m_completion_callback
          THEN "callback" ELSE "finish")
  /\ m_remaining_instances' = m_remaining_instances - 1
  /\ UNCHANGED <<ownerVars, m_runnable, stateVars, contextVars, m_status,
                 loaded, callbacks>>

TaskPostDecrement(r) ==
  /\ Goto(r, "decrement",
          IF m_remaining_instances = 0 /\ m_completion_callback
          THEN "callback" ELSE "finish")
  /\ m_remaining_instances' = m_remaining_instances - 1
  /\ UNCHANGED <<ownerVars, m_runnable, stateVars, contextVars, m_status,
                 loaded, callbacks>>

(* --m_remaining_instances is one atomic read-modify-write. *)
TaskDecrement(r) ==
  /\ Goto(r, "decrement",
          IF m_remaining_instances = 1 /\ m_completion_callback
          THEN "callback" ELSE "finish")
  /\ m_remaining_instances' = m_remaining_instances - 1
  /\ UNCHANGED <<ownerVars, m_runnable, stateVars, contextVars, m_status,
                 loaded, callbacks>>

TaskCallback(r) ==
  /\ Goto(r, "callback", "finish")
  /\ callbacks' = Append(callbacks, m_status)
  /\ UNCHANGED <<ownerVars, m_runnable, stateVars, contextVars, m_status,
                 m_remaining_instances, loaded>>

(* Context::finish rethrows a stored exception into the join future. *)
TaskFinish(r) ==
  /\ Goto(r, "finish", "done")
  /\ UNCHANGED <<ownerVars, m_runnable, stateVars, contextVars, statusVars>>

Task(r) ==
  \/ TaskRunning(r) \/ TaskLive(r) \/ TaskError(r) \/ TaskCompleted(r)
  \/ TaskLoadStatus(r) \/ TaskStoreStatus(r) \/ TaskDecrement(r)
  \/ TaskCallback(r) \/ TaskFinish(r)

-----------------------------------------------------------------------------
(* Runner::stop and Runner::kill, by any thread that can reach the Runner. *)
StopRunner ==
  /\ owner \notin {"destroyed", "terminated"}
  /\ RunnableUpdateState(Stop)
  /\ UNCHANGED <<ownerVars, stateVars, contextVars, statusVars, pc>>

KillRunner ==
  /\ owner \notin {"destroyed", "terminated"}
  /\ RunnableUpdateState(Kill)
  /\ UNCHANGED <<ownerVars, stateVars, contextVars, statusVars, pc>>

(* Runner::await_join: blocks on the join future of each instance in turn,  *)
(* keeps the first exception, clears m_instances, then rethrows it.         *)
Failed(r) == pc[r] = "threw" \/ exception[r]

FirstException ==
  IF \E r \in Ranks : Failed(r)
  THEN CHOOSE r \in Ranks : Failed(r) /\ \A q \in Ranks : Failed(q) => r <= q
  ELSE None

AwaitJoin ==
  /\ owner = "launched"
  /\ \A r \in Ranks : Joinable(r)
  /\ owner' = "joined"
  /\ m_instances' = FALSE
  /\ rethrown' = FirstException
  /\ UNCHANGED <<launched, m_completion_callback, m_runnable, stateVars,
                 contextVars, statusVars, pc>>

(* Runner::~Runner: with instances outstanding it kills the Runnable and    *)
(* joins; without, it only forbids a later enqueue.  An exception that      *)
(* await_join rethrows inside the destructor terminates the process.        *)
DestroyKill ==
  /\ owner = "launched"
  /\ owner' = "destroying"
  /\ RunnableUpdateState(Kill)
  /\ UNCHANGED <<launched, m_instances, m_completion_callback, rethrown,
                 stateVars, contextVars, statusVars, pc>>

DestroyJoin ==
  /\ owner = "destroying"
  /\ \A r \in Ranks : Joinable(r)
  /\ owner' = IF FirstException = None THEN "destroyed" ELSE "terminated"
  /\ m_instances' = FALSE
  /\ rethrown' = FirstException
  /\ UNCHANGED <<launched, m_completion_callback, m_runnable, stateVars,
                 contextVars, statusVars, pc>>

DestroyIdle ==
  /\ owner \in {"made", "joined"}
  /\ owner' = "destroyed"
  /\ UNCHANGED <<launched, m_instances, m_completion_callback, rethrown,
                 m_runnable, stateVars, contextVars, statusVars, pc>>

Owner ==
  \/ Enqueue \/ LaunchTask \/ AwaitJoin
  \/ DestroyKill \/ DestroyJoin \/ DestroyIdle

Next ==
  \/ Owner \/ StopRunner \/ KillRunner
  \/ \E r \in Ranks : Task(r) \/ MainSetException(r) \/ MainReturn(r) \/ MainThrow(r)

Spec == Init /\ [][Next]_vars

(* Every engine is a thread or a fiber that is scheduled, the owner finishes *)
(* launching, and a Runnable returns from main once it has been killed (what *)
(* RxRunnable::on_kill makes the nodes do).                                  *)
MainReturnWhenKilled(r) == m_runnable = Kill /\ MainReturn(r)

Fairness ==
  /\ WF_vars(LaunchTask)
  /\ \A r \in Ranks : WF_vars(Task(r)) /\ WF_vars(MainReturnWhenKilled(r))

FairSpec == Spec /\ Fairness
-----------------------------------------------------------------------------
PCs == {"unlaunched", "init", "live", "main", "returned", "completing", "load",
        "store", "decrement", "callback", "finish", "done", "threw"}
Owners == {"made", "launching", "launched", "joined", "destroying",
           "destroyed", "terminated"}

(* Types of the Runner's members and of the task-local state. *)
TypeOK ==
  /\ owner \in Owners
  /\ launched \in 0 .. Size
  /\ m_runnable \in Owned .. Kill
  /\ m_instances \in BOOLEAN
  /\ m_state \in [Ranks -> Unqueued .. Completed]
  /\ m_live \in [Ranks -> BOOLEAN]
  /\ m_status \in BOOLEAN
  /\ m_remaining_instances \in 0 .. Size
  /\ m_completion_callback \in BOOLEAN
  /\ exception \in [Ranks -> BOOLEAN]
  /\ pc \in [Ranks -> PCs]
  /\ loaded \in [Ranks -> BOOLEAN]
  /\ callbacks \in Seq(BOOLEAN)
  /\ rethrown \in Ranks \cup {None}
  /\ fatal \in BOOLEAN

(* The completion callback runs at most once, and only after every instance *)
(* has been moved to Completed: the last decrement of m_remaining_instances *)
(* decides, whichever engine thread performs it.                            *)
CompletionOnce ==
  /\ Len(callbacks) <= 1
  /\ callbacks # <<>> => \A r \in Ranks : m_state[r] = Completed

(* await_join never returns ahead of a registered completion callback,      *)
(* unless an exception escaped some instance's main.                        *)
JoinAfterCallback ==
  /\ owner = "joined"
  /\ m_completion_callback
  /\ \A r \in Ranks : pc[r] # "threw"
  => Len(callbacks) = 1

(* A callback with FALSE is never spurious: some context stored an exception. *)
FailureIsReal ==
  callbacks # <<>> /\ ~callbacks[1] => \E r \in Ranks : exception[r]

(* No CHECK of Runner::update_state fails: an instance's state advances in   *)
(* the proper order, and no task touches m_instances after await_join or     *)
(* ~Runner has cleared it.                                                   *)
NoCheckFails == ~fatal

(* One context's exception kills the shared Runnable, so every instance of   *)
(* the Runner, launched already or not, ends and can be joined.              *)
ExceptionEndsAll ==
  (\E r \in Ranks : exception[r]) ~> (\A r \in Ranks : Joinable(r))

(* runner.hpp:102-103: "a true value indicated that all contexts/instances  *)
(* finished without error. A false value indicates that one or more          *)
(* contexts/instances had uncaught exceptions."                              *)
CallbackReportsErrors ==
  callbacks # <<>> => (callbacks[1] <=> \A r \in Ranks : ~exception[r])

(* runner.hpp:100: "Completion callback triggered when a Runnable            *)
(* collectively completes", also when an instance ended by an uncaught       *)
(* exception (runner.hpp:103): after await_join it has been triggered.       *)
CallbackTriggered ==
  owner = "joined" /\ m_completion_callback => Len(callbacks) = 1
=============================================================================
