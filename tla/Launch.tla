------------------------------- MODULE Launch -------------------------------
(***************************************************************************)
(* How a Runnable gets onto its engines: LaunchControl::prepare_launcher   *)
(* builds the engines and one Context per engine, Launcher::ignition hands *)
(* both to the Runner, every engine runs the task once, and the instances, *)
(* fibers of a few threads or threads of their own, synchronise through    *)
(* the Context: lock, barrier, get_runtime_context, set_exception.         *)
(* The states of the Runner itself are those of module Runner.             *)
(***************************************************************************)
EXTENDS Integers, Sequences, FiniteSets

CONSTANTS
  Groups,     \* resource_groups: engine factory name -> EngineType
  Requests,   \* [name, pe_count, engines_per_pe, kind, wrapped]
  Programs,   \* what the Runnable does with its Context, as a sequence of calls
  Callers     \* threads that share the Launcher

VARIABLES
  request, program,   \* this launch
  m_runner,      \* "none", then in the Launcher: "held", "moved", "dropped"
  joined,        \* has the Runner let go of its instances?
  context,       \* rank -> [type, wrapped, resources, size]
  engine,        \* rank -> [pe, m_launched, m_thread]
  next,          \* instances handed to their engine so far
  pc, at,        \* where the instance is, and in which call of the program
  fiber_local,   \* fiber (of the instance) -> rank of its FiberLocalContext
  locked,        \* resources -> ranks that hold its mutex
  arrived, passed,
  found,         \* history: rank that get_runtime_context returned
  failed,        \* contexts that hold an exception
  outcome        \* "ok", or the CHECK that ended the process

launchVars   == <<request, program, m_runner, joined, next>>
engineVars   == <<context, engine>>
syncVars     == <<locked, arrived, passed>>
instanceVars == <<pc, at, fiber_local, found, failed>>
vars == <<launchVars, engineVars, syncVars, instanceVars, outcome>>

None  == -1
Ranks == DOMAIN context
size  == Cardinality(Ranks)

Live == outcome = "ok"
Abort(reason) ==
  outcome' = reason /\ UNCHANGED <<launchVars, engineVars, syncVars, instanceVars>>

Empty == [r \in {} |-> None]

Init ==
  /\ request \in Requests /\ program \in Programs
  /\ m_runner = "none" /\ joined = FALSE /\ next = 0
  /\ context = Empty /\ engine = Empty
  /\ pc = Empty /\ at = Empty /\ fiber_local = Empty /\ found = Empty
  /\ failed = {} /\ locked = Empty /\ arrived = Empty /\ passed = Empty
  /\ outcome = "ok"
-----------------------------------------------------------------------------
(* LaunchControl *)

(* engines_per_pe engines for every processing element, one after the other: *)
(* FiberEngines on the queues of the pool, ThreadEngines, which ask for at   *)
(* least one, on the cpus of the set.                                        *)
Launchers ==
  [i \in 0 .. request.pe_count * request.engines_per_pe - 1 |->
     [pe |-> i \div request.engines_per_pe, m_launched |-> FALSE, m_thread |-> "null"]]

ThreadEnginesRefuse == Groups[request.name] = "Thread" /\ request.engines_per_pe < 1

(* Mutants of make_contexts: resources for every context, and resources with *)
(* a barrier for as many contexts as there are processing elements.          *)
make_contextsEach(type, n) ==
  [i \in 0 .. n - 1 |-> [type |-> type, wrapped |-> request.wrapped,
                         resources |-> i, barrier |-> n]]
make_contextsPerPe(type, n) ==
  [i \in 0 .. n - 1 |-> [type |-> type, wrapped |-> request.wrapped,
                         resources |-> 0, barrier |-> request.pe_count]]

(* One context per engine; they share one mutex and one barrier.  The        *)
(* constructor of each locks the mutex and unlocks it again.                 *)
make_contexts(type, n) ==
  [i \in 0 .. n - 1 |-> [type |-> type, wrapped |-> request.wrapped,
                         resources |-> 0, barrier |-> n]]

(* A FiberRunnable asks for a fiber engine; any other takes the type of its  *)
(* engine.  (A ThreadRunnable does not compile: is_thread_context_v is asked *)
(* of the Runnable, not of its context, and ThreadContext is final.)         *)
Mismatch == request.kind = "fiber" /\ Groups[request.name] # "Fiber"

get_engine_factory == request.name \in DOMAIN Groups

Construct(engines) ==
  LET ranks == DOMAIN engines
  IN /\ engine' = engines
     /\ context' = make_contexts(Groups[request.name], Cardinality(ranks))
     /\ m_runner' = "held"
     /\ pc' = [r \in ranks |-> "queued"]
     /\ at' = [r \in ranks |-> 1]
     /\ fiber_local' = [r \in ranks |-> None]
     /\ found' = [r \in ranks |-> None]
     /\ locked' = [r \in ranks |-> {}]
     /\ arrived' = [r \in ranks |-> 0]
     /\ passed' = [r \in ranks |-> 0]
     /\ UNCHANGED <<request, program, joined, next, failed, outcome>>

(* The barrier of the context resources refuses a count of zero. *)
prepare_launcher ==
  /\ Live /\ m_runner = "none"
  /\ IF ~get_engine_factory THEN Abort("unable to find launch group")
     ELSE IF ThreadEnginesRefuse THEN Abort("Check failed: engines_per_pe >= 1")
     ELSE IF Mismatch THEN Abort("Requested FiberRunnable to be run on a ThreadEngine")
     ELSE IF Launchers = Empty THEN Abort("zero initial barrier count")
     ELSE Construct(Launchers)
-----------------------------------------------------------------------------
(* Launcher *)

(* Launcher::ignition, under its mutex: a Launcher is used once, and whoever  *)
(* comes second gets the mutex when all instances are launched.              *)
Ignition(c) ==
  /\ Live
  /\ \/ m_runner = "moved" /\ next = size /\ Abort("Check failed: m_runner")
     \/ /\ m_runner = "held"
        /\ m_runner' = "moved"
        /\ UNCHANGED <<request, program, joined, next, engineVars, syncVars,
                       instanceVars, outcome>>

(* ~Launcher before the ignition: the last references to the engines go, and *)
(* ~ThreadEngine dereferences the thread it never made.                      *)
DropUnused ==
  /\ Live /\ m_runner = "held"
  /\ IF \E r \in Ranks : context[r].type = "Thread" THEN Abort("m_thread is null")
     ELSE /\ m_runner' = "dropped"
          /\ UNCHANGED <<request, program, joined, next, engineVars, syncVars,
                         instanceVars, outcome>>

(* FiberEngine puts the task on the queue of its pool, ThreadEngine makes a  *)
(* thread for it.                                                            *)
do_launch_task(r) ==
  [engine[r] EXCEPT !.m_launched = TRUE,
                    !.m_thread = IF context[r].type = "Thread" THEN "running" ELSE @]

(* The loop of Runner::enqueue: Engine::launch_task for the next instance. *)
launch_task ==
  /\ Live /\ m_runner = "moved" /\ next < size
  /\ IF engine[next].m_launched THEN Abort("attempted reuse of a runnable::Engine")
     ELSE /\ engine' = [engine EXCEPT ![next] = do_launch_task(next)]
          /\ pc' = [pc EXCEPT ![next] = "launched"]
          /\ next' = next + 1
          /\ UNCHANGED <<request, program, m_runner, joined, context, syncVars, at,
                         fiber_local, found, failed, outcome>>
-----------------------------------------------------------------------------
(* The task of instance r. *)

(* Mutant of InitContext: one local context per thread instead of per fiber. *)
InitContextThreadLocal(r) ==
  /\ Live /\ pc[r] = "launched"
  /\ fiber_local' = [q \in Ranks |-> IF engine[q].pe = engine[r].pe THEN r
                                     ELSE fiber_local[q]]
  /\ pc' = [pc EXCEPT ![r] = "main"]
  /\ UNCHANGED <<launchVars, engineVars, syncVars, at, found, failed, outcome>>

(* Context::init, then Runnable::main. *)
InitContext(r) ==
  /\ Live /\ pc[r] = "launched"
  /\ fiber_local' = [fiber_local EXCEPT ![r] = r]
  /\ pc' = [pc EXCEPT ![r] = "main"]
  /\ UNCHANGED <<launchVars, engineVars, syncVars, at, found, failed, outcome>>

(* RunnableWithContext::main casts the context to the type the Runnable was  *)
(* written for; a FiberContext around a wrapper is not that type.            *)
main(r) ==
  /\ Live /\ pc[r] = "main"
  /\ IF request.kind = "fiber" /\ (context[r].type # "Fiber" \/ context[r].wrapped)
     THEN Abort("Check failed: up")
     ELSE /\ pc' = [pc EXCEPT ![r] = "run"]
          /\ UNCHANGED <<launchVars, engineVars, syncVars, at, fiber_local, found,
                         failed, outcome>>

Calls(r, call) ==
  Live /\ pc[r] = "run" /\ at[r] <= Len(program) /\ program[at[r]] = call
Returns(r) ==
  at' = [at EXCEPT ![r] = @ + 1] /\ UNCHANGED <<launchVars, engineVars, outcome>>

Alone == size = 1
Resources(r) == context[r].resources

lock(r) ==
  /\ Calls(r, "lock")
  /\ Alone \/ locked[Resources(r)] = {}
  /\ locked' = [locked EXCEPT ![Resources(r)] = @ \cup {r}]
  /\ Returns(r) /\ UNCHANGED <<pc, arrived, passed, fiber_local, found, failed>>

unlock(r) ==
  /\ Calls(r, "unlock")
  /\ locked' = [locked EXCEPT ![Resources(r)] = @ \ {r}]
  /\ Returns(r) /\ UNCHANGED <<pc, arrived, passed, fiber_local, found, failed>>

(* Context::barrier: arrive, then wait for the others, unless alone. *)
barrier(r) ==
  /\ Calls(r, "barrier")
  /\ pc' = [pc EXCEPT ![r] = "barrier"]
  /\ arrived' = [arrived EXCEPT ![r] = @ + 1]
  /\ UNCHANGED <<launchVars, engineVars, locked, passed, at, fiber_local, found,
                 failed, outcome>>

(* The barrier of FiberContextResources or ThreadContextResources opens. *)
wait(r) ==
  /\ Live /\ pc[r] = "barrier"
  /\ \/ Alone
     \/ Cardinality({q \in Ranks : Resources(q) = Resources(r) /\ arrived[q] >= arrived[r]})
          >= context[r].barrier
  /\ passed' = [passed EXCEPT ![r] = arrived[r]]
  /\ pc' = [pc EXCEPT ![r] = "run"]
  /\ Returns(r) /\ UNCHANGED <<locked, arrived, fiber_local, found, failed>>

get_runtime_context(r) ==
  /\ Calls(r, "get")
  /\ found' = [found EXCEPT ![r] = fiber_local[r]]
  /\ Returns(r) /\ UNCHANGED <<syncVars, pc, fiber_local, failed>>

(* An observer's on_error reports to the context it finds on its fiber. *)
set_exception(r) ==
  /\ Calls(r, "get")
  /\ failed' = failed \cup {fiber_local[r]}
  /\ found' = [found EXCEPT ![r] = fiber_local[r]]
  /\ Returns(r) /\ UNCHANGED <<syncVars, pc, fiber_local>>

(* main returns: the task is over, and so is the thread of a ThreadEngine. *)
Finish(r) ==
  /\ Live /\ pc[r] = "run" /\ at[r] > Len(program)
  /\ pc' = [pc EXCEPT ![r] = "done"]
  /\ engine' = [engine EXCEPT ![r].m_thread = IF @ = "running" THEN "exiting" ELSE @]
  /\ UNCHANGED <<launchVars, context, syncVars, at, fiber_local, found, failed, outcome>>

ThreadExit(r) ==
  /\ Live /\ engine[r].m_thread = "exiting"
  /\ engine' = [engine EXCEPT ![r].m_thread = "exited"]
  /\ UNCHANGED <<launchVars, context, syncVars, instanceVars, outcome>>

(* Mutant of Release: ~ThreadEngine does not wait for its thread. *)
ReleaseNoJoin ==
  /\ Live /\ m_runner = "moved" /\ next = size /\ ~joined
  /\ \A r \in Ranks : pc[r] = "done"
  /\ joined' = TRUE
  /\ UNCHANGED <<request, program, m_runner, next, engineVars, syncVars, instanceVars,
                 outcome>>

(* Runner::await_join has all the futures and clears m_instances, the last   *)
(* owner of the engines: ~ThreadEngine joins its thread.                     *)
Release ==
  /\ Live /\ m_runner = "moved" /\ next = size /\ ~joined
  /\ \A r \in Ranks : pc[r] = "done" /\ engine[r].m_thread \in {"null", "exited"}
  /\ joined' = TRUE
  /\ UNCHANGED <<request, program, m_runner, next, engineVars, syncVars, instanceVars,
                 outcome>>

Instance(r) ==
  \/ InitContext(r) \/ main(r) \/ lock(r) \/ unlock(r) \/ barrier(r) \/ wait(r)
  \/ get_runtime_context(r) \/ set_exception(r) \/ Finish(r) \/ ThreadExit(r)

Next ==
  \/ prepare_launcher \/ (\E c \in Callers : Ignition(c)) \/ DropUnused \/ launch_task
  \/ (\E r \in Ranks : Instance(r))
  \/ Release

Spec == Init /\ [][Next]_vars
-----------------------------------------------------------------------------
(* What a Context promises the instances of one Runnable, on fibers that     *)
(* share threads as well as on threads: get_runtime_context is the caller's  *)
(* own context, so an error is never reported to a sibling; one instance at  *)
(* a time holds the lock; nobody leaves a barrier that another instance has  *)
(* not reached yet; and no thread outlives its engine.                       *)
InstancesSynchronised ==
  /\ \A r \in Ranks : found[r] \in {None, r}
  /\ failed \subseteq {r \in Ranks : found[r] # None}
  /\ Cardinality(UNION {locked[r] : r \in Ranks}) <= 1
  /\ \A q, r \in Ranks : passed[r] <= arrived[q]
  /\ joined => \A r \in Ranks : engine[r].m_thread \in {"null", "exited"}

(* launcher.cpp:41: LOG_IF(WARNING, m_runner) << "destroying unused          *)
(* launcher": an unused Launcher is worth a warning, not a crash.            *)
UnusedIsHarmless == outcome # "m_thread is null"

(* launch_control.hpp:108-114 accepts a FiberRunnable on fiber engines, with a *)
(* wrapped context too: main must then take the context made for it.         *)
ContextAccepted == outcome # "Check failed: up"
=============================================================================
