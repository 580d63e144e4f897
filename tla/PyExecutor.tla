----------------------------- MODULE PyExecutor -----------------------------
(***************************************************************************)
(* The Python executor (python/srf/_pysrf/src/executor.cpp, system.cpp):   *)
(* construction, start, stop, join with its signal handler thread,         *)
(* join_async, the Future class and the destructor, against the GIL, the   *)
(* engine threads that run Python callbacks and the fibers that share the  *)
(* interpreter's main thread.                                              *)
(*                                                                         *)
(* A thread that waits for the GIL blocks as a thread.  A fiber of the     *)
(* main thread runs only while the main fiber is suspended (FiberPoint).   *)
(* The service below is the executor of Service and Pipeline, reduced to   *)
(* the part its Python owner sees.                                         *)
(***************************************************************************)
EXTENDS Naturals, FiniteSets

CONSTANTS
    Engines,      \* the threads of the system
    MaxCalls,     \* bound: calls of the Python program
    MaxSignals,   \* bound: SIGINT and SIGTERM sent by the user
    Careless      \* TRUE: the program may join before start and drop without join

VARIABLES
    gil,         \* owner of the GIL: "free", "main", "handler" or an engine
    main,        \* where the Python thread is
    calls,       \* calls made so far
    joined,      \* the program has returned from join() or from await join_async()
    exec,        \* m_exec: "none", "set" or "null"
    service,     \* its state: "Initialized", "Running", "Stopping" or "Completed"
    source,      \* the pipeline's source: it ends by itself ("finite"), when it is stopped
                 \* ("stoppable": it looks at is_subscribed) or never (a Python generator)
    engine,      \* per engine thread: what it does
    refs,        \* per engine thread: references on its Python thread state
    joinFiber,   \* m_join_future's fiber: "none", "posted", "waiting", "done", "crashed"
    asyncFiber,  \* the fiber of join_async(): "none", "posted", "waiting", "gil", "done", "crashed"
    future,      \* a Future shared with a callback: "unset" or "set"
    handler,     \* the signal handler thread of join()
    count,       \* its signal_count
    running,     \* join()'s executor_running
    cv,          \* owner of join()'s cv_mutex
    ready,       \* the last wait_for() of join() returned ready
    pending,     \* a blocked signal is pending
    signals      \* signals sent

joinVars  == <<handler, count, running, cv, ready>>
fiberVars == <<joinFiber, asyncFiber>>
threadVars == <<engine, refs>>
vars == <<gil, main, calls, joined, exec, service, source, threadVars, fiberVars, future,
          joinVars, pending, signals>>

InJoin == {"jgil", "jlock", "jcheck", "jwait", "jrelock", "jready", "jhandler", "jhang"}

(* The main fiber is suspended in a fiber primitive, and no other fiber    *)
(* blocks the thread: a fiber may run.  Once the executor is gone, the     *)
(* program goes on and may be suspended at any time.                       *)
FiberPoint == main \in {"jwait", "next", "rwait", "kill", "lastwait", "gone"} /\ asyncFiber # "gil"

Init ==
    /\ gil = "main" /\ main = "py" /\ calls = 0 /\ joined = FALSE
    /\ exec = "none" /\ service = "Initialized" /\ source \in {"finite", "stoppable", "generator"}
    /\ engine = [e \in Engines |-> "none"] /\ refs = [e \in Engines |-> 0]
    /\ joinFiber = "none" /\ asyncFiber = "none" /\ future = "unset"
    /\ handler = "off" /\ count = 0 /\ running = FALSE /\ cv = "free" /\ ready = FALSE
    /\ pending = FALSE /\ signals = 0

Over == service = "Completed"

(* The Python program is about to make a call. *)
Python == main = "py" /\ gil = "main" /\ calls < MaxCalls

(* gil_scoped_release at the head of a call, which continues at p. *)
ReleaseGil(p) == gil' = "free" /\ main' = p

(* gil_scoped_release's destructor: the call returns to Python. *)
Return ==
    /\ main = "back" /\ gil = "free"
    /\ gil' = "main" /\ main' = "py"
    /\ UNCHANGED <<calls, joined, exec, service, source, threadVars, fiberVars, future,
                   joinVars, pending, signals>>

(* The interpreter gives up the GIL between two byte codes. *)
Yield ==
    /\ main = "py" /\ gil = "main"
    /\ ReleaseGil("back")
    /\ UNCHANGED <<calls, joined, exec, service, source, threadVars, fiberVars, future,
                   joinVars, pending, signals>>

(* Executor::Executor: the signal mask, then System: add_gil_initializer   *)
(* registers the initializer with the GIL released and waits for it.       *)
Construct ==
    /\ Python /\ exec = "none"
    /\ exec' = "set" /\ calls' = calls + 1
    /\ engine' = [e \in Engines |-> "init"]
    /\ ReleaseGil("construct")
    /\ UNCHANGED <<joined, service, source, refs, fiberVars, future, joinVars, pending, signals>>

ConstructEnd ==
    /\ main = "construct" /\ \A e \in Engines : engine[e] = "idle"
    /\ main' = "back"
    /\ UNCHANGED <<gil, calls, joined, exec, service, source, threadVars, fiberVars, future,
                   joinVars, pending, signals>>

(* Executor::start: the executor is started without the GIL, then a fiber  *)
(* that will join it is posted on this thread.                             *)
Start ==
    /\ Python /\ exec = "set" /\ service = "Initialized"
    /\ calls' = calls + 1
    /\ ReleaseGil("starting")
    /\ UNCHANGED <<joined, exec, service, source, threadVars, fiberVars, future, joinVars,
                   pending, signals>>

StartEnd ==
    /\ main = "starting"
    /\ service' = "Running" /\ joinFiber' = "posted"
    /\ engine' = [e \in Engines |-> "work"]
    /\ main' = "back"
    /\ UNCHANGED <<gil, calls, joined, exec, source, refs, asyncFiber, future, joinVars,
                   pending, signals>>

ServiceStop == service' = IF service = "Running" THEN "Stopping" ELSE service

(* Executor::stop, called by Python: the GIL is kept. *)
Stop ==
    /\ Python /\ exec = "set" /\ service # "Initialized"
    /\ calls' = calls + 1 /\ ServiceStop
    /\ UNCHANGED <<gil, main, joined, exec, source, threadVars, fiberVars, future, joinVars,
                   pending, signals>>

---------------------------------------------------------------------------
(* Executor::join *)

(* Up to the gil_scoped_release before the loop: the handler is launched. *)
Join ==
    /\ Python /\ exec = "set" /\ (service # "Initialized" \/ Careless)
    /\ calls' = calls + 1
    /\ handler' = "lock" /\ count' = 0 /\ running' = TRUE /\ cv' = "free" /\ ready' = FALSE
    /\ ReleaseGil("jlock")
    /\ UNCHANGED <<joined, exec, service, source, threadVars, fiberVars, future, pending, signals>>

JoinLock ==
    /\ main \in {"jlock", "jrelock"} /\ cv = "free"
    /\ cv' = "main" /\ main' = IF main = "jlock" THEN "jcheck" ELSE "jready"
    /\ UNCHANGED <<gil, calls, joined, exec, service, source, threadVars, fiberVars, future,
                   handler, count, running, ready, pending, signals>>

(* The loop's condition.  wait_for() of a future that was never set throws;*)
(* unwinding then waits for the handler in the destructor of its future.   *)
(* That of a ready future returns at once.                                 *)
JoinCheck ==
    /\ main = "jcheck"
    /\ cv' = "free"
    /\ main' = CASE ~running -> "jhandler"
                 [] running /\ joinFiber = "none" -> "jhang"
                 [] running /\ joinFiber = "done" -> "jrelock"
                 [] OTHER -> "jwait"
    /\ ready' = (ready \/ (running /\ joinFiber = "done"))
    /\ UNCHANGED <<gil, calls, joined, exec, service, source, threadVars, fiberVars, future,
                   handler, count, running, pending, signals>>

(* wait_for(100ms) returns: every ready fiber of the thread has had a turn. *)
JoinWaited ==
    /\ main = "jwait" /\ joinFiber # "posted"
    /\ ready' = (joinFiber = "done") /\ main' = "jrelock"
    /\ UNCHANGED <<gil, calls, joined, exec, service, source, threadVars, fiberVars, future,
                   handler, count, running, cv, pending, signals>>

JoinReady ==
    /\ main = "jready"
    /\ running' = (running /\ ~ready) /\ main' = "jcheck"
    /\ UNCHANGED <<gil, calls, joined, exec, service, source, threadVars, fiberVars, future,
                   handler, count, cv, ready, pending, signals>>

(* Mutant of JoinHandler: the handler thread is not waited for. *)
JoinHandlerDetached ==
    /\ main = "jhandler"
    /\ joined' = TRUE /\ main' = "back"
    /\ UNCHANGED <<gil, calls, exec, service, source, threadVars, fiberVars, future, joinVars,
                   pending, signals>>

(* ft_signal_handler.wait(), or the destructor of that future: the handler *)
(* has returned.                                                           *)
JoinHandler ==
    /\ main \in {"jhandler", "jhang"} /\ handler = "off"
    /\ joined' = TRUE /\ main' = "back"
    /\ UNCHANGED <<gil, calls, exec, service, source, threadVars, fiberVars, future, joinVars,
                   pending, signals>>

(* The signal_handler lambda, a thread of its own. *)
HandlerLock ==
    /\ handler \in {"lock", "relock", "relock_signal"} /\ cv = "free"
    /\ cv' = "handler"
    /\ handler' = IF handler = "relock_signal" THEN "gil" ELSE "check"
    /\ count' = IF handler = "relock_signal" THEN count + 1 ELSE count
    /\ UNCHANGED <<gil, main, calls, joined, exec, service, source, threadVars, fiberVars,
                   future, running, ready, pending, signals>>

HandlerCheck ==
    /\ handler = "check"
    /\ cv' = "free" /\ handler' = IF running THEN "sigwait" ELSE "off"
    /\ UNCHANGED <<gil, main, calls, joined, exec, service, source, threadVars, fiberVars,
                   future, count, running, ready, pending, signals>>

(* sigtimedwait takes a pending signal, or times out. *)
HandlerSignal ==
    /\ handler = "sigwait"
    /\ handler' = IF pending THEN "relock_signal" ELSE "relock"
    /\ pending' = FALSE
    /\ UNCHANGED <<gil, main, calls, joined, exec, service, source, threadVars, fiberVars,
                   future, count, running, cv, ready, signals>>

HandlerGil ==
    /\ handler = "gil" /\ gil = "free"
    /\ gil' = "handler" /\ handler' = "act"
    /\ UNCHANGED <<main, calls, joined, exec, service, source, threadVars, fiberVars, future,
                   count, running, cv, ready, pending, signals>>

(* The first signal stops the executor, a later one ends both loops. *)
HandlerAct ==
    /\ handler = "act"
    /\ IF count = 1 THEN ServiceStop /\ UNCHANGED running
       ELSE running' = FALSE /\ UNCHANGED service
    /\ gil' = "free" /\ handler' = "check"
    /\ UNCHANGED <<main, calls, joined, exec, source, threadVars, fiberVars, future, count, cv,
                   ready, pending, signals>>

---------------------------------------------------------------------------
(* join_async() and the Awaitable that polls it *)

JoinAsync ==
    /\ Python /\ exec = "set" /\ service # "Initialized" /\ asyncFiber = "none"
    /\ calls' = calls + 1 /\ asyncFiber' = "posted"
    /\ UNCHANGED <<gil, main, joined, exec, service, source, threadVars, joinFiber, future,
                   joinVars, pending, signals>>

(* Awaitable::next, called by the event loop until it raises StopIteration. *)
AwaitableNext ==
    /\ main = "py" /\ gil = "main" /\ asyncFiber # "none" /\ ~joined /\ exec = "set"
    /\ ReleaseGil("next")
    /\ UNCHANGED <<calls, joined, exec, service, source, threadVars, fiberVars, future, joinVars,
                   pending, signals>>

AwaitableNextEnd ==
    /\ main = "next" /\ joinFiber # "posted" /\ asyncFiber # "posted"
    /\ joined' = (joined \/ asyncFiber = "done") /\ main' = "back"
    /\ UNCHANGED <<gil, calls, exec, service, source, threadVars, fiberVars, future, joinVars,
                   pending, signals>>

(* The fiber of start(): m_exec->join(), on the pointer as it is then. *)
JoinFiberRuns ==
    /\ FiberPoint /\ joinFiber = "posted"
    /\ joinFiber' = IF exec = "null" THEN "crashed" ELSE "waiting"
    /\ UNCHANGED <<gil, main, calls, joined, exec, service, source, threadVars, asyncFiber,
                   future, joinVars, pending, signals>>

(* Mutant of JoinFiberEnds: the join returns once the stop was requested. *)
JoinFiberEndsEarly ==
    /\ FiberPoint /\ joinFiber = "waiting" /\ service \in {"Stopping", "Completed"}
    /\ joinFiber' = "done"
    /\ UNCHANGED <<gil, main, calls, joined, exec, service, source, threadVars, asyncFiber,
                   future, joinVars, pending, signals>>

JoinFiberEnds ==
    /\ FiberPoint /\ joinFiber = "waiting" /\ Over
    /\ joinFiber' = "done"
    /\ UNCHANGED <<gil, main, calls, joined, exec, service, source, threadVars, asyncFiber,
                   future, joinVars, pending, signals>>

(* The fiber of join_async(): it waits for a member of the executor, then  *)
(* blocks the thread until it has the GIL to build its result.             *)
AsyncFiberRuns ==
    /\ FiberPoint /\ asyncFiber = "posted"
    /\ asyncFiber' = IF main = "gone" THEN "crashed" ELSE "waiting"
    /\ UNCHANGED <<gil, main, calls, joined, exec, service, source, threadVars, joinFiber,
                   future, joinVars, pending, signals>>

AsyncFiberWakes ==
    /\ FiberPoint /\ asyncFiber = "waiting" /\ joinFiber = "done"
    /\ asyncFiber' = IF main = "gone" THEN "crashed" ELSE "gil"
    /\ UNCHANGED <<gil, main, calls, joined, exec, service, source, threadVars, joinFiber,
                   future, joinVars, pending, signals>>

AsyncFiberEnds ==
    /\ asyncFiber = "gil" /\ gil = "free"
    /\ asyncFiber' = "done"
    /\ UNCHANGED <<gil, main, calls, joined, exec, service, source, threadVars, joinFiber,
                   future, joinVars, pending, signals>>

---------------------------------------------------------------------------
(* PyBoostFuture: result() waits without the GIL, set_result() is called   *)
(* by a callback.                                                          *)

FutureResult ==
    /\ Python /\ service # "Initialized"
    /\ calls' = calls + 1 /\ ReleaseGil("result")
    /\ UNCHANGED <<joined, exec, service, source, threadVars, fiberVars, future, joinVars,
                   pending, signals>>

(* m_future.wait() suspends the fiber when there is no value yet. *)
FutureWait ==
    /\ main = "result"
    /\ main' = IF future = "set" THEN "back" ELSE "rwait"
    /\ UNCHANGED <<gil, calls, joined, exec, service, source, threadVars, fiberVars, future,
                   joinVars, pending, signals>>

FutureResultEnd ==
    /\ main = "rwait" /\ future = "set"
    /\ main' = "back"
    /\ UNCHANGED <<gil, calls, joined, exec, service, source, threadVars, fiberVars, future,
                   joinVars, pending, signals>>

---------------------------------------------------------------------------
(* The threads of the system *)

(* The initializer: the GIL, and one reference kept on the thread state. *)
ThreadInit(e) ==
    /\ engine[e] = "init" /\ gil = "free"
    /\ engine' = [engine EXCEPT ![e] = "idle"] /\ refs' = [refs EXCEPT ![e] = @ + 1]
    /\ UNCHANGED <<gil, main, calls, joined, exec, service, source, fiberVars, future, joinVars,
                   pending, signals>>

(* A callback of the pipeline enters Python, and leaves it: the last item  *)
(* of a source, or a stop, ends the engine's work.                         *)
CallbackEnter(e) ==
    /\ engine[e] = "work" /\ gil = "free"
    /\ gil' = e /\ engine' = [engine EXCEPT ![e] = "python"]
    /\ UNCHANGED <<main, calls, joined, exec, service, source, refs, fiberVars, future,
                   joinVars, pending, signals>>

Ends == source = "finite" \/ (source = "stoppable" /\ service # "Running")

CallbackLeave(e) ==
    /\ engine[e] = "python"
    /\ gil' = "free" /\ future' = "set"
    /\ engine' = [engine EXCEPT ![e] = IF Ends THEN "done" ELSE "work"]
    /\ UNCHANGED <<main, calls, joined, exec, service, source, refs, fiberVars, joinVars,
                   pending, signals>>

(* Every engine is done: the service completes. *)
Completes ==
    /\ service \in {"Running", "Stopping"} /\ \A e \in Engines : engine[e] = "done"
    /\ service' = "Completed"
    /\ UNCHANGED <<gil, main, calls, joined, exec, source, threadVars, fiberVars, future,
                   joinVars, pending, signals>>

(* The finalizer: the GIL, and the reference is dropped. *)
ThreadExit(e) ==
    /\ engine[e] = "fin" /\ gil = "free"
    /\ engine' = [engine EXCEPT ![e] = "exited"] /\ refs' = [refs EXCEPT ![e] = @ - 1]
    /\ UNCHANGED <<gil, main, calls, joined, exec, service, source, fiberVars, future, joinVars,
                   pending, signals>>

(* Mutant of Destroy: the GIL is kept while the executor is released. *)
DestroyHoldingGil ==
    /\ main = "py" /\ gil = "main" /\ exec = "set"
    /\ joined \/ service = "Initialized" \/ Careless
    /\ exec' = "null" /\ main' = IF service \in {"Initialized", "Completed"} THEN "reset" ELSE "kill"
    /\ service' = IF service = "Running" THEN "Stopping" ELSE service
    /\ UNCHANGED <<gil, calls, joined, source, threadVars, fiberVars, future, joinVars, pending,
                   signals>>

(* Executor::~Executor: the GIL is released, m_exec is null while the      *)
(* executor behind it is killed and joined.                                *)
Destroy ==
    /\ main = "py" /\ gil = "main" /\ exec = "set"
    /\ joined \/ service = "Initialized" \/ Careless
    /\ exec' = "null" /\ ReleaseGil(IF service \in {"Initialized", "Completed"} THEN "reset" ELSE "kill")
    /\ service' = IF service = "Running" THEN "Stopping" ELSE service
    /\ UNCHANGED <<calls, joined, source, threadVars, fiberVars, future, joinVars, pending,
                   signals>>

(* The executor is over: its system ends the threads, with finalizers. *)
DestroyThreads ==
    /\ main \in {"reset", "kill"} /\ service \in {"Initialized", "Completed"}
    /\ main = "kill" => joinFiber \notin {"posted", "crashed"}
    /\ \A e \in Engines : engine[e] \in {"idle", "done"}
    /\ engine' = [e \in Engines |-> "fin"] /\ main' = "threads"
    /\ UNCHANGED <<gil, calls, joined, exec, service, source, refs, fiberVars, future, joinVars,
                   pending, signals>>

(* All threads have exited; a valid m_join_future is given 100ms. *)
DestroyWait ==
    /\ main = "threads" /\ \A e \in Engines : engine[e] = "exited"
    /\ main' = IF joinFiber \in {"none", "done"} THEN "last" ELSE "lastwait"
    /\ UNCHANGED <<gil, calls, joined, exec, service, source, threadVars, fiberVars, future,
                   joinVars, pending, signals>>

DestroyEnd ==
    /\ main \in {"last", "lastwait"} /\ gil = "free" /\ asyncFiber # "gil"
    /\ gil' = "main" /\ main' = "gone"
    /\ UNCHANGED <<calls, joined, exec, service, source, threadVars, fiberVars, future, joinVars,
                   pending, signals>>

(* The user: a signal that is already pending is not queued twice. *)
Signal ==
    /\ signals < MaxSignals /\ exec = "set"
    /\ signals' = signals + 1 /\ pending' = TRUE
    /\ UNCHANGED <<gil, main, calls, joined, exec, service, source, threadVars, fiberVars,
                   future, joinVars>>

(* The main fiber, while its thread is not blocked by another one. *)
MainSteps ==
    /\ asyncFiber # "gil"
    /\ \/ Return \/ ConstructEnd \/ StartEnd \/ JoinCheck \/ JoinWaited \/ JoinReady \/ JoinHandler
       \/ AwaitableNextEnd \/ FutureWait \/ FutureResultEnd
       \/ DestroyThreads \/ DestroyWait \/ DestroyEnd
FiberSteps == JoinFiberRuns \/ JoinFiberEnds \/ AsyncFiberRuns \/ AsyncFiberWakes \/ AsyncFiberEnds
HandlerSteps == HandlerCheck \/ HandlerSignal \/ HandlerAct
EngineSteps(e) == ThreadInit(e) \/ CallbackEnter(e) \/ ThreadExit(e)

Next ==
    \/ Yield \/ Construct \/ Start \/ Stop \/ Join \/ JoinAsync \/ AwaitableNext \/ FutureResult \/ Destroy
    \/ MainSteps \/ FiberSteps \/ JoinLock
    \/ HandlerLock \/ HandlerGil \/ HandlerSteps
    \/ \E e \in Engines : EngineSteps(e) \/ CallbackLeave(e)
    \/ Completes \/ Signal

Spec == Init /\ [][Next]_vars

(* Threads run; a waiter for the GIL makes its holder give it up after the *)
(* switch interval, and both users of cv_mutex sleep outside it: strong    *)
(* fairness for the acquisitions, weak for the rest.                       *)
FairSpec ==
    /\ Spec
    /\ WF_vars(MainSteps) /\ SF_vars(Return) /\ SF_vars(DestroyEnd)
    /\ WF_vars(JoinFiberRuns) /\ SF_vars(JoinFiberEnds) /\ SF_vars(AsyncFiberEnds)
    /\ SF_vars(JoinLock) /\ SF_vars(HandlerLock) /\ SF_vars(HandlerGil) /\ WF_vars(HandlerSteps)
    /\ \A e \in Engines : SF_vars(EngineSteps(e)) /\ WF_vars(CallbackLeave(e))
    /\ WF_vars(Completes)

---------------------------------------------------------------------------
(* The handler thread works on locals of join() (executor_running,         *)
(* cv_mutex, sigset, executor.cpp:221-223): it runs only inside that call, *)
(* and never with the executor already released.  The destructor in turn   *)
(* leaves no thread with a Python thread state (system.cpp:70-73, 121-124).*)
NothingOutlives ==
    /\ handler # "off" => main \in InJoin /\ exec = "set"
    /\ main = "gone" => \A e \in Engines : engine[e] = "exited" /\ refs[e] = 0

(* What a return from join() or from await join_async() tells Python       *)
(* (executor.cpp:302-306, 352-358): the executor is over, unless a second  *)
(* signal ended the wait.  Then no fiber of start() finds m_exec null, and *)
(* none is left to run on an executor that is gone.                        *)
JoinedMeansOver ==
    /\ joined /\ main \in {"py", "back"} /\ count < 2 => Over
    /\ joinFiber = "crashed" => count >= 2
    /\ main = "gone" /\ count < 2 => joinFiber \in {"none", "done"}

(* As promised by the message of the destructor (executor.cpp:170-172): an *)
(* executor dropped too early is reported, its fiber does not run on it.   *)
DropIsReported == joinFiber # "crashed"

(* The same message asks for "`join()` or `await join_async()`": whoever   *)
(* called one of them leaves no fiber behind.  A join_async() that was not *)
(* awaited before a join() does.                                           *)
NoFiberLeft == asyncFiber # "crashed"

(* Every call comes back to Python: join() of a pipeline that ends, that a *)
(* signal stopped or that a second signal gave up on, and the destructor,  *)
(* whose threads need the GIL (executor.cpp:161-163), unless the source    *)
(* never ends.                                                             *)
CallsReturn ==
    \/ main \in InJoin /\ (source = "finite" \/ count >= 2 \/ (source = "stoppable" /\ count = 1))
    \/ main \in {"reset", "kill", "threads", "last", "lastwait"} /\ source # "generator"
    \/ main \in {"construct", "starting", "result", "rwait"}
    ~> main \in {"back", "gone"} \/ joinFiber = "crashed"

(* "Only way to exit this loop is by setting executor_running = false"     *)
(* (executor.cpp:285): join() before start() leaves it by an exception.    *)
LeftByFlag == main = "jhang" => ~running
=============================================================================
