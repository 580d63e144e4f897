------------------------------ MODULE MCPython ------------------------------
(***************************************************************************)
(* What Python sees of the framework, in three independent parts: a stream *)
(* of Python operators, the executor, and the holders of Python objects.   *)
(* A behaviour is one of the part named by "live", the others rest in an   *)
(* initial state.                                                          *)
(***************************************************************************)
EXTENDS PyStream

CONSTANTS
    Threads, MaxCalls, MaxSignals, Careless,  \* of the executor
    Holders, Wrappers, HolderThreads            \* of the holders

VARIABLES
    live, wrapped, object, locals, refs, holderGil, failed, racy,
    e_gil, e_main, e_calls, e_joined, e_exec, e_service, e_source, e_engine, e_refs,
    e_joinFiber, e_asyncFiber, e_future, e_handler, e_count, e_running, e_cv, e_ready,
    e_pending, e_signals

PE == INSTANCE PyExecutor WITH Engines <- Threads,
    gil <- e_gil, main <- e_main, calls <- e_calls, joined <- e_joined, exec <- e_exec,
    service <- e_service, source <- e_source, engine <- e_engine, refs <- e_refs,
    joinFiber <- e_joinFiber, asyncFiber <- e_asyncFiber, future <- e_future,
    handler <- e_handler, count <- e_count, running <- e_running, cv <- e_cv,
    ready <- e_ready, pending <- e_pending, signals <- e_signals

PH == INSTANCE PyHolder WITH Threads <- HolderThreads, gil <- holderGil

holderVars == <<wrapped, object, locals, refs, holderGil, failed, racy>>
execVars ==
    <<e_gil, e_main, e_calls, e_joined, e_exec, e_service, e_source, e_engine, e_refs,
    e_joinFiber, e_asyncFiber, e_future, e_handler, e_count, e_running, e_cv, e_ready,
    e_pending, e_signals>>
allVars == <<live, vars, execVars, holderVars>>

(* Small Python streams: all pairs of operators, and the special cases of  *)
(* source, edge and failure.                                               *)
Ops == {"map", "filter", "flatten", "pairwise", "to_list", "finally", "observer"}

Plain == [kind |-> "iterable", pes |-> {"pe1"}, items |-> << <<1, 2>>, <<3>> >>, chain |-> <<"map">>,
          from |-> "py", to |-> "py", bad |-> -5, final |-> <<9>>, stops |-> FALSE]

MCSetups ==
    {[Plain EXCEPT !.chain = <<a, b>>] : a, b \in Ops}
    \cup {[Plain EXCEPT !.chain = <<"observer", a, "pairwise">>, !.stops = TRUE] : a \in Ops}
    \cup {[Plain EXCEPT !.pes = {"pe1", "pe2"}, !.kind = k, !.items = << <<1>>, <<2>> >>, !.chain = <<"to_list">>]
          : k \in {"iterator", "iterable"}}
    \cup {[Plain EXCEPT !.from = a, !.to = b, !.chain = <<"flatten">>] :
          a \in {"num", "cls", "raw"}, b \in {"num", "cls2", "raw"}}
    \cup {[Plain EXCEPT !.to = "num"], [Plain EXCEPT !.chain = <<"map", "to_list">>, !.bad = 3],
          [Plain EXCEPT !.items = << <<1>>, <<0>>, <<2>> >>]}
---------------------------------------------------------------------------
PythonInit ==
    /\ live \in {"stream", "executor", "holder"}
    /\ Init /\ (live # "stream" => s = [Plain EXCEPT !.chain = <<"map", "map">>])
    /\ PH!Init
    /\ PE!Init /\ (live # "executor" => e_source = "finite")

Stream(A) == live = "stream" /\ A /\ UNCHANGED <<live, execVars, holderVars>>
Executor(A) == live = "executor" /\ A /\ UNCHANGED <<live, vars, holderVars>>

PythonNext ==
    \/ Stream(Next)
    \/ Executor(PE!Next)
    \/ live = "holder" /\ PH!Next /\ UNCHANGED <<live, vars, execVars>>

(* The fairness of PyStream and of PyExecutor, for the part that is live. *)
PythonSpec ==
    /\ PythonInit /\ [][PythonNext]_allVars
    /\ WF_allVars(Stream(~terminated /\ Running))
    /\ WF_allVars(Executor(PE!MainSteps)) /\ SF_allVars(Executor(PE!Return))
    /\ SF_allVars(Executor(PE!DestroyEnd))
    /\ WF_allVars(Executor(PE!JoinFiberRuns)) /\ SF_allVars(Executor(PE!JoinFiberEnds))
    /\ SF_allVars(Executor(PE!AsyncFiberEnds))
    /\ SF_allVars(Executor(PE!JoinLock)) /\ SF_allVars(Executor(PE!HandlerLock))
    /\ SF_allVars(Executor(PE!HandlerGil)) /\ WF_allVars(Executor(PE!HandlerSteps))
    /\ \A t \in Threads :
          SF_allVars(Executor(PE!EngineSteps(t))) /\ WF_allVars(Executor(PE!CallbackLeave(t)))
    /\ WF_allVars(Executor(PE!Completes))
-----------------------------------------------------------------------------
(* The operators of a stream compose in order, the GIL is free while a       *)
(* source or a writer blocks, an iterator is consumed once, a PyObjectHolder *)
(* counts references with the GIL and loses none, and what crosses between   *)
(* Python and json comes back as it went.                                    *)
StreamsSound ==
    /\ OperatorsCompose /\ GilFreeWhileBlocked /\ IteratorOnce
    /\ PH!CountedUnderGil /\ (live = "holder" /\ refs = 0 => PH!JsonKeeps)

(* The signal handler stays inside Executor::join and the destructor leaves  *)
(* no thread with a Python thread state; join and await join_async() return  *)
(* only when the executor is over.                                           *)
ExecutorSound == PE!NothingOutlives /\ PE!JoinedMeansOver

(* A stream ends, with on_completed at the sink when nothing failed; and     *)
(* every call of Executor comes back to Python.                              *)
PythonEnds ==
    /\ live = "stream" => StreamEnds
    /\ PE!CallsReturn
=============================================================================
