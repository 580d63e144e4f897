--------------------------- MODULE SegmentWatcher ---------------------------
(***************************************************************************)
(* Benchmarking of a segment (include/srf/benchmarking/segment_watcher.hpp,*)
(* tracer.hpp, src/public/benchmarking/tracer.cpp and the Python watchers):*)
(* a client starts and stops traces, a source emits tracers while a trace  *)
(* runs, nodes stamp them, a sink collects them, and aggregation turns     *)
(* them into metrics.                                                      *)
(*                                                                         *)
(* Time is abstract: a hop takes one unit, the minimum resolution.         *)
(***************************************************************************)
EXTENDS Naturals, Sequences, SequencesExt, FiniteSets, FiniteSetsExt

CONSTANTS
    Sink,        \* nodes are 0 .. Sink: source, traced nodes, sink
    CountMax,    \* m_count_max, the tracers of one trace
    Sequenced,   \* ForceTracerSequencing
    SameThread,  \* source and sink are fibers of one thread
    MaxCalls     \* bound: calls of the client

Nodes == 0 .. Sink

VARIABLES
    running, tracing,   \* m_running, m_tracing
    ready,              \* m_latency_cycle_ready
    count, tracers,     \* m_count, m_tracers
    mutex,              \* owner of m_mutex
    sleeping,           \* who waits on m_cond_wake
    barrier,            \* who waits at m_sync_barrier
    source,             \* the tracer source
    emitted,            \* its counter
    channel,            \* per node: tracers between it and the next node
    sunk,               \* the tracer the sink has stamped but not counted yet
    client, then, calls,  \* the client's call, its arguments, and how many were made
    stopped             \* the last stop_trace() has returned, and no trace started since

flags == <<running, tracing, ready, count, tracers>>
sync == <<mutex, sleeping, barrier>>
stream == <<source, emitted, channel, sunk>>
vars == <<flags, sync, stream, client, then, calls, stopped>>

---------------------------------------------------------------------------
(* Tracers *)

Zero == [p \in Nodes \X Nodes |-> 0]

(* A tracer made by the source: recv_hop_id(0), reset(). *)
NewTracer == [recv |-> 0, emit |-> 0, lat |-> Zero, emittedBy |-> [n \in Nodes |-> 0]]

(* LatencyTracer::emit and receive, ThroughputTracer::emit. *)
LatencyEmit(t, n) == [t EXCEPT !.lat[<<n, n>>] = @ + 1]
LatencyReceive(t, n) == [t EXCEPT !.lat[<<t.emit, n>>] = @ + 1]
ThroughputEmit(t, n) == [t EXCEPT !.emittedBy[n] = @ + 1]

(* TracerEnsemble::emit, over both kinds of tracers. *)
Emit(t, n) == [ThroughputEmit(LatencyEmit(t, n), n) EXCEPT !.emit = n]

(* Mutant of Receive: the offset is computed from the previous receiver. *)
ReceiveStale(t, n) == [LatencyReceive(t, t.recv) EXCEPT !.recv = n]

(* TracerEnsemble::receive. *)
Receive(t, n) == [LatencyReceive(t, n) EXCEPT !.recv = n]

(* LatencyTracer::aggregate: the pairs of nodes with a mean above zero. *)
LatencySum(p) == FoldSeq(LAMBDA t, acc : t.lat[p] + acc, 0, tracers)
LatencyPairs == {p \in Nodes \X Nodes : LatencySum(p) > 0}

(* ThroughputTracer::aggregate: per pair, what its first node processed. *)
Processed(n) == FoldSeq(LAMBDA t, acc : t.emittedBy[n] + acc, 0, tracers)
ProcessedTotals == [p \in LatencyPairs |-> Processed(p[1])]

(* json_counter_to_prometheus: a counter per set of labels, incremented    *)
(* by every entry with these labels; json_to_prometheus adds the metadata. *)
Labels(p) == [type |-> IF p[1] = p[2] THEN "operator" ELSE "channel", source |-> p[1], dest |-> p[2]]
CounterFamily ==
    [l \in {Labels(p) : p \in LatencyPairs} |->
        FoldSet(LAMBDA p, n : ProcessedTotals[p] + n, 0, {p \in LatencyPairs : Labels(p) = l})]
Registry == [tracer_count |-> Len(tracers), node_count |-> Sink + 1, processed |-> CounterFamily]

Init ==
    /\ running = FALSE /\ tracing = FALSE /\ ready = TRUE /\ count = 0 /\ tracers = <<>>
    /\ mutex = "free" /\ sleeping = {} /\ barrier = {}
    /\ source = "off" /\ emitted = 0 /\ channel = [n \in Nodes |-> <<>>] /\ sunk = <<>>
    /\ client = "idle" /\ then = [clear |-> FALSE, wait |-> FALSE] /\ calls = 0 /\ stopped = TRUE

---------------------------------------------------------------------------
(* The source: create_rx_tracer_source *)

SourceLoop ==
    /\ source = "loop"
    /\ source' = IF running THEN "lock" ELSE "done"
    /\ emitted' = 0
    /\ UNCHANGED <<flags, sync, channel, sunk, client, then, calls, stopped>>

SourceLock ==
    /\ source \in {"lock", "woken"} /\ mutex = "free"
    /\ mutex' = "source" /\ source' = IF source = "lock" THEN "check" ELSE "awake"
    /\ UNCHANGED <<flags, sleeping, barrier, emitted, channel, sunk, client, then, calls, stopped>>

(* Not tracing: wait for a notification.  The wait is not in a loop. *)
SourceCheck ==
    /\ source = "check"
    /\ IF tracing THEN source' = "awake" /\ UNCHANGED <<mutex, sleeping>>
       ELSE source' = "sleep" /\ mutex' = "free" /\ sleeping' = sleeping \cup {"source"}
    /\ UNCHANGED <<flags, barrier, emitted, channel, sunk, client, then, calls, stopped>>

SourceWoken ==
    /\ source = "sleep" /\ "source" \notin sleeping
    /\ source' = "woken"
    /\ UNCHANGED <<flags, sync, emitted, channel, sunk, client, then, calls, stopped>>

(* Still running?  Then the cycle starts. *)
SourceAwake ==
    /\ source = "awake"
    /\ mutex' = "free"
    /\ IF running THEN source' = "cycle" /\ ready' = TRUE ELSE source' = "done" /\ UNCHANGED ready
    /\ UNCHANGED <<running, tracing, count, tracers, sleeping, barrier, emitted, channel, sunk,
                   client, then, calls, stopped>>

(* The head of the cycle: all tracers counted, or another turn. *)
SourceCycle ==
    /\ source = "cycle"
    /\ IF count < CountMax
       THEN source' = (IF Sequenced THEN "turn" ELSE "emit") /\ UNCHANGED sleeping
       ELSE source' = "arrive" /\ sleeping' = {}
    /\ UNCHANGED <<flags, mutex, barrier, emitted, channel, sunk, client, then, calls, stopped>>

SourceArrives ==
    /\ source = "arrive"
    /\ source' = "barrier" /\ barrier' = barrier \cup {"source"}
    /\ UNCHANGED <<flags, mutex, sleeping, emitted, channel, sunk, client, then, calls, stopped>>

(* Mutant of SourceTurn: the flag is not taken back. *)
SourceTurnKeeps ==
    /\ source = "turn" /\ (ready \/ ~running)
    /\ source' = "emit"
    /\ UNCHANGED <<flags, sync, emitted, channel, sunk, client, then, calls, stopped>>

(* Sequenced: spin until the tracer in flight is done. *)
SourceTurn ==
    /\ source = "turn" /\ (ready \/ ~running)
    /\ ready' = FALSE /\ source' = "emit"
    /\ UNCHANGED <<running, tracing, count, tracers, sync, emitted, channel, sunk, client, then, calls,
                   stopped>>

SourceEmit ==
    /\ source = "emit" /\ source' = "cycle"
    /\ IF emitted < CountMax
       THEN /\ emitted' = emitted + 1
            /\ channel' = [channel EXCEPT ![0] = Append(@, Emit(NewTracer, 0))]
       ELSE UNCHANGED <<emitted, channel>>
    /\ UNCHANGED <<flags, sync, sunk, client, then, calls, stopped>>

(* m_sync_barrier of two: both leave together. *)
Sync ==
    /\ barrier = {"source", "client"}
    /\ barrier' = {}
    /\ source' = "loop" /\ client' = "idle" /\ stopped' = TRUE
    /\ UNCHANGED <<flags, mutex, sleeping, emitted, channel, sunk, then, calls>>

---------------------------------------------------------------------------
(* A traced node, and the sink of create_tracer_sink_lambda *)

Traced(n) ==
    /\ n \in 1 .. Sink - 1 /\ channel[n - 1] # <<>>
    /\ channel' = [channel EXCEPT ![n - 1] = Tail(@),
                                  ![n] = Append(@, Emit(Receive(Head(channel[n - 1]), n), n))]
    /\ UNCHANGED <<flags, sync, source, emitted, sunk, client, then, calls, stopped>>

SinkStamp ==
    /\ sunk = <<>> /\ channel[Sink - 1] # <<>>
    /\ sunk' = <<Emit(Receive(Head(channel[Sink - 1]), Sink), Sink)>>
    /\ channel' = [channel EXCEPT ![Sink - 1] = Tail(@)]
    /\ ready' = TRUE
    /\ UNCHANGED <<running, tracing, count, tracers, sync, source, emitted, client, then, calls, stopped>>

SinkCount ==
    /\ sunk # <<>>
    /\ tracers' = Append(tracers, sunk[1]) /\ count' = count + 1 /\ sunk' = <<>>
    /\ UNCHANGED <<running, tracing, ready, sync, source, emitted, channel, client, then, calls, stopped>>

---------------------------------------------------------------------------
(* The client *)

Called(p) == client = "idle" /\ calls < MaxCalls /\ calls' = calls + 1 /\ client' = p

(* run(): the first call starts the executor, and with it the source. *)
Run ==
    /\ mutex = "free" /\ running' = TRUE
    /\ source' = IF running \/ source # "off" THEN source ELSE "loop"

(* What reset() forgets under the mutex. *)
Forget == count' = 0 /\ tracers' = <<>>

Reset ==
    /\ mutex = "free" /\ Called("idle") /\ Forget
    /\ UNCHANGED <<running, tracing, ready, sync, stream, then, stopped>>

(* start_trace(clear), also as the first half of trace_until_notified():   *)
(* run(), the look at m_tracing, reset() under the mutex, the flag under   *)
(* the mutex, and the notification.                                        *)
StartTrace(clear, wait) ==
    /\ Called("arm") /\ Run
    /\ then' = [clear |-> clear, wait |-> wait]
    /\ UNCHANGED <<tracing, ready, count, tracers, sync, emitted, channel, sunk, stopped>>

Started == client' = IF then.wait THEN "lock" ELSE "idle"

Arm ==
    /\ client = "arm"
    /\ IF tracing THEN Started ELSE client' = IF then.clear THEN "clear" ELSE "set"
    /\ UNCHANGED <<flags, sync, stream, then, calls, stopped>>

ArmClears ==
    /\ client = "clear" /\ mutex = "free"
    /\ Forget /\ client' = "set"
    /\ UNCHANGED <<running, tracing, ready, sync, stream, then, calls, stopped>>

ArmSets ==
    /\ client = "set" /\ mutex = "free"
    /\ tracing' = TRUE /\ stopped' = FALSE /\ client' = "notify"
    /\ UNCHANGED <<running, ready, count, tracers, sync, stream, then, calls>>

ArmNotifies ==
    /\ client = "notify"
    /\ sleeping' = {} /\ Started
    /\ UNCHANGED <<flags, mutex, barrier, stream, then, calls, stopped>>

(* on_trace_complete(): wait for one notification of m_cond_wake. *)
Wait ==
    /\ client = "lock" /\ mutex = "free"
    /\ client' = "sleep" /\ sleeping' = sleeping \cup {"client"}
    /\ UNCHANGED <<flags, mutex, barrier, stream, then, calls, stopped>>

(* stop_trace(), called by the client or by the completion handler: the    *)
(* exchange of m_tracing, the notification, the barrier.                   *)
StopTrace ==
    /\ \/ client = "sleep" /\ "client" \notin sleeping /\ mutex = "free" /\ UNCHANGED calls
       \/ client = "idle" /\ calls < MaxCalls /\ calls' = calls + 1
    /\ tracing' = FALSE /\ client' = IF tracing THEN "stop" ELSE "idle"
    /\ UNCHANGED <<running, ready, count, tracers, sync, stream, then, stopped>>

StopNotifies ==
    /\ client = "stop"
    /\ sleeping' = {} /\ client' = "arrive"
    /\ UNCHANGED <<flags, mutex, barrier, stream, then, calls, stopped>>

(* Mutant of StopWaits: the barrier is not waited for. *)
StopWaitsNot ==
    /\ client = "arrive"
    /\ client' = "idle" /\ stopped' = TRUE
    /\ UNCHANGED <<flags, sync, stream, then, calls>>

StopWaits ==
    /\ client = "arrive"
    /\ client' = "stopping" /\ barrier' = barrier \cup {"client"}
    /\ UNCHANGED <<flags, mutex, sleeping, stream, then, calls, stopped>>

(* shutdown() after its stop_trace(): m_running is cleared and everyone    *)
(* notified without the mutex, then the executor is joined.                *)
ShutdownWatcher ==
    /\ client = "idle" /\ running /\ ~tracing
    /\ running' = FALSE /\ sleeping' = {} /\ client' = "joining"
    /\ UNCHANGED <<tracing, ready, count, tracers, mutex, barrier, stream, then, calls, stopped>>

ShutdownSegment ==
    /\ client = "joining" /\ source = "done" /\ sunk = <<>> /\ \A n \in Nodes : channel[n] = <<>>
    /\ client' = "over"
    /\ UNCHANGED <<flags, sync, stream, then, calls, stopped>>

(* Fibers of one thread: the sink's two writes are not separated. *)
StreamSteps ==
    \/ SinkCount
    \/ (SameThread => sunk = <<>>) /\
          (\/ SourceLoop \/ SourceLock \/ SourceCheck \/ SourceWoken \/ SourceAwake \/ SourceCycle
           \/ SourceArrives \/ SourceTurn \/ SourceEmit
           \/ (\E n \in Nodes : Traced(n)) \/ SinkStamp)
ClientSteps ==
    \/ Arm \/ ArmClears \/ ArmSets \/ ArmNotifies \/ Wait
    \/ StopTrace \/ StopNotifies \/ StopWaits \/ ShutdownWatcher \/ ShutdownSegment

Next ==
    \/ StreamSteps \/ Sync \/ ClientSteps \/ Reset
    \/ \E c, w \in BOOLEAN : StartTrace(c, w)

Spec == Init /\ [][Next]_vars
FairSpec == Spec /\ WF_vars(StreamSteps) /\ WF_vars(Sync) /\ WF_vars(ClientSteps)

---------------------------------------------------------------------------
InFlight == {n \in Nodes : channel[n] # <<>>}
Path == {<<n, n>> : n \in Nodes} \cup {<<n, n + 1>> : n \in 0 .. Sink - 1}

(* "Wait on any in-flight tracers before returning" (segment_watcher.hpp:  *)
(* 84-86): once stop_trace() has returned no tracer of the trace is        *)
(* travelling, and a trace that started from nothing has its CountMax tracers.  *)
StopCollects == stopped => InFlight = {} /\ sunk = <<>> /\ (tracers # <<>> => Len(tracers) >= CountMax)

(* Sequencing (segment_watcher.hpp:242-252): one tracer at a time between  *)
(* the source and the sink.                                                *)
OneInFlight ==
    Sequenced /\ running => Len(FlattenSeq([i \in 1 .. Sink + 1 |-> channel[i - 1]])) <= 1

(* The metrics name exactly the hops a tracer takes, each operator and     *)
(* each channel of the path once, and count the tracers of the trace; the  *)
(* Prometheus registry says the same (tracer.cpp:40-96, 131-189,           *)
(* util.cpp:69-137; test_benchmarking.cpp:75-78).                          *)
MetricsFollowPath ==
    tracers # <<>> =>
        /\ LatencyPairs = Path
        /\ \A p \in Path : /\ LatencySum(p) = Len(tracers)
                          /\ Registry.processed[Labels(p)] = Registry.tracer_count

(* trace_until_notified() returns (its call in test_benchmarking.cpp:57    *)
(* relies on it).                                                          *)
TraceReturns == client \in {"lock", "sleep", "stop", "arrive", "stopping"} ~> client = "idle"

(* shutdown() "Stop the segment watcher and its segment" returns.          *)
ShutdownReturns == client = "joining" ~> client = "over"

(* A trace with everything emitted completes: the source leaves its cycle. *)
CycleEnds == source = "turn" /\ emitted = CountMax ~> source # "turn"
=============================================================================
