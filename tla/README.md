# Formal models of SRF

This directory holds TLA+ models of SRF, the Streaming Reactive Framework: a C++
library in which pipelines of segments of nodes are run by fibers and threads,
connected by channels, and controlled by an executor that starts, stops, kills
and joins them; with the memory, RPC, transport and Python layers around it. The
models are translated from the sources, not from the documentation; where a
comment promises something the code does not do, TLC shows the disagreement.

    tlc -workers 2 -config MCRunner.cfg MCRunner     # model-check one run
    tlapm SegmentProofs.tla                          # check the proofs of a module

`PROJECT.json` lists every run with its configuration and properties, the source
lines every definition stands for, the mutants that show a property can fail, the
hazards of the code, the findings and the theorems.

## 1. The system

| Part | What is hard about it |
|---|---|
| Executor, manager, controller, pipeline instance | messages overtaken by a join, a failed segment met by an update, an initializer that throws |
| Builder, definitions, ports | a refused call in the middle of an assembly; ids of 16 bits; conversions chosen for an edge |
| Segment instance and its nodes | a node fails while others are being started; a kill against full channels; who closes a channel |
| Runner, launcher, Context | who is last; lost failure status; fibers that share a thread and find their context through it |
| Service | hooks run outside the mutex; completion callbacks call back in |
| Edges, operators, manifolds | last holder against new holder; cascaded completion; fibers that share a pick list |
| Channels, thread pool, fiber queue, barrier | lost wake-ups, deadlines, an enqueue racing the shutdown, overlapping cycles |
| Fiber scheduler, system threads | a wake-up from another thread while the scheduler goes to sleep; initializers registered while threads start |
| Topology, partitions, cpu sets, engine factories | integer division, ties, wrap-around, exhaustion |
| Arena, buffers, blobs, codable objects, blocks | blocks that move between arenas under several locks; references by address and by index |
| nvrpc (gRPC server and clients), UCX | actions decided under a mutex and executed after it; a call that dies in every state; contexts that serve one call after another |
| Python bindings | the interpreter lock against blocking channels; signals against join and destructor |
| Benchmarking | traces started and stopped while tracers travel; counters of several threads |

The parts interact top down. The executor's client calls the manager, the manager
sends messages to the controller, the controller creates segment instances from
definitions, a segment launches one runner per node through the engine factories, a
runner puts one task per instance on a fiber queue or a thread, and the tasks
exchange elements through edges, channels and manifolds. Completion travels upwards:
closed channels end the nodes, the last instance calls the runner's completion
callback, and a failure makes that callback kill the segment.

## 2. Modules

What the code does under a mutex, or between two suspension points of a fiber on
one thread, is one action; every other access to shared state is an action of its
own. A failed `CHECK` ends the process and is recorded in a variable, so that "no
CHECK fails" is an invariant. Data is cut down to what the properties tell apart.
A definition whose comment begins "Mutant of X" is a plausible bug used to test a
property and is not part of a specification.

| Module | Models | Actors |
|---|---|---|
| `Runner` | `runnable::Runner`, `Runnable`, `Context` | owner, one task per instance, stop/kill callers |
| `Launch` | `LaunchControl`, `Launcher`, engines, fiber and thread contexts | launching threads, instances |
| `Service` | `internal::Service` | clients, callback workers |
| `TaskPool` | what a pool of workers promises | |
| `ThreadPool` | `system::ThreadPool`; implements `TaskPool` | callers, pool threads, destructor |
| `FiberTaskQueue` | `core::FiberTaskQueue`, `system::FiberTaskQueue` | callers, the queue's thread, detached fibers |
| `FiberScheduler` | `FiberPriorityScheduler` | the scheduler's thread, other threads that wake fibers |
| `RecentChannel` | `channel::RecentChannel` | readers, writer, closer |
| `ThreadBarrier` | `srf::thread_barrier` | threads |
| `SystemThreads` | `System`, `FiberManager`, `FiberPool`, thread initializers and finalizers | threads, registering clients |
| `Placement` | `Bitmap`, `Topology`, `Partitions`, `SystemResources`, `ResourcePartitions` | one thread; all machines and options of a small size |
| `EngineFactories` | `generate_engine_factory_cpu_sets` and the four engine factories | launchers |
| `Assembly` | `Pipeline`, `SegmentDefinition`, `Builder`, `EdgeBuilder`, `register_pipeline` | one thread; every sequence of calls |
| `Segment` | `segment::Instance` with Rx source, nodes and sink over buffered channels | start, stop, kill, contexts of every node |
| `Edges` | `SinkChannel`, `SourceChannel`, `Operator`, muxer, broadcast, router, conditional | writers, releasers, edge makers |
| `Manifold` | `CompositeManifold`, egresses, `LoadBalancer` | controller, upstream and downstream segments, balancer fibers |
| `Pipeline` | `Executor`, `Manager`, `Controller`, `pipeline::Instance` | updating and joining client, stopping client, controller, segments |
| `Arena` | `arena_resource`, `detail::arena`, `global_arena` | threads that allocate, free, exit |
| `Buffers`, `Codable`, `BlockManager` | `buffer`, `blob`; `EncodedObject` with the codable protocols; `block_manager` | one program, every order of calls |
| `ClientStreaming`, `LifeCycleStreaming` | four versions of the nvrpc streaming client; the streaming server context | user thread, engine thread; application worker |
| `RpcStream` | the two joined by a gRPC call | and the network |
| `RpcServer` | unary, batching and bidirectional contexts, `ClientUnary`; `Server`, `Executor` | engines, callers, shutdown |
| `ClientSingle` | `ClientSingleUpMultipleDown`, `ClientSUMD`, second `ClientUnary` | engine, owner, gRPC |
| `UcxTransport` | UCX `Context`, `Worker`, `Endpoint`, `TaggedReceiveManager` | engine fiber, sender, owner |
| `PyStream` | Python sources, operators, sinks and the conversions of their edges | source engines, node, sink, interpreter lock |
| `PyHolder` | `PyObjectHolder`, `PyObjectWrapper`, json conversions | threads with and without the interpreter lock |
| `PyExecutor` | Python `Executor`, its futures and signal handler | main thread, fibers, engine threads, signals |
| `SegmentWatcher`, `TraceStats` | tracers and watchers; trace statistics | client, source, nodes, sink; threads |
| `RunnerProofs`, `ThreadingProofs`, `ServiceProofs`, `RecentChannelProofs`, `SegmentProofs`, `ArenaProofs`, `RpcServerProofs` | theorems | |

`Segment` composes what `Runner`, `Service`, the barrier and the channels do one by one:
it keeps the steps in which nodes touch each other and sees a runner through its
callback. `Pipeline` sees a segment through its service only, `Manifold` joins the
ports of several segments, and `RpcStream` composes a client and a server. The
external parts (`boost::fibers::buffered_channel`, condition variables, RxCpp, gRPC,
UCX, hwloc, NVML, CPython) are modelled from how the code uses them and are marked
external in the map.

The `MC` modules put components beside each other: a behaviour is one of the
component that the variable `live` names, chosen in the initial state, and the
others rest in an initial state. They never share a variable, so each component is
explored as if alone, with fairness that asks nothing of those that rest.

Where a step was cut. `PyStream` takes an element over an edge in three steps: the user's
callback, the conversion with the interpreter lock, and the write without it. `PyExecutor`
lets a fiber of the main thread run wherever that thread waits with a fiber primitive
(`future.wait`, the join's sleep, the destructor), and when it is gone. `SegmentWatcher`
splits `start_trace` and `stop_trace` at the barrier, the condition variable and every
flag that the source reads. `TraceStats` walks the statistics object by object, and for
reset and aggregation counter by counter, while nodes load and store counters.

Correspondence of state. Variables carry the names of the members they stand for
(`m_state`, `m_channel`, `current_`); `pc`, `caller`, `joiner` and the like say at
which statement an actor is; variables commented "history" are not in the code
and only serve properties.

## 3. Runs

| Run | Shows | Bounds |
|---|---|---|
| `runner` | the completion callback fires once and last, join waits for it, a reported failure is real, a stored exception ends every instance; barriers, locks and contexts of instances that share threads | 3 instances: one last, one racing it, one behind; 2 launching threads |
| `threading` | no barrier returns early; `ThreadPool` implements `TaskPool`; queued tasks run and fibers are gone before their thread ends; no reader sleeps on a channel with elements; a service Completes after its join and for good; every wait ends | 3 threads and 3 cycles (the cycle bit repeats); 4 tasks on 2 threads with room for 2; 3 tasks with room for 1; 3 readers, deque of 2, 3 writes (an overrun); 2 clients and 2 workers |
| `segment` | no channel closed under a writer; nothing lost without a kill; a stop ends the segment, and a kill does, unless a writer is left behind on a full channel | source, node with 2 contexts, sink; channels of 1, 2 items |
| `flow` | held channels are open and every element arrives; a returned join left nothing running and reports failures, and a stop or a kill that overlaps it aborts, if at all, after the last segment was joined; an element passes a manifold once; refusals leave the assembly consistent; everything ends | broadcast and router between 2 sources and 2 sinks, wired before they run; 2 segments and one update, as the Executor sends it, with stop and kill before or during the join; 2 downstream segments attached at once or in turn; up to 4 calls of the builder |
| `system` | partitions share no cpu and serve every gpu; each failure has a reason the user can see; cpu sets as requested; each thread initialized once; no wake-up lost; a stopped trace has collected its tracers; statistics lie between what was counted before and after the pass that reads them | machines of up to 2 numa nodes and 2 or 3 gpus; 2 engine groups on 6 cpus; 3 fibers; traces of 2 tracers, 4 calls; 3 statistics objects on 2 names, 3 events, 2 calls |
| `rpc_stream` | requests and responses in order, OK means all of them; one operation of a kind at a time, completion last, no DCHECK fails; every stream ends | 2 requests; 6 pairings of client version and application |
| `rpc_server` | responses in order and of this call only; a context is reset when nothing of the last call is left; calls of the kinds that may die end, and shutdown does; single-request clients and UCX objects go in order | 2 engines, 2 callers, 2 calls, 2 requests; 3 responses; 2 UCX messages (one handled, one on its way at stop), a back-off that ends at 2^6 instead of 2^20 |
| `memory` | `ArenaSound`: blocks are disjoint, free lists coalesced, an exiting thread returns its memory; `Conserved`: no byte is lost; encodings refer to live memory of the right size and decode to what was encoded; an address finds its block | 2 threads, sizes that split, grow, fragment and exhaust an arena of 8 units, upstream memory that comes before, behind or apart from what is there; 2 buffers, blobs, encodings; 9 addresses |
| `python` | operators compose in order, nobody waits for a channel with the interpreter lock, reference counts are exact; join tells the truth; json comes back as it went; calls return | all pairs of operators; 3 holders; 4 calls, 2 signals |

Three runs show a disagreement between the code and a comment, quoted under
"findings": `runner_status_race`, where two instances update `m_status` by load and
store and a failure is overwritten; `edges_fan_in`, where a local variable shadows
`m_ingress`, so that an operator completes at the first release of several; and
`gpu_alignment`, where the best score is never stored, so that a partition gets the
last gpu rather than the one nearest to it.

### Promises the code does not keep

The modules also state further promises of comments, messages or tests that TLC
refutes. They are kept as definitions for whoever changes that code: check the
named property with a configuration that gives the module the constants in the
second column (and otherwise those of the module's run).

| Property (module) | Instance | What the code does |
|---|---|---|
| `CallbackTriggered` (`Runner`) | 2 instances | an exception escaping `main` skips the decrement; the callback never fires (`runner.cpp:137`, promised by `runner.hpp:100`) |
| `UnusedIsHarmless` (`Launch`) | 2 launching threads | an unused launcher is destroyed with engines that were never launched and aborts (`thread_engine.cpp:35`, against `launcher.cpp:41`) |
| `ContextAccepted` (`Launch`) | a request with a context wrapper | a wrapped context is refused by the runnable it was made for (`launch_control.hpp:108`) |
| `OnlyAdvances` (`Service`) | 2 clients, 1 worker | `service_await_join` sets a Stopping or Killing service back to Awaiting (`service.cpp:86`, against `:106`) |
| `RefusedTaskThrows` (`FiberTaskQueue`) | room for 1 | a push into a queue closed after the test is dropped without an error (`task_queue.hpp:82`, against `:62`) |
| `TimeoutAfterDeadline` (`RecentChannel`) | 2 readers | `await_read_until` reports a timeout before the deadline (`recent_channel.hpp:92`, against `channel.hpp:52`) |
| `KillDuringStartEnds`, `KillAlwaysEnds` (`Segment`) | one context per node; `Room` 2, 1 | a failure during the start misses the runner not stored yet (`instance.cpp:144`); a kill does not release a writer on a full channel whose reader has left (`instance.cpp:191`); promised by `instance.cpp:200` |
| `OpenWhileHeld` (`Edges`) | 2 sources, 1 sink, `Dynamic` | a new edge to a channel that a deleter is about to close (`sink_channel.hpp:153`, against `channel.hpp:56`) |
| `StopDisablesPersistence` (`Edges`) | 1 persistent sink | stopping the runner does not disable persistence (`rx_sink.hpp:112`, against `sink_channel.hpp:53`) |
| `ChecksHold` (`Pipeline`) | 2 updates; or `Concurrent` | a second update, which the Executor never sends, aborts on a segment that failed (`pipeline/instance.cpp:63`); a stop overlapping the end of a join uses a reset channel (`manager.cpp:120`) |
| `JoinedMeansEnded` (`Pipeline`) | 2 updates | a join that passes between the two leaves the segments of the second one running |
| `JoinAlwaysReturns` (`Pipeline`) | `MayThrow` | an initializer that throws leaves the join waiting (`controller.cpp:119`, against `manager.cpp:81`) |
| `EachOnce` (`Manifold`) | 2 upstream segments | the first upstream to end completes the muxer for both, and elements of the other are lost |
| `ManifoldChecks` (`Manifold`) | downstream assigned after upstream | an element that arrives before the first output is attached aborts |
| `AttachedEnds`, `StartedBeforeOutputs` (`Manifold`) | downstream segments attached in turn | one attached after the balancer ended is never completed; outputs are attached before the upstream segments start (against `interface.hpp:34`) |
| `SilentIsLossless` (`Assembly`) | types with a float | an integer goes into a float of the same width without the narrowing warning (`edge_builder.hpp:46`) |
| `ObjectUnavailable` (`Assembly`) | 4 calls | an object used after the pipeline has started fails a CHECK instead of throwing (`object.hpp:187`) |
| `SingleUse`, `ReusableNeverFails` (`EngineFactories`) | 1 group on 4 cpus | `m_offset` of the single-use fiber factory never advances (`engine_factory.cpp:131`), the thread factory starts over after it has thrown (`:218`); more engines than cpus abort a reusable one (`thread_engines.cpp:34`) |
| `FallsBackToShared` (`Placement`) | fewer cores than gpus | the fallback compares logical cpus, the division counts cores (`partitions.cpp:118`, `:175`) |
| `RunsWithoutDriver` (`Placement`) | no driver | NVML is shut down although it was never initialized (`device_info.cpp:74`, against `:47`) |
| `FatalIsReal`, `EveryExitReturns` (`Arena`) | 2 threads | "Maximum pool size exceeded" with enough free memory in small blocks; a thread with a reused id has no cleaner (`arena.hpp:655`) |
| `MemoryOwned` (`Buffers`) | `AssignOver` | move assignment over a buffer that holds memory leaks it (`buffer.hpp:62`) |
| `EmptyEncodes`, `EveryObjectDecodes` (`Codable`) | a value of no bytes; a message without memory | a message of zero bytes fails a CHECK (`block.hpp:68`); an object whose encoding threw stays in the index |
| `OverlapIsCaught` (`BlockManager`) | `Overlapping` | only some overlaps are refused (`block_manager.hpp:56`) |
| `ChecksHold`, `InOrder` (`RpcStream`) | an application that finishes the stream on the second request (`early`); one whose answers come from a worker that `RequestsFinished` does not wait for (`late`) | a DCHECK fails; answers are lost or out of order |
| `FailedWriteResets` (`RpcStream`) | 1 request, a broken connection, fair events | a failed write leaves the context as it is (comment at `StateWriteDone`) |
| `PromiseSetOnce`, `FutureIsSet` (`RpcStream`) | first version of the client | the promise is set twice; or never, when a write fails |
| `InOrder`, `ResetWhenOver`, `ServesAgain` (`RpcServer`) | batching with an asynchronous `ExecuteRPC`; bidirectional calls that die | the first response of a batch is written twice; a context is reset while something of the old call is left, or never again |
| `ShutdownEnds`, `NoPostAfterShutdown` (`RpcServer`) | `Prompt`; an idle unary server | an engine that starts after Shutdown sets its flag again and polls for ever; one that tested the flag before posts on a queue that is shut down |
| `StatusArrives`, `SingleSound` (`ClientSingle`) | a call that does not start; `Waits` of `sumd` less than `"join"` | the future is never set (`client_single_up_multiple_down.h:111`); the owner destroys a client whose handler has still to write `m_NextState` (`:157`) |
| `TransportEnds`, `TransportSound`, `IdleSleeps` (`UcxTransport`) | `Eager`, `SameThread` or `Joins` FALSE | `~Endpoint` spins without progress on the other worker (`endpoint.cpp:71`); a probe and a progress from two threads, and a manager that was not joined, lose a message or the worker (`receive_manager.cpp:87`); after a message the back-off is 0 and stays 0 when it is doubled, so that an idle engine never sleeps (`:110`; already with the constants of the run) |
| `RefsUnderGil`, `ErrorsReported` (`PyStream`) | `finally` whose function returns None; `finally` behind an operator that throws | the None is released without the interpreter lock (`operators.cpp:124`); the error terminates the process |
| `DropIsReported`, `LeftByFlag` (`PyExecutor`) | `Careless` | a dropped executor's fiber runs on it (`executor.cpp:170`); join before start leaves the loop by an exception (`:285`) |
| `NoFiberLeft` (`PyExecutor`) | `Careless` FALSE, 4 calls | `join_async()`, whose result is not awaited, then `join()`: the executor may be dropped, and the fiber of the first runs on it (`executor.cpp:170` asks for one or the other) |
| `MovedIsReported` (`PyHolder`) | 2 holders | a holder that was moved from is dereferenced as null (`utils.cpp:216`) |
| `TraceReturns`, `ShutdownReturns`, `CycleEnds` (`SegmentWatcher`) | `Sequenced` FALSE; TRUE | a notification before the wait is lost; shutdown waits for a source that waits for it; the source never leaves a sequenced cycle |

Why the bounds are enough. The components are symmetric in their actors: two suffice
for a race, a third for a bystander that the race must not disturb. Channels of
one or two elements are full, empty and in between within a run. Machines,
topologies and pairs of operators are enumerated rather than sampled. Every action
of every component is taken in some run, and each property is shown to fail for
at least one plausible bug. Deadlock checking is off because every model has a
proper end (destroyed, joined, all writes done); that the parts get there is stated
as a liveness property instead.

Fairness. Weak fairness is assumed of each started task, worker thread, fiber,
controller loop, progress engine and joining thread: the operating system and the
fiber scheduler run what is ready, and gRPC and UCX complete what was posted. No
fairness is assumed of clients (they need not call anything), of user code that may
run on until told to stop, of failures, signals, spurious wake-ups or deadlines. A
source or a user's `main` is assumed to return once it has been told to stop or
killed, which is the contract of `Context` and `Runnable`. In `Manifold` the inputs
are finite and the whole goes on while anything can. Strong fairness is assumed in
two places. In `PyExecutor`, of whoever waits for the interpreter lock or for a
mutex: CPython forces a thread to hand the lock over, and no mutex there is
retaken without a wait in between. In `EventFairSpec` of `RpcStream`, of
the queue of events, which only strengthens the refutation of `FailedWriteResets`.

## 4. Proofs

`RunnerProofs`, for every number of instances (`Size` a positive natural):
`TypeCorrect`, `CompletionIsLast`, `JoinIsLast`, `ReportedFailureIsReal` and
`ChecksHold`. None of them is inductive as it stands: that the callback comes last
depends on the counter telling the truth. The invariant `IInv` says that
`m_remaining_instances` is the cardinality of the set of tasks that have not
decremented it, that the statement a task is at determines the state of its
instance, that exactly one task owes the callback once the counter is zero, and
that a FALSE in `m_status`, or read from it, has a stored exception behind it.

The second part is about launches, `InstancesAreSynchronised`, for every set of requests
whose counts are naturals (`RequestsAssumption`: they are unsigned in `LaunchOptions`).
`LaunchInv` adds to the property that the contexts are numbered from 0 and share the
resources of the first, whose barrier is for all of them (`Contexts`), that an instance
past `Context::init` has its own context in fiber-local storage (`Instances`), that no
mutex but the first is ever used (`Locks`), and that a runner lets go of its instances
only when all are done (`Released`). That nobody leaves the barrier early then follows
by counting: a set of ranks as large as the launch is all of them.

`ThreadingProofs` is about the composition that the run `threading` checks, with its
constants left open (`ThreadingAssumption`, `BarrierAssumption`):
- `BarriersTogether` and `BarrierTypes`, for every finite nonempty set of threads and any
  number of cycles. The invariant `Inv` puts each thread in one of three places relative
  to the cycle in progress (inside it, not yet come, still leaving the last one,
  recognised by the cycle bit) and equates `current_` with the number of threads that
  have not come.
- `QueuesAreSound`, for any tasks, readers, number of writes and size of the deque.
  `QueueInv` equates `m_detached` with the number of tasks counted by `enqueue` whose fiber
  has not ended, and says that the thread stops popping only at a closed, empty channel.
  `ChannelInv` (`RecentChannelProofs`) adds to the property that what was read last is
  older than all the deque holds, and that waiting and notified readers are disjoint
  finite sets; that `notify_one` per element is enough then follows by counting.
- `ServicesAreSound` and `ServicesStayCompleted` carry `ServiceProofs` over.
A step of the composition is a step of one component and leaves the others' variables
alone (`OneComponent`), so `ThreadingInv` is the conjunction of the invariants.

`ServiceProofs`, for any clients and workers, disjoint, with an owner among the
clients: `ServiceTypes`, `ServiceIsSound` (Completed means joined, the destructor finds
no worker that could still call back, a kill is delivered) and `CompletedStays`, an
action property. The copy of the state that `call_in_destructor` acts on may be stale,
so `IInv` says what every call has established at each of its statements (`Places`),
that one caller starts the service (`StartsOnce`), that a join comes after the start
and leaves nothing running (`JoinsLast`), that the destructor's copy stays true when it
is one that the destructor relies on (`CopyHolds`), and that a kill is delivered.

`ThreadPool`, at its end, for any tasks, a nonempty set of threads and any room in the
channel: `PoolRefinesTaskPool`, every step of `ThreadPool` is a step of `TaskPool` or
leaves its variables alone. The invariant keeps each accepted task in exactly one
place: once in the channel, with one thread, or run.

`SegmentProofs`, for chains of any length of at least two, any positive number of
contexts per node and any room in the channels: `ChannelsCloseLast` and
`SegmentLosesNothing`. The first rests on the control invariant `CInv`: how far a node
is launched, that a context beyond a barrier has all its siblings at it, that
rank 0 acts for all between the barriers of `RxRunnable::shutdown`, and that a closed
channel was closed by it. The second adds `FInv`: an element is in at most one place
(channel, hand of a context, delivered), only emitted elements are anywhere, and as
long as nothing was killed or has failed each emitted element is in some place; a
context that has left its loop left an empty closed channel behind.

`ArenaProofs`, for any threads and requests, every alignment, superblock size, number of
free blocks and size of the pool (`ArenaAssumption`): `ArenaIsSound`, that no byte is in
two places, that free lists are coalesced, and that a thread with a cleaner leaves its
arena empty. A block is seen as its set of bytes. `FirstFit` and `Coalesce` say what
`first_fit` and `coalesce_block` do to a list: every byte of the result was a byte of
what went in, and a list without neighbours that touch stays one. `Moved`, `Returned`,
`Taken` and `GlobalStep` lift that to moves between places: a step that covers no
byte it did not take keeps the items packed. Upstream memory may lie anywhere that upstream
has not given out yet (`Expanded` chooses among `Addresses`), so the invariant also says that
every byte of every list and of every thread is upstream memory (`Within`); a new block,
apart from what upstream gave before, is then apart from all of them. The rest of `IInv` is about the locks. A block is in two lists while
`shrink_arena` or `clean` moves it, so `Disjoint` is not inductive as it stands; it is with
`Locked` (who has the mutex of an arena, and at which statement), `Writes` (who has
`mtx_`, and that a thread cleans without it only its own arena) and `Jobs` (what the
thread has in hand at each statement: in `shrink_arena` still a block of its own list).

`RpcServerProofs` is about two of the three components that the run `rpc_server` checks:
- `SingleIsSound`, for every number of responses, if the owner is patient (`Patience`: it
  destroys a `ClientSUMD` after `ShutdownAndJoin` of its executor has joined the engine, and a
  `ClientUnary` at the earliest after the completer): responses in order, all of them at an
  OK, and no deletion under gRPC or an engine, the statement behind the completer included.
  `SingleInv` says what is true while gRPC has an operation, while the engine is in the
  completer, behind it in the handler, and past it: they exclude each other, and the status
  and the responses are complete before the completer runs; a joined engine is in none of
  them. Nothing in the class enforces `Patience`: an owner of a `ClientSUMD` that only waits
  for the completer may destroy the client while the handler still writes to it.
- `TransportIsSound`, for every number of messages and every order of drops, if the manager
  is joined before it is dropped (`Joins`; its destructor does not join) and its fiber
  shares the thread of its user (`SameThread`; `start` makes it with `fibers::async`, which
  leaves it on the thread that calls): a message is handled at most once and in order, and
  none is lost unless `~Endpoint` returned with an error from `ucp_ep_close_nb`. `HandlesInv` says that what exists is what somebody holds,
  and who can hold what; `ReleaseSettles` that ~Worker and ~Context in their order restore
  that. `MessagesInv` says that the four places a message passes hold consecutive messages,
  one place following the other, and `StopInv` that an engine that leaves its probe after
  stop has handled what had reached the worker by then.

Only model-checked: `InOrder` and `OperationsSound` of `RpcServer`, all liveness and the fairness part of the refinement (fairness and
ENABLED are beyond the prover), what recursive definitions compute and whatever would
need an induction over data (sums, as in `Conserved` of `Arena`, folds, encodings that
are put together element by element), and the modules not named above. The assumptions
on constants are the `ASSUME`s of the modules, which TLC evaluates in every run, and the
hypotheses named `...Assumption` in the theorems.

## 5. Not modelled

- Control plane: commented out of the build (`src/CMakeLists.txt:187`), most of its
  handlers too. Data plane: not built either; its client and server start end in
  `LOG(FATAL)`. There is no protocol in this revision to model.
- Memory resource adaptors: they forward and log. `ucx_registered_resource` is
  commented out.
- Python option and logging wrappers, getters and setters, type names: no state that
  changes in more than one step. `parse_config` is called by its test only.
- Metrics: the registry hands calls to prometheus; the counters of the builder are in
  `Assembly`. Durations and elapsed times are left out everywhere.
- `ClientUnaryWithMetaData`: calls a wrapped function with more arguments than
  it takes, so it cannot be instantiated.
- Buffered channel: its timed reads, and the null channel, which nothing in the
  library uses. `Edges`: `update_channel`, which replaces a channel before a run.
- Topology discovery: what hwloc and NVML answer is an input of `Placement`.
- Tests, benchmarks, build and CI scripts.
