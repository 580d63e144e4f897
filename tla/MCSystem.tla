------------------------------ MODULE MCSystem ------------------------------
(***************************************************************************)
(* The system layer: the placement of partitions, the engine factories of  *)
(* one partition, the threads of a System, the fiber scheduler of a thread *)
(* and the instruments that measure what runs on it.  A behaviour is one   *)
(* of the component named by "live", the other ones rest in one initial    *)
(* state.                                                                  *)
(***************************************************************************)
EXTENDS EngineFactories, TLC

CONSTANTS
  Setups,
  ThreadCpus, Engines, Affinity, Numa, Hooks, Where, IsFinal,
  Fibers, Main_, Priorities, Remotes, MaxChanges,
  Sink, CountMax, Sequenced, SameThread, MaxCalls, MaxEvents, MaxTraceCalls

VARIABLES
  live,
  setup, stage, place_outcome, gpus, topology, strategy, domain, hosts, devices,
  remaining_gpus, resources,
  life, m_queues, thread, closed, tasks, map, reg, inserted, ran, due, fatal,
  m_rqueue, priority, fiber, remote, sched, deadline, m_flag, notifying, overtaken, changes,
  running, tracing, ready, count, tracers, mutex, sleeping, barrier, source, emitted,
  channel, sunk, client, then, calls, stopped,
  env, flag, manual, traceCalls, walk, report, asked, synced, before, multimap, table, stats, pc, held,
  events, traced, torn, whole

PL == INSTANCE Placement WITH outcome <- place_outcome
ST == INSTANCE SystemThreads WITH Cpus <- ThreadCpus
FS == INSTANCE FiberScheduler WITH thread <- sched, Main <- Main_
SW == INSTANCE SegmentWatcher
(* A component on two threads, and another one. *)
TracedObjects ==
  <<[name |-> 2, kind |-> "node"], [name |-> 1, kind |-> "source"], [name |-> 2, kind |-> "sink"]>>
TS == INSTANCE TraceStats WITH Objects <- TracedObjects, MaxCalls <- MaxTraceCalls,
                               calls <- traceCalls

placeVars  == <<setup, stage, place_outcome, gpus, topology, strategy, domain, hosts, devices,
                remaining_gpus, resources>>
threadVars == <<life, m_queues, thread, closed, tasks, map, reg, inserted, ran, due, fatal>>
schedVars  == <<m_rqueue, priority, fiber, remote, sched, deadline, m_flag, notifying, overtaken,
                changes>>
watchVars  == <<running, tracing, ready, count, tracers, mutex, sleeping, barrier, source,
                emitted, channel, sunk, client, then, calls, stopped>>
traceVars  == <<env, flag, manual, traceCalls, walk, report, asked, synced, before, multimap, table,
                stats, pc, held, events, traced, torn, whole>>
benchVars  == <<watchVars, traceVars>>
allVars == <<live, vars, placeVars, threadVars, schedVars, benchVars>>
-----------------------------------------------------------------------------
(* Machines of one and two numa nodes, with and without hyperthreads, up to  *)
(* three gpus, and every option of the topology and of the placement.        *)
Node(id, cores, memory) == [id |-> id, cores |-> cores, memory |-> memory]
TwoNodes == <<Node(0, <<{0, 4}, {1, 5}>>, 5), Node(1, <<{2, 6}, {3, 7}>>, 5)>>
Uneven   == <<Node(0, <<{0}, {1}, {2}>>, 4), Node(1, <<{4}>>, 3)>>
OneNode  == <<Node(0, <<{0, 2}, {1, 3}>>, 4)>>

Gpu(cuda, cpu_set, display, accessible) ==
  [cuda |-> cuda, cpu_set |-> cpu_set, display |-> display, accessible |-> accessible]

Near == {0, 1, 4, 5}
Far  == {2, 3, 6, 7}

DeviceLists ==
  {<<>>, <<Gpu(0, Near, FALSE, TRUE)>>,
   <<Gpu(0, Near, FALSE, TRUE), Gpu(1, Far, FALSE, TRUE)>>,
   <<Gpu(1, Near, FALSE, TRUE), Gpu(0, Far, FALSE, TRUE)>>,
   <<Gpu(0, {9}, FALSE, TRUE), Gpu(1, {9}, FALSE, TRUE)>>,
   <<Gpu(0, Near, FALSE, FALSE), Gpu(-1, Far, FALSE, TRUE), Gpu(1, Far, FALSE, TRUE)>>,
   <<Gpu(0, Near, FALSE, TRUE), Gpu(1, Far, TRUE, TRUE), Gpu(2, Far, FALSE, TRUE)>>,
   <<Gpu(0, Near \cup Far, FALSE, TRUE)>>}

AllOptions ==
  [use_process_cpuset : BOOLEAN, restrict_numa_domains : BOOLEAN, restrict_gpus : BOOLEAN,
   ignore_dgx_display : BOOLEAN, user_cpuset : {{}, {0, 1, 4}, {9}},
   cpu_strategy : {"PerMachine", "PerNumaNode"}, resources_strategy : {"Dedicated", "Shared"},
   engine_cpus : {0, 1}]
DefaultOptions ==
  [use_process_cpuset |-> TRUE, restrict_numa_domains |-> TRUE, restrict_gpus |-> FALSE,
   ignore_dgx_display |-> TRUE, user_cpuset |-> {}, cpu_strategy |-> "PerMachine",
   resources_strategy |-> "Dedicated", engine_cpus |-> 0]

MachineSetups ==
  [nvml : {"success"}, nodes : {TwoNodes, Uneven}, process : {{0, 1, 2, 4}}, message : {FALSE},
   devices : DeviceLists, options : AllOptions]
  \cup [nvml : {"success"}, nodes : {TwoNodes}, process : SUBSET (0 .. 7) \ {{}},
        message : BOOLEAN, devices : {<<Gpu(0, Near, FALSE, TRUE)>>}, options : {DefaultOptions}]
  \cup [nvml : {"success", "no_driver", "error"}, nodes : {OneNode}, process : {{0, 1, 2}},
        message : BOOLEAN, devices : DeviceLists, options : {DefaultOptions}]

(* A partition of six logical cpus with gaps, for two groups of engines. *)
SixCpus == {0, 1, 2, 4, 5, 7}

RestingSetup  == CHOOSE s \in Setups : TRUE
(* Of two engines one may not move across numa nodes, 0 and 1 of the cpus.   *)
ThreadAffinity == 10 :> {0, 1} @@ 11 :> {1, 2}
NumaOf   == 0 :> 0 @@ 1 :> 0 @@ 2 :> 1
HookCpus == "gil" :> {0, 1, 2} @@ "some" :> {1} @@ "final" :> {0, 1, 2}

SystemInit ==
  /\ live \in {"placement", "factories", "threads", "scheduler", "watcher", "statistics"}
  /\ live # "factories" => /\ options = [g \in Groups |-> MainOptions]
                           /\ dedicated = FALSE /\ default_type = "Fiber"
  /\ live # "placement" => setup = RestingSetup
  /\ Init /\ PL!Init /\ ST!Init /\ FS!Init /\ SW!Init
  /\ TS!Init /\ env \in {{}, TS!Traces} /\ (live # "statistics" => env = {})

SystemNext ==
  \/ live = "factories" /\ Next /\ UNCHANGED <<live, placeVars, threadVars, schedVars, benchVars>>
  \/ live = "placement" /\ PL!Next /\ UNCHANGED <<live, vars, threadVars, schedVars, benchVars>>
  \/ live = "threads" /\ ST!Next /\ UNCHANGED <<live, vars, placeVars, schedVars, benchVars>>
  \/ live = "scheduler" /\ FS!Next /\ UNCHANGED <<live, vars, placeVars, threadVars, benchVars>>
  \/ /\ live = "watcher" /\ SW!Next
     /\ UNCHANGED <<live, vars, placeVars, threadVars, schedVars, traceVars>>
  \/ /\ live = "statistics" /\ TS!Next
     /\ UNCHANGED <<live, vars, placeVars, threadVars, schedVars, watchVars>>

SystemSpec == SystemInit /\ [][SystemNext]_allVars
-----------------------------------------------------------------------------
(* Partitions gives every gpu to one host partition and divides cpus and     *)
(* memory without sharing any, the Resources of all are numbered, Bitmap and *)
(* RoundRobinCpuSet keep, split and deal out every bit, and a Topology comes *)
(* through its message unchanged.                                            *)
PartitionsSound ==
  live = "placement" =>
    PL!DevicesPlaced /\ PL!HostsDisjoint /\ PL!ResourcesComplete /\ PL!BitmapsSound
      /\ PL!SurvivesMessage

(* The gpu with the highest overlap is picked for a host partition: what the *)
(* comment of partitions.cpp:140 says, see Placement.                        *)
HighestOverlap == live = "placement" => PL!HighestOverlap

(* The CHECKs of Topology and Partitions fail only for a visible reason. *)
FailuresExplained == live = "placement" => PL!FailuresExplained

(* An engine factory has the cpus its options ask for, dedicated engines     *)
(* share none, and reusable ones are dealt round robin.                      *)
FactoriesSound == live = "factories" => SizesHonoured /\ DedicatedUnique /\ RoundRobin

(* The threads of a System run their initializers and finalizers once each;  *)
(* FiberPriorityScheduler prefers higher priorities, is fair to equals, and  *)
(* sleeps through no wakeup of another thread.                               *)
SchedulingSound ==
  /\ live = "threads" => ST!HooksOnce
  /\ live = "scheduler" => FS!PriorityRoundRobin /\ FS!NoLostNotify

(* SegmentWatcher: stop_trace collects every tracer it sent, one is in       *)
(* flight per source at a time, and metrics follow the path of a tracer.     *)
TracesSound ==
  live = "watcher" => SW!StopCollects /\ SW!OneInFlight /\ SW!MetricsFollowPath

(* TraceStatistics: aggregate is accurate up to what happens while it reads, *)
(* a node traced from the start counts every element once per event, and a   *)
(* manual setting overrides the environment until reset().                   *)
StatisticsSound ==
  live = "statistics" => TS!AggregateAccurate /\ TS!CountsFollowElements /\ TS!ManualOverrides
=============================================================================
