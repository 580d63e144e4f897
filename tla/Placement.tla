----------------------------- MODULE Placement ------------------------------
(***************************************************************************)
(* From the machine to the partitions a pipeline runs on: NVML and hwloc   *)
(* describe the machine, Topology::Create restricts it by the options, the *)
(* constructor of Partitions divides cpus, memory and gpus into host and   *)
(* device partitions, SystemResources and ResourcePartitions number them.  *)
(* A topology is a sequence of numa nodes, each with the sequence of its   *)
(* cores; a core is its set of logical cpus.                               *)
(***************************************************************************)
EXTENDS Integers, Sequences, FiniteSets, SequencesExt, FiniteSetsExt, Functions

-----------------------------------------------------------------------------
(* srf::Bitmap, the finite set of naturals under CpuSet and NumaSet, with    *)
(* the text it is written to and read from ("0-3,8"): a text is a sequence   *)
(* of tokens <<n>> or <<first, last>>.  RoundRobinCpuSet deals out the       *)
(* members of a set in turn.                                                 *)

(* Bitmap::vec, the bits in their order. *)
vec(s) == [i \in 1 .. Cardinality(s) |-> CHOOSE b \in s : Cardinality({c \in s : c < b}) = i - 1]

(* Bitmap::next, -1 after the last bit. *)
NextBit(s, prev) == LET later == {b \in s : b > prev} IN IF later = {} THEN -1 ELSE Min(later)

(* Bitmap::append, one bit after the other. *)
append(s, other) == FoldLeft(LAMBDA acc, b : acc \cup {b}, s, vec(other))

(* Bitmap::pop: the first n bits, which leave the set. *)
pop(s, n) ==
  FoldLeft(LAMBDA acc, i : LET b == NextBit(acc.left, acc.prev)
                           IN [popped |-> acc.popped \cup {b}, left |-> acc.left \ {b}, prev |-> b],
           [popped |-> {}, left |-> s, prev |-> -1], [i \in 1 .. n |-> i])

(* Mutant of split: the remainder goes to nobody. *)
splitEvenly(s, nways) ==
  FoldLeft(LAMBDA acc, i : LET p == pop(acc.copy, Cardinality(s) \div nways)
                           IN [copy |-> p.left, v |-> Append(acc.v, p.popped)],
           [copy |-> s, v |-> <<>>], [i \in 1 .. nways |-> i - 1]).v

(* Bitmap::split *)
split(s, nways) ==
  LET div == Cardinality(s) \div nways
      rem == Cardinality(s) % nways
      count(i) == div + IF i < rem THEN 1 ELSE 0
  IN FoldLeft(LAMBDA acc, i : LET p == pop(acc.copy, count(i))
                              IN [copy |-> p.left, v |-> Append(acc.v, p.popped)],
              [copy |-> s, v |-> <<>>], [i \in 1 .. nways |-> i - 1]).v

(* SharedResourceBitMap::insert for every object with the bits of its bitmap.*)
SharedResources(bits) == [b \in UNION Range(bits) |-> {o \in DOMAIN bits : b \in bits[o]}]
-----------------------------------------------------------------------------
(* find_ranges: <<low, high>> of every run of consecutive values; the values *)
(* of a bitmap are distinct.                                                 *)
find_ranges(values) ==
  FoldLeft(LAMBDA ranges, x :
             IF ranges # <<>> /\ Last(ranges)[2] + 1 = x
             THEN [ranges EXCEPT ![Len(ranges)][2] = x]
             ELSE Append(ranges, <<x, x>>),
           <<>>, vec(Range(values)))

print_ranges(ranges) ==
  [i \in DOMAIN ranges |-> IF ranges[i][1] = ranges[i][2] THEN <<ranges[i][1]>> ELSE ranges[i]]

(* Bitmap::str *)
str(s) == print_ranges(find_ranges(vec(s)))

(* Mutant of parse_ints: the last value of a range is left out. *)
parse_intsOpen(text) ==
  FoldLeft(LAMBDA result, token :
             result \o IF Len(token) = 1 THEN token
                       ELSE [i \in 1 .. token[2] - token[1] |-> token[1] + i - 1],
           <<>>, text)

(* parse_ints; a token of more than two numbers is fatal and never written.  *)
parse_ints(text) ==
  FoldLeft(LAMBDA result, token :
             result \o IF Len(token) = 1 THEN token
                       ELSE [i \in 1 .. token[2] - token[1] + 1 |-> token[1] + i - 1],
           <<>>, text)

(* Bitmap::Bitmap(const std::string&) *)
FromText(text) == Range(parse_ints(text))
-----------------------------------------------------------------------------
(* RoundRobinCpuSet::next of a set that is not empty: the position after at. *)
RoundRobinNext(s, at) ==
  LET id == NextBit(s, at.prev)
  IN IF id # -1 THEN [prev |-> id, index |-> at.index + 1]
     ELSE [prev |-> NextBit(s, -1), index |-> 0]

(* The first n ids that RoundRobinCpuSet::next_id returns. *)
RoundRobin(s, n) ==
  FoldLeft(LAMBDA acc, i : [at |-> RoundRobinNext(s, acc.at),
                            ids |-> Append(acc.ids, RoundRobinNext(s, acc.at).prev)],
           [at |-> [prev |-> -1, index |-> -1], ids |-> <<>>], [i \in 1 .. n |-> i]).ids
-----------------------------------------------------------------------------
(* What str writes is what the constructor of a Bitmap reads, and the text   *)
(* has no two ranges that could be one.                                      *)
RoundTrip(s) ==
  /\ FromText(str(s)) = s
  /\ \A i \in 1 .. Len(str(s)) - 1 : Last(str(s)[i]) + 1 < str(s)[i + 1][1]

(* Bitmap::split: "if (weight() % nways = remainder), then the first         *)
(* `remainder` bitmaps in the vector will have one more assigned bits", and  *)
(* every bit goes to one bitmap, in order.                                   *)
Splits(s, nways) ==
  LET v == split(s, nways)
  IN /\ UNION Range(v) = s
     /\ \A i, j \in 1 .. nways : i < j => /\ \A a \in v[i], b \in v[j] : a < b
                                          /\ Cardinality(v[i]) - Cardinality(v[j]) \in {0, 1}

(* RoundRobinCpuSet spreads n turns evenly, each as close to its turn before *)
(* as the set is large.                                                      *)
Turns(s, n) ==
  LET ids == RoundRobin(s, n)
  IN \A i \in 1 .. n : ids[i] = vec(s)[((i - 1) % Cardinality(s)) + 1]
-----------------------------------------------------------------------------
CONSTANT Setups   \* records [nvml, nodes, process, devices, options]

VARIABLES
  setup,       \* the machine, as hwloc and NVML describe it, and the user's options
  stage,       \* the next constructor to run
  outcome,     \* "ok", "throw" (SrfRuntimeError) or "abort" (a failed CHECK)
  gpus,        \* gpu_info by cuda device id
  topology,    \* nodes and cpu_set of the restricted topology
  strategy,    \* m_cpu_strategy and m_device_to_host_strategy
  domain,      \* p_id
  hosts, devices,  \* m_host_partitions and m_device_partitions
  remaining_gpus,
  resources    \* m_resources of ResourcePartitions

machineVars   == <<setup, gpus, topology>>
partitionVars == <<strategy, domain, hosts, devices, remaining_gpus>>
vars == <<machineVars, partitionVars, stage, outcome, resources>>

options == setup.options

CpusOf(nodes)   == UNION UNION {Range(nodes[i].cores) : i \in DOMAIN nodes}
Cores(nodes)  == FlattenSeq([i \in DOMAIN nodes |-> nodes[i].cores])
Memory(nodes) == FoldLeft(LAMBDA m, n : m + n.memory, 0, nodes)

(* hwloc_cpuset_to_nodeset: the nodes that a cpu set meets. *)
numaset_for_cpuset(nodes, cpu_set) ==
  {nodes[i].id : i \in {j \in DOMAIN nodes : CpusOf(<<nodes[j]>>) \cap cpu_set # {}}}

(* hwloc_topology_restrict *)
Restricted(nodes, cpu_set, remove_cpuless) ==
  LET cut == [i \in DOMAIN nodes |-> [nodes[i] EXCEPT !.cores =
                SelectSeq([c \in DOMAIN @ |-> @[c] \cap cpu_set], LAMBDA core : core # {})]]
  IN SelectSeq(cut, LAMBDA n : remove_cpuless => n.cores # <<>>)

Init ==
  /\ setup \in Setups
  /\ stage = "detect" /\ outcome = "ok"
  /\ gpus = <<>> /\ topology = [nodes |-> <<>>, cpu_set |-> {}]
  /\ strategy = [cpu |-> options.cpu_strategy, host |-> options.resources_strategy]
  /\ domain = 0 /\ hosts = <<>> /\ devices = <<>> /\ remaining_gpus = {}
  /\ resources = <<>>
-----------------------------------------------------------------------------
(* NvmlState::NvmlState: the indexes of the devices that can be used. *)
AccessibleDeviceIndexes ==
  IF setup.nvml # "success" THEN {}
  ELSE {i \in DOMAIN setup.devices : setup.devices[i].accessible}

(* GpuInfo::serialize writes the cpu set as text, deserialize reads it.      *)
serialize(info)  == [cuda |-> info.cuda, display |-> info.display, cpustr |-> str(info.cpu_set)]
deserialize(msg) == [cuda |-> msg.cuda, display |-> msg.display, cpu_set |-> FromText(msg.cpustr)]

(* Topology::serialize: the xml hwloc exports stands for the nodes. *)
SerializeTopology(nodes, cpu_set, info) ==
  [xml |-> nodes, cpu_set |-> str(cpu_set),
   gpu_info |-> [i \in DOMAIN vec(DOMAIN info) |-> serialize(info[vec(DOMAIN info)[i]])]]

(* Mutant of Deserialize: the gpus are numbered as they come. *)
DeserializeInOrder(msg) ==
  [nodes |-> msg.xml,
   gpus  |-> [id \in 0 .. Len(msg.gpu_info) - 1 |-> deserialize(msg.gpu_info[id + 1])]]

(* Topology::Deserialize *)
Deserialize(msg) ==
  [nodes |-> msg.xml,
   gpus  |-> [id \in {m.cuda : m \in Range(msg.gpu_info)} |->
                deserialize(CHOOSE m \in Range(msg.gpu_info) : m.cuda = id)]]

(* Topology::Create(msg) *)
FromMessage(msg) ==
  [nodes |-> Deserialize(msg).nodes, cpu_set |-> FromText(msg.cpu_set), gpus |-> Deserialize(msg).gpus]

(* Topology::Create(options): the devices CUDA knows, by their cuda id; a    *)
(* topology may also be read from the message of another process.            *)
Detect ==
  /\ stage = "detect" /\ outcome = "ok"
  /\ IF setup.nvml = "error"
     THEN outcome' = "abort" /\ UNCHANGED <<stage, gpus, topology>>
     ELSE \E info \in {{[cuda |-> d.cuda, display |-> d.display, cpu_set |-> d.cpu_set] :
                          d \in {setup.devices[i] : i \in AccessibleDeviceIndexes}}} :
          /\ LET found == [id \in {d.cuda : d \in {e \in info : e.cuda # -1}} |->
                             CHOOSE e \in info : e.cuda = id]
             IN gpus' = IF ~setup.message THEN found
                        ELSE Deserialize(SerializeTopology(setup.nodes, setup.process, found)).gpus
          /\ topology' = [nodes |-> setup.nodes,
                          cpu_set |-> IF setup.message \/ ~options.use_process_cpuset
                                      THEN CpusOf(setup.nodes) ELSE setup.process]
          /\ stage' = "restrict" /\ UNCHANGED outcome
  /\ UNCHANGED <<setup, partitionVars, resources>>

(* The filter of Topology::Create. *)
Wanted(info, cpu_set) ==
  /\ options.restrict_gpus => info.cpu_set \cap cpu_set # {}
  /\ options.ignore_dgx_display => ~info.display

(* Topology::Create(options, system_topology, topo_cpu_set, gpus), and the   *)
(* constructor, whose CHECK the test of the intersection makes true.         *)
Create ==
  /\ stage = "restrict" /\ outcome = "ok"
  /\ LET user == options.user_cpuset
         cpu_set == IF user = {} THEN topology.cpu_set ELSE topology.cpu_set \cap user
     IN IF cpu_set = {}
        THEN outcome' = "throw" /\ UNCHANGED <<stage, gpus, topology>>
        ELSE /\ topology' = [nodes |-> Restricted(topology.nodes, cpu_set,
                                                  options.restrict_numa_domains),
                             cpu_set |-> cpu_set]
             /\ gpus' = Restrict(gpus, {g \in DOMAIN gpus : Wanted(gpus[g], cpu_set)})
             /\ stage' = "strategy" /\ UNCHANGED outcome
  /\ UNCHANGED <<setup, partitionVars, resources>>
-----------------------------------------------------------------------------
numa_count == Len(topology.nodes)
cpu_count  == Cardinality(CpusOf(topology.nodes))
gpu_count  == Cardinality(DOMAIN gpus)

NumaSetOf(g) == numaset_for_cpuset(topology.nodes, gpus[g].cpu_set)
gpus_per_numa_node == SharedResources([g \in DOMAIN gpus |-> NumaSetOf(g)])

(* Mutant of Symmetric: nodes without a gpu are not missed. *)
SymmetricAnyNode ==
  LET map == gpus_per_numa_node
  IN \A n \in DOMAIN map : Cardinality(map[n]) = gpu_count \div Cardinality(DOMAIN map)

Symmetric ==
  LET map == gpus_per_numa_node
      size == Cardinality(DOMAIN map)
  IN /\ numa_count = size /\ gpu_count % size = 0
     /\ \A n \in DOMAIN map : Cardinality(map[n]) = gpu_count \div size

(* Partitions::Partitions, up to the loop: the strategies in effect. *)
Strategies ==
  /\ stage = "strategy" /\ outcome = "ok"
  /\ LET cpu == IF /\ options.cpu_strategy = "PerNumaNode"
                   /\ DOMAIN gpus_per_numa_node # {} /\ ~Symmetric
                THEN "PerMachine" ELSE options.cpu_strategy
         host == IF cpu_count < gpu_count THEN "Shared" ELSE options.resources_strategy
         size == IF cpu = "PerNumaNode" THEN numa_count ELSE 1
     IN IF (\E g \in DOMAIN gpus : Cardinality(NumaSetOf(g)) > 1) \/ gpu_count % size # 0
        THEN outcome' = "abort" /\ UNCHANGED <<stage, strategy, remaining_gpus>>
        ELSE /\ strategy' = [cpu |-> cpu, host |-> host]
             /\ remaining_gpus' = DOMAIN gpus
             /\ stage' = "domains" /\ UNCHANGED outcome
  /\ UNCHANGED <<machineVars, domain, hosts, devices, resources>>
-----------------------------------------------------------------------------
partition_size == IF strategy.cpu = "PerNumaNode" THEN numa_count ELSE 1
count == Max({gpu_count \div partition_size, 1})

(* topology.object_at_depth(partition_depth, p_id), as the nodes it spans. *)
object_at_depth(p_id) ==
  IF strategy.cpu = "PerNumaNode" THEN <<topology.nodes[p_id + 1]>> ELSE topology.nodes

(* Mutant of div_even: the starts ignore the remainder. *)
div_evenOverlap(n, np, me) == [nr |-> n \div np + (IF me < n % np THEN 1 ELSE 0), sr |-> (n \div np) * me]

(* Cores nr from sr on; the remainder is skipped and given to nobody. *)
div_even(n, np, me) ==
  LET nr == n \div np
      ne == n % np
  IN [nr |-> nr, sr |-> IF me < ne THEN (nr + 1) * me ELSE (nr + 1) * ne + nr * (me - ne)]

(* The cpus of the i-th split of the cores of a domain. *)
DedicatedCpus(cores, i) ==
  LET d == div_even(Len(cores), count, i)
  IN FoldLeft(LAMBDA s, core : append(s, core), {}, SubSeq(cores, d.sr + 1, d.sr + d.nr))

HostPartition(cpu_set, numa_set, memory) ==
  [cpu_set |-> cpu_set, numa_set |-> numa_set, memory |-> memory, devices |-> {}]

(* device_best_match: top_score keeps its initial value. *)
device_best_match(remaining, cpu_set) ==
  LET top_score == -1
  IN FoldLeft(LAMBDA top_idx, g :
                IF Cardinality(cpu_set \cap gpus[g].cpu_set) > top_score THEN g ELSE top_idx,
              -1, vec(remaining))

(* Mutant of Place: the id of the host partition is taken before the push. *)
PlaceStale(acc, nodes, s_id) ==
  LET cpus == DedicatedCpus(Cores(nodes), s_id)
      hs == IF strategy.host = "Shared" THEN acc.hosts
            ELSE Append(acc.hosts,
                        HostPartition(cpus, numaset_for_cpuset(topology.nodes, cpus),
                                      Memory(nodes) \div count))
      id == Max({0, Len(acc.hosts) - 1})
      cuda_id == device_best_match(acc.remaining, hs[id + 1].cpu_set)
  IN IF acc.remaining = {} THEN [acc EXCEPT !.hosts = hs]
     ELSE [hosts |-> [hs EXCEPT ![Len(hs)].devices = @ \cup {Len(acc.devices)}],
           devices |-> Append(acc.devices, [cuda |-> cuda_id, host |-> id]),
           remaining |-> acc.remaining \ {cuda_id}]

(* One s_id of a domain: a host partition of its own if dedicated, and a gpu *)
(* while there are any.                                                      *)
Place(acc, nodes, s_id) ==
  LET cpus == DedicatedCpus(Cores(nodes), s_id)
      hs == IF strategy.host = "Shared" THEN acc.hosts
            ELSE Append(acc.hosts,
                        HostPartition(cpus, numaset_for_cpuset(topology.nodes, cpus),
                                      Memory(nodes) \div count))
      id == Len(hs) - 1
      cuda_id == device_best_match(acc.remaining, hs[id + 1].cpu_set)
  IN IF acc.remaining = {} THEN [acc EXCEPT !.hosts = hs]
     ELSE [hosts |-> [hs EXCEPT ![id + 1].devices = @ \cup {Len(acc.devices)}],
           devices |-> Append(acc.devices, [cuda |-> cuda_id, host |-> id]),
           remaining |-> acc.remaining \ {cuda_id}]

(* One turn of the loop over the domains. *)
Domain ==
  /\ stage = "domains" /\ outcome = "ok" /\ domain < partition_size
  /\ LET nodes == object_at_depth(domain)
         shared == HostPartition(CpusOf(nodes), {nodes[i].id : i \in DOMAIN nodes}, Memory(nodes))
     IN IF strategy.host = "Dedicated" /\ count > Len(Cores(nodes))
        THEN outcome' = "abort" /\ UNCHANGED <<domain, hosts, devices, remaining_gpus>>
        ELSE \E placed \in {FoldLeft(LAMBDA acc, i : Place(acc, nodes, i - 1),
               [hosts |-> IF strategy.host = "Shared" THEN Append(hosts, shared) ELSE hosts,
                devices |-> devices, remaining |-> remaining_gpus],
               [i \in 1 .. count |-> i])} :
             /\ hosts' = placed.hosts /\ devices' = placed.devices
             /\ remaining_gpus' = placed.remaining
             /\ domain' = domain + 1
             /\ UNCHANGED outcome
  /\ UNCHANGED <<machineVars, stage, strategy, resources>>

(* The checks after the loop, and set_engine_factory_cpu_sets of every host  *)
(* partition: the engine groups need some cpus, and the default pool one.    *)
DomainsDone ==
  /\ stage = "domains" /\ outcome = "ok" /\ domain = partition_size
  /\ IF gpu_count # Len(devices) \/ remaining_gpus # {}
     THEN outcome' = "abort" /\ UNCHANGED stage
     ELSE IF \E h \in Range(hosts) : Cardinality(h.cpu_set) < options.engine_cpus + 1
     THEN outcome' = "throw" /\ UNCHANGED stage
     ELSE stage' = "resources" /\ UNCHANGED outcome
  /\ UNCHANGED <<machineVars, partitionVars, resources>>
-----------------------------------------------------------------------------
(* SystemResources: device resources in the order of the host partitions.    *)
device_resources == FlattenSeq([h \in DOMAIN hosts |-> vec(hosts[h].devices)])

(* Mutant of ResourcePartitions: every host is appended, with gpus or not. *)
ResourcePartitionsAll ==
  /\ stage = "resources" /\ outcome = "ok"
  /\ resources' = [i \in DOMAIN devices |-> [cuda |-> devices[i].cuda, host |-> devices[i].host]]
                  \o [h \in DOMAIN hosts |-> [cuda |-> -1, host |-> h - 1]]
  /\ stage' = "done"
  /\ UNCHANGED <<machineVars, partitionVars, outcome>>

(* ResourcePartitions: first the gpus by their cuda id, then the hosts       *)
(* without a gpu.                                                            *)
ResourcePartitions ==
  /\ stage = "resources" /\ outcome = "ok"
  /\ LET at(cuda) == CHOOSE r \in Range(device_resources) : devices[r + 1].cuda = cuda
         cudas == vec({devices[r + 1].cuda : r \in Range(device_resources)})
         bare == SelectSeq([h \in DOMAIN hosts |-> h - 1], LAMBDA h : hosts[h + 1].devices = {})
     IN resources' = [i \in DOMAIN cudas |-> [cuda |-> cudas[i], host |-> devices[at(cudas[i]) + 1].host]]
                     \o [i \in DOMAIN bare |-> [cuda |-> -1, host |-> bare[i]]]
  /\ stage' = "done"
  /\ UNCHANGED <<machineVars, partitionVars, outcome>>

(* NvmlState::~NvmlState, as the process ends: nvmlShutdown fails unless     *)
(* nvmlInit succeeded.                                                       *)
NvmlShutdown ==
  /\ stage = "done" /\ outcome = "ok"
  /\ stage' = "exited"
  /\ outcome' = IF setup.nvml = "success" THEN "ok" ELSE "abort"
  /\ UNCHANGED <<machineVars, partitionVars, resources>>

Next ==
  \/ Detect \/ Create \/ Strategies \/ Domain \/ DomainsDone \/ ResourcePartitions
  \/ NvmlShutdown

Spec == Init /\ [][Next]_vars
-----------------------------------------------------------------------------
Placed == stage \in {"resources", "done", "exited"}

(* The loop of Partitions gives every gpu of the topology to one device      *)
(* partition and one host partition, and the two refer to each other.        *)
DevicesPlaced ==
  Placed =>
    /\ {d.cuda : d \in Range(devices)} = DOMAIN gpus /\ Len(devices) = gpu_count
    /\ \A h \in DOMAIN hosts : hosts[h].devices =
         {d - 1 : d \in {e \in DOMAIN devices : devices[e].host = h - 1}}

(* PlacementResources::Dedicated, "a dedicated HostPartition of 32 unique    *)
(* cpus_ids": host partitions share no cpu, none is empty or outside of the  *)
(* topology, and they promise no more memory than there is.                  *)
HostsDisjoint ==
  Placed =>
    /\ \A h \in DOMAIN hosts : hosts[h].cpu_set # {} /\ hosts[h].cpu_set \subseteq topology.cpu_set
    /\ \A g, h \in DOMAIN hosts : g # h => hosts[g].cpu_set \cap hosts[h].cpu_set = {}
    /\ FoldLeft(LAMBDA m, h : m + h.memory, 0, hosts) <= Memory(topology.nodes)
    /\ strategy.host = "Shared" => UNION {h.cpu_set : h \in Range(hosts)} = topology.cpu_set

(* ResourcePartitions: every host partition and every gpu is in a resource   *)
(* partition, the gpus come first in the order of their cuda ids, and a gpu  *)
(* is served by the host partition that it was placed on.                    *)
ResourcesComplete ==
  stage \in {"done", "exited"} =>
    /\ {r.host : r \in Range(resources)} = {h - 1 : h \in DOMAIN hosts}
    /\ Len(resources) = gpu_count + Cardinality({h \in DOMAIN hosts : hosts[h].devices = {}})
    /\ \A i, j \in 1 .. gpu_count : i < j => resources[i].cuda < resources[j].cuda
    /\ \A i \in DOMAIN resources : resources[i].cuda # -1 =>
         [cuda |-> resources[i].cuda, host |-> resources[i].host] \in Range(devices)

(* Topology::serialize and Create(msg) (test_topology.cpp:184-200): whoever  *)
(* gets the message sees the same cpus, nodes and gpus, whatever the options *)
(* restricted before.                                                        *)
SurvivesMessage ==
  Placed => FromMessage(SerializeTopology(topology.nodes, topology.cpu_set, gpus))
              = [nodes |-> topology.nodes, cpu_set |-> topology.cpu_set, gpus |-> gpus]

(* A CHECK of this code fails, or it throws, only for a reason the user can  *)
(* see: no usable driver, no cpu left, a gpu near two numa nodes, too few    *)
(* cores or cpus in a domain for the partitions asked for, or gpus far from  *)
(* all cpus that cannot be dealt out to the numa nodes.                      *)
FailuresExplained ==
  outcome # "ok" =>
    \/ setup.nvml # "success"
    \/ options.user_cpuset # {} /\ topology.cpu_set \cap options.user_cpuset = {}
    \/ \E g \in DOMAIN gpus : Cardinality(NumaSetOf(g)) > 1
    \/ options.resources_strategy = "Dedicated" /\ Len(Cores(topology.nodes)) < gpu_count
    \/ /\ options.resources_strategy = "Dedicated" /\ options.cpu_strategy = "PerNumaNode"
       /\ \E n \in Range(topology.nodes) :
            Len(n.cores) < Max({1, Cardinality({g \in DOMAIN gpus : n.id \in NumaSetOf(g)})})
    \/ \E h \in Range(hosts) : Cardinality(h.cpu_set) <= options.engine_cpus
    \/ options.cpu_strategy = "PerNumaNode" /\ \A g \in DOMAIN gpus : NumaSetOf(g) = {}

(* partitions.cpp:140, "pick the gpu with the highest overlap and use the    *)
(* lowest indexed gpu in case of a tie": no gpu that was still there when    *)
(* one was picked for a host partition has more cpus in common with it.      *)
Overlap(d, e) == Cardinality(gpus[devices[e].cuda].cpu_set \cap hosts[devices[d].host + 1].cpu_set)
HighestOverlap ==
  Placed => \A d, e \in DOMAIN devices : d < e => Overlap(d, d) >= Overlap(d, e)

(* "unable to allocate dedicated cpu cores per device; falling back to       *)
(* shared host partition": with fewer cores than gpus, the fallback is used. *)
FallsBackToShared ==
  stage \in {"domains", "resources", "done"} /\ options.resources_strategy = "Dedicated"
    /\ Len(Cores(topology.nodes)) < gpu_count => strategy.host = "Shared"

(* NvmlState, "No NVIDIA GPU driver was detected; setting DeviceCount to 0": *)
(* the program runs without a driver, to the end.                            *)
RunsWithoutDriver == setup.nvml = "no_driver" => outcome # "abort"

(* The text of cpu sets, Bitmap::split and RoundRobinCpuSet, for the cpu     *)
(* sets that are given to the program.                                       *)
BitmapsSound ==
  stage = "detect" => \A s \in {setup.process, options.user_cpuset} :
    /\ RoundTrip(s)
    /\ \A n \in 1 .. 4 : Splits(s, n)
    /\ s # {} => Turns(s, 2 * Cardinality(s) + 1)
=============================================================================
