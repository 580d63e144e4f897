--------------------------- MODULE EngineFactories ---------------------------
(***************************************************************************)
(* How the logical cpus of a host partition are dealt out: first by        *)
(* generate_engine_factory_cpu_sets to the engine factories, by the        *)
(* options of each engine group, and then by every factory to the engines  *)
(* that the launchers ask it to build.  Groups are numbered in the order   *)
(* of their names; Default and Main are the two built-in groups, and the   *)
(* group of the network thread is one more group of one cpu.               *)
(***************************************************************************)
EXTENDS Integers, FiniteSets, FiniteSetsExt

CONSTANTS Cpus,       \* logical cpus of the partition, a set of naturals
          Groups,     \* user-defined engine groups, a set of positive naturals
          MaxCount,   \* bound on the cpu_count of a group and on a pe_count
          MaxBuilds,  \* bound on the number of build_engines calls
          Types       \* engine types used: a subset of {"Fiber", "Thread"}

ASSUME FactoriesAssumption ==
  /\ Cpus \subseteq Nat /\ IsFiniteSet(Cpus) /\ Cpus # {}
  /\ Groups \subseteq Nat \ {0} /\ IsFiniteSet(Groups)
  /\ MaxCount \in Nat \ {0} /\ MaxBuilds \in Nat
  /\ Types \subseteq {"Fiber", "Thread"}

Default == -1
Main    == 0
Named   == Groups \cup {Main}
Factories == Named \cup {Default}

EngineFactoryOptions == [cpu_count : 1 .. MaxCount, engine_type : Types,
                         reusable : BOOLEAN, allow_overlap : BOOLEAN]
MainOptions == [cpu_count |-> 1, engine_type |-> "Fiber", reusable |-> TRUE,
                allow_overlap |-> FALSE]

VARIABLES
  options,    \* the EngineFactoryOptions of every group
  dedicated,  \* dedicated_main_thread
  default_type, \* default_engine_type
  cpu_sets,   \* the CpuSet of every factory, or <<>> before they are generated
  shared,     \* shared_cpus_set
  offset,     \* m_offset of a fiber factory, rank of m_prev_cpu_idx + 1 of a thread factory
  granted,    \* history: how often each factory has given out each cpu
  exhausted,  \* history: single-use factories that have thrown
  builds,     \* number of build_engines calls
  outcome     \* "start", "ok", "throw" (too few cpus) or "abort" (a CHECK failed)

configVars == <<options, dedicated, default_type>>
vars == <<configVars, cpu_sets, shared, offset, granted, exhausted, builds, outcome>>

(* The element of rank i in S, in the order of Bitmap::next. *)
Rank(S, x) == Cardinality({y \in S : y < x})
Nth(S, i)  == CHOOSE x \in S : Rank(S, x) = i

(* Bitmap::pop(n) of S after off others have been popped. *)
Popped(S, off, n) == {x \in S : Rank(S, x) \in off .. off + n - 1}

Init ==
  /\ options \in [Groups -> EngineFactoryOptions]
  /\ dedicated \in BOOLEAN /\ default_type \in Types
  /\ cpu_sets = <<>> /\ shared = {}
  /\ offset = [f \in Factories |-> 0]
  /\ granted = [f \in Factories |-> [c \in Cpus |-> 0]]
  /\ exhausted = {} /\ builds = 0
  /\ outcome = "start"
-----------------------------------------------------------------------------
(* engine_groups_map: Main is in it if its thread is dedicated. *)
Map == Groups \cup (IF dedicated THEN {Main} ELSE {})
Option(g) == IF g = Main THEN MainOptions ELSE options[g]
Overlapping == {g \in Map : Option(g).allow_overlap}
Disjoint    == Map \ Overlapping
Count(S)    == MapThenSumSet(LAMBDA g : Option(g).cpu_count, S)
Before(g, S) == Count({h \in S : h < g})

SharedCount ==
  IF Overlapping = {} THEN 0 ELSE Max({Option(g).cpu_count : g \in Overlapping})

MinCount == SharedCount + Count(Disjoint)

(* The cpus left after the default pool. *)
DefaultSet == Popped(Cpus, 0, Cardinality(Cpus) - MinCount)
Remaining  == Cpus \ DefaultSet

(* Mutant of DedicatedSet: pop leaves the popped bits in the set. *)
DedicatedSetAgain(g) == Popped(Remaining, 0, Option(g).cpu_count)

(* remaining_cpu_set.pop, in the order of the map. *)
DedicatedSet(g) == Popped(Remaining, Before(g, Disjoint), Option(g).cpu_count)

SharedSet == Remaining \ UNION {DedicatedSet(g) : g \in Disjoint}

(* Round robin over the shared cpus, going on where the group before ended.  *)
OverlappingSet(g) ==
  LET n == Cardinality(SharedSet) IN
  {Nth(SharedSet, (Before(g, Overlapping) + i) % n) : i \in 0 .. Option(g).cpu_count - 1}

(* generate_engine_factory_cpu_sets *)
Generate ==
  /\ outcome = "start"
  /\ IF MinCount + 1 > Cardinality(Cpus)
     THEN outcome' = "throw" /\ UNCHANGED <<cpu_sets, shared>>
     ELSE /\ outcome' = "ok"
          /\ shared' = SharedSet
          /\ cpu_sets' = [f \in Factories |->
               CASE f = Default -> DefaultSet
                 [] f = Main /\ ~dedicated -> {Nth(DefaultSet, 0)}
                 [] f \in Disjoint -> DedicatedSet(f)
                 [] f \in Overlapping -> OverlappingSet(f)]
  /\ UNCHANGED <<configVars, offset, granted, exhausted, builds>>
-----------------------------------------------------------------------------
Type(f)     == IF f \in Groups THEN options[f].engine_type
               ELSE IF f = Default THEN default_type ELSE "Fiber"
Reusable(f) == IF f \in Groups THEN options[f].reusable ELSE TRUE
Size(f)     == Cardinality(cpu_sets[f])
CanBuild    == outcome = "ok" /\ builds < MaxBuilds

(* Cpus of ranks first .. first + n - 1, cyclically, each as often as met. *)
Grant(f, first, n) ==
  granted' = [granted EXCEPT ![f] = [c \in Cpus |->
                @[c] + Cardinality({i \in first .. first + n - 1 :
                                      Nth(cpu_sets[f], i % Size(f)) = c})]]

(* Mutant of BuildReusable: every call starts at the first cpu. *)
BuildReusableFromFirst(f, n) ==
  /\ CanBuild /\ Reusable(f)
  /\ builds' = builds + 1
  /\ IF Type(f) = "Thread" /\ n > Size(f)
     THEN outcome' = "abort" /\ UNCHANGED <<offset, granted>>
     ELSE Grant(f, offset[f], n) /\ UNCHANGED <<offset, outcome>>
  /\ UNCHANGED <<configVars, cpu_sets, shared, exhausted>>

(* ReusableFiberEngineFactory (without the debug-only DCHECK) and            *)
(* ReusableThreadEngineFactory: round robin.  Threads on the same cpu fall   *)
(* into one bit of the CpuSet, and ThreadEngines checks its weight.          *)
BuildReusable(f, n) ==
  /\ CanBuild /\ Reusable(f)
  /\ builds' = builds + 1
  /\ IF Type(f) = "Thread" /\ n > Size(f)
     THEN outcome' = "abort" /\ UNCHANGED <<offset, granted>>
     ELSE /\ Grant(f, offset[f], n)
          /\ offset' = [offset EXCEPT ![f] = (@ + n) % Size(f)]
          /\ UNCHANGED outcome
  /\ UNCHANGED <<configVars, cpu_sets, shared, exhausted>>

(* SingleUseFiberEngineFactory: m_offset is read and never written. *)
BuildSingleUseFiber(f, n) ==
  /\ CanBuild /\ ~Reusable(f) /\ Type(f) = "Fiber"
  /\ builds' = builds + 1
  /\ IF offset[f] + n > Size(f)
     THEN exhausted' = exhausted \cup {f} /\ UNCHANGED granted
     ELSE Grant(f, offset[f], n) /\ UNCHANGED exhausted
  /\ UNCHANGED <<configVars, cpu_sets, shared, offset, outcome>>

(* SingleUseThreadEngineFactory: when the cpus run out, m_prev_cpu_idx is -1,*)
(* from which the next call starts again.                                    *)
BuildSingleUseThread(f, n) ==
  /\ CanBuild /\ ~Reusable(f) /\ Type(f) = "Thread"
  /\ builds' = builds + 1
  /\ IF offset[f] + n > Size(f)
     THEN /\ exhausted' = exhausted \cup {f}
          /\ offset' = [offset EXCEPT ![f] = 0]
          /\ UNCHANGED granted
     ELSE /\ Grant(f, offset[f], n)
          /\ offset' = [offset EXCEPT ![f] = @ + n]
          /\ UNCHANGED exhausted
  /\ UNCHANGED <<configVars, cpu_sets, shared, outcome>>

Next ==
  \/ Generate
  \/ \E f \in Factories, n \in 1 .. MaxCount :
       BuildReusable(f, n) \/ BuildSingleUseFiber(f, n) \/ BuildSingleUseThread(f, n)

Spec == Init /\ [][Next]_vars
-----------------------------------------------------------------------------
Generated == outcome \in {"ok", "abort"}

(* A generated factory has exactly the cpus its options ask for, distinct    *)
(* ones also where overlap is allowed, and the default pool at least one.    *)
SizesHonoured ==
  Generated => /\ cpu_sets \in [Factories -> SUBSET Cpus]
               /\ Size(Default) >= 1
               /\ \A f \in Named : Size(f) = Option(f).cpu_count

(* EngineFactoryOptions::allow_overlap, "if false, the set of cpus (CpuSet)  *)
(* is guaranteed to be unique across all groups": generated dedicated sets   *)
(* meet no other set, and no cpu of the partition is left over.              *)
DedicatedUnique ==
  Generated =>
    /\ \A f \in Disjoint : \A g \in Factories \ {f} : cpu_sets[f] \cap cpu_sets[g] = {}
    /\ UNION {cpu_sets[f] : f \in Disjoint \cup {Default}} \cup shared = Cpus

(* A reusable factory spreads the engines: after any sequence of builds no   *)
(* cpu has been given out twice more often than another one of the factory.  *)
(* A single-use thread factory gives out a cpu at most once until it throws. *)
RoundRobin ==
  Generated => \A f \in Factories :
    /\ Reusable(f) => \A c, d \in cpu_sets[f] : granted[f][c] <= granted[f][d] + 1
    /\ ~Reusable(f) /\ Type(f) = "Thread" /\ f \notin exhausted
         => \A c \in Cpus : granted[f][c] <= 1

(* EngineFactoryOptions::reusable, "if false, logical cpus can only be given *)
(* to a single set of engines/launcher", of the factories of either type.    *)
SingleUse ==
  Generated => \A f \in Factories : ~Reusable(f) => \A c \in Cpus : granted[f][c] <= 1

(* EngineFactory, "Reusable factories should not error on resources". *)
ReusableNeverFails == outcome # "abort"
=============================================================================
