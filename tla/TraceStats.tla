----------------------------- MODULE TraceStats -----------------------------
(***************************************************************************)
(* Statistics of traced nodes (src/public/benchmarking/trace_statistics.cpp*)
(* and .hpp, include/srf/core/watcher.hpp): every node reports its channel *)
(* and data events to a statistics object of its thread, process-wide      *)
(* flags choose which events count, and aggregate() sums the objects of a  *)
(* component over the threads.                                             *)
(*                                                                         *)
(* The nodes do not wait for the thread that controls the tracing: it      *)
(* rewires, clears and reads one object after the other, the last two      *)
(* counter by counter, and an increment is a load and a store.  Elapsed    *)
(* times are left out, and with them the two events that only take the     *)
(* time, the start of a read and of a write; what is counted is kept.      *)
(***************************************************************************)
EXTENDS Integers, Sequences, SequencesExt, FiniteSets, FiniteSetsExt

CONSTANTS
    Objects,    \* the objects to be made, sequence of [name, kind]: one per thread and name
    MaxEvents,  \* bound: events of the nodes
    MaxCalls    \* bound: calls of the controlling thread

Traces == {"operators", "channels"}

VARIABLES
    env,        \* the environment variables that are set
    flag,       \* s_trace_operators, s_trace_channels
    manual,     \* their _set_manually flags
    multimap,   \* TraceObjectMultimap: the objects in key order
    table,      \* per object: the traces its lookup tables are wired for
    stats,      \* per object: its counters
    pc,         \* per object: the next event of its node
    events,     \* events so far
    held,       \* per object: the counter its node has loaded to add one, or -1
    calls,      \* calls of the controlling thread
    walk,       \* where its loop over the multimap is
    report,     \* aggregate(): the component summed so far, and those written out
    asked,      \* history, per trace: what was asked for since reset(), or "env"
    synced,     \* history: no flag or variable changed since the last sync
    traced,     \* history, per object: events that came while wired, since the clear
    torn,       \* history, per object: counters that were cleared between load and store
    whole,      \* history, per object: traced from its first event, without a change
    before      \* history: the names and "traced" when aggregate() began

control == <<env, flag, manual, calls, walk, report, asked, synced, before>>
nodes == <<multimap, table, stats, pc, held, events, traced, torn, whole>>
vars == <<control, nodes>>

Ids == DOMAIN Objects
Made == Range(multimap)

Counters == {"receive", "emission", "reads", "writes"}
Cleared == [c \in Counters |-> 0]

Idle == [loop |-> "none", at |-> 0, c |-> 1, reset |-> FALSE]
NoReport == [of |-> 0, sum |-> Cleared, done |-> <<>>]
Nothing == [names |-> {}, traced |-> [o \in Ids |-> Cleared]]

(* The watcher calls of one element: RxSinkBase's observable around the    *)
(* channel and the subscriber, RxSourceBase's observer around the write.   *)
SinkEvents == <<"read_end", "receive">>
SourceEvents == <<"emit", "write_end">>
Events(o) ==
    CASE Objects[o].kind = "sink" -> SinkEvents
      [] Objects[o].kind = "source" -> SourceEvents
      [] Objects[o].kind = "node" -> SinkEvents \o SourceEvents

---------------------------------------------------------------------------
(* The nodes *)

CounterOf == [receive |-> "receive", emit |-> "emission", read_end |-> "reads", write_end |-> "writes"]

(* Mutant of Handle: both events of the data are wired to receive(). *)
HandleDouble(e) == IF e = "emit" THEN "receive" ELSE CounterOf[e]

(* on_entry, on_exit: what the handler in the lookup table counts. *)
Handle(e) == CounterOf[e]

TraceOf(e) == IF e \in {"receive", "emit"} THEN "operators" ELSE "channels"

(* initialize_lookup_tables(): no-ops, or the handlers of what is traced. *)
LookupTable(f) == {x \in Traces : f[x]}

Init ==
    /\ env \in SUBSET Traces /\ flag = [x \in Traces |-> x \in env]
    /\ manual = [x \in Traces |-> FALSE]
    /\ multimap = <<>> /\ table = [o \in Ids |-> {}] /\ stats = [o \in Ids |-> Cleared]
    /\ pc = [o \in Ids |-> 1] /\ held = [o \in Ids |-> -1] /\ events = 0 /\ calls = 0
    /\ walk = Idle /\ report = NoReport
    /\ asked = [x \in Traces |-> "env"] /\ synced = TRUE /\ before = Nothing
    /\ traced = [o \in Ids |-> Cleared] /\ torn = [o \in Ids |-> {}] /\ whole = [o \in Ids |-> TRUE]

(* s_state_mutex: sync_state() and reset() hold it, aggregate() does not. *)
Locked == walk.loop \in {"sync", "clear"}

(* get_or_create(name) on a thread that has no such object yet. *)
GetOrCreate(o) ==
    /\ o \notin Made /\ ~Locked
    /\ LET smaller == SelectSeq(multimap, LAMBDA p : Objects[p].name <= Objects[o].name)
           larger == SelectSeq(multimap, LAMBDA p : Objects[p].name > Objects[o].name)
       IN multimap' = smaller \o <<o>> \o larger
    /\ table' = [table EXCEPT ![o] = LookupTable(flag)]
    /\ UNCHANGED <<control, stats, pc, held, events, traced, torn, whole>>

EventOf(o) == Events(o)[pc[o]]
EventDone(o) == pc' = [pc EXCEPT ![o] = (@ % Len(Events(o))) + 1]
Clearing(o) == walk.loop = "clear" /\ walk.at = o /\ walk.c > 1

(* A watched node comes to its next event, and loads the counter ... *)
Event(o) ==
    /\ o \in Made /\ held[o] = -1 /\ events < MaxEvents /\ events' = events + 1
    /\ IF TraceOf(EventOf(o)) \in table[o]
       THEN held' = [held EXCEPT ![o] = stats[o][Handle(EventOf(o))]] /\ UNCHANGED pc
       ELSE EventDone(o) /\ UNCHANGED held
    /\ whole' = [whole EXCEPT ![o] = @ /\ table[o] = Traces /\ ~Clearing(o)]
    /\ UNCHANGED <<control, multimap, table, stats, traced, torn>>

(* ... and stores it. *)
Store(o) ==
    /\ held[o] # -1
    /\ stats' = [stats EXCEPT ![o][Handle(EventOf(o))] = held[o] + 1]
    /\ traced' = [traced EXCEPT ![o][CounterOf[EventOf(o)]] = @ + 1]
    /\ held' = [held EXCEPT ![o] = -1] /\ EventDone(o)
    /\ whole' = [whole EXCEPT ![o] = @ /\ ~Clearing(o)]
    /\ UNCHANGED <<control, multimap, table, events, torn>>

---------------------------------------------------------------------------
(* The controlling thread *)

(* The iterator over the multimap as it is now; 0 is its end. *)
After(o) ==
    LET i == IF o = 0 THEN 0 ELSE CHOOSE j \in DOMAIN multimap : multimap[j] = o
    IN IF i = Len(multimap) THEN 0 ELSE multimap[i + 1]

(* Mutant of Order: what was received is read before what was emitted. *)
OrderReceiveFirst == <<"receive", "emission", "reads", "writes">>

(* to_json() reads, and clear() clears, the counters in this order. *)
Order == <<"emission", "receive", "reads", "writes">>

Loop(name) == [loop |-> name, at |-> After(0), c |-> 1, reset |-> FALSE]
NextObject == [walk EXCEPT !.at = After(walk.at), !.c = 1]
NextCounter == IF walk.c < Len(Order) THEN [walk EXCEPT !.c = @ + 1] ELSE NextObject

Call == walk.loop = "none" /\ calls < MaxCalls /\ calls' = calls + 1

(* sync_state() for given flags: the effective ones, then every object. *)
SyncState(f, m, reset) ==
    /\ flag' = [x \in Traces |-> IF m[x] THEN f[x] ELSE x \in env]
    /\ walk' = [Loop("sync") EXCEPT !.reset = reset]

SyncStep ==
    /\ walk.loop = "sync"
    /\ IF walk.at # 0
       THEN /\ table' = [table EXCEPT ![walk.at] = LookupTable(flag)]
            /\ walk' = NextObject /\ UNCHANGED synced
       ELSE /\ walk' = IF walk.reset THEN Loop("clear") ELSE Idle
            /\ synced' = TRUE /\ UNCHANGED table
    /\ UNCHANGED <<env, flag, manual, calls, report, asked, before, multimap, stats, pc, held, events,
                   traced, torn, whole>>

(* trace_operators(flag, sync_immediate), trace_channels(...). *)
SetTrace(x, on, immediate) ==
    /\ Call
    /\ manual' = [manual EXCEPT ![x] = TRUE]
    /\ asked' = [asked EXCEPT ![x] = IF on THEN "on" ELSE "off"] /\ synced' = FALSE
    /\ IF immediate THEN SyncState([flag EXCEPT ![x] = on], manual', FALSE)
       ELSE flag' = [flag EXCEPT ![x] = on] /\ UNCHANGED walk
    /\ UNCHANGED <<env, report, before, nodes>>

Sync ==
    /\ Call /\ SyncState(flag, manual, FALSE)
    /\ UNCHANGED <<env, manual, report, asked, synced, before, nodes>>

(* The environment is changed; nothing looks until the next sync. *)
SetEnv(x) ==
    /\ Call
    /\ env' = (env \cup {x}) \ (env \cap {x}) /\ synced' = FALSE
    /\ UNCHANGED <<flag, manual, walk, report, asked, before, nodes>>

(* Mutant of Reset: the manual flags survive. *)
ResetKeepsManual ==
    /\ Call
    /\ asked' = [x \in Traces |-> "env"] /\ UNCHANGED manual
    /\ SyncState([x \in Traces |-> FALSE], manual, TRUE) /\ synced' = FALSE
    /\ UNCHANGED <<env, report, before, nodes>>

(* reset(): the flags fall back to the environment, the counters to zero. *)
Reset ==
    /\ Call
    /\ asked' = [x \in Traces |-> "env"] /\ manual' = [x \in Traces |-> FALSE]
    /\ SyncState([x \in Traces |-> FALSE], manual', TRUE) /\ synced' = FALSE
    /\ UNCHANGED <<env, report, before, nodes>>

(* Mutant of Clear: the emissions are kept. *)
ClearKeepsEmissions(c, n) == IF c = "emission" THEN n ELSE 0

(* clear(): every counter. *)
Clear(c, n) == 0

ClearStep ==
    /\ walk.loop = "clear"
    /\ IF walk.at = 0 THEN walk' = Idle /\ UNCHANGED <<stats, traced, torn, whole>>
       ELSE LET o == walk.at
                c == Order[walk.c]
            IN /\ stats' = [stats EXCEPT ![o][c] = Clear(c, @)]
               /\ traced' = [traced EXCEPT ![o][c] = 0]
               /\ torn' = [torn EXCEPT ![o] = IF held[o] # -1 /\ CounterOf[EventOf(o)] = c
                                              THEN @ \cup {c} ELSE @ \ {c}]
               /\ whole' = [whole EXCEPT ![o] = @ /\ pc[o] = 1 /\ held[o] = -1]
               /\ walk' = NextCounter
    /\ UNCHANGED <<env, flag, manual, calls, report, asked, synced, before, multimap, table, pc, held,
                   events>>

(* aggregate(): one pass over the multimap, without the lock.  A change of *)
(* the key writes out the component summed so far; the last one is written *)
(* at the end.                                                             *)
Aggregate ==
    /\ Call /\ walk' = Loop("aggregate") /\ report' = NoReport
    /\ before' = [names |-> {Objects[o].name : o \in Made}, traced |-> traced]
    /\ UNCHANGED <<env, flag, manual, asked, synced, nodes>>

WriteOut(a) == IF a.of = 0 THEN a.done ELSE Append(a.done, [name |-> a.of, metrics |-> a.sum])

(* Mutant of Visit: a second object of the component takes the place of the first. *)
VisitLast(a, o, c) ==
    IF a.of # Objects[o].name
    THEN [of |-> Objects[o].name, sum |-> [Cleared EXCEPT ![c] = stats[o][c]], done |-> WriteOut(a)]
    ELSE [a EXCEPT !.sum[c] = stats[o][c]]

Visit(a, o, c) ==
    IF a.of # Objects[o].name
    THEN [of |-> Objects[o].name, sum |-> [Cleared EXCEPT ![c] = stats[o][c]], done |-> WriteOut(a)]
    ELSE [a EXCEPT !.sum[c] = @ + stats[o][c]]

AggregateStep ==
    /\ walk.loop = "aggregate"
    /\ IF walk.at = 0 THEN walk' = Idle /\ report' = NoReport /\ before' = Nothing
       ELSE /\ report' = Visit(report, walk.at, Order[walk.c])
            /\ walk' = NextCounter /\ UNCHANGED before
    /\ UNCHANGED <<env, flag, manual, calls, asked, synced, nodes>>

Next ==
    \/ \E o \in Ids : GetOrCreate(o) \/ Event(o) \/ Store(o)
    \/ \E x \in Traces : SetEnv(x) \/ \E on, i \in BOOLEAN : SetTrace(x, on, i)
    \/ Sync \/ Reset \/ Aggregate \/ SyncStep \/ ClearStep \/ AggregateStep

Spec == Init /\ [][Next]_vars

---------------------------------------------------------------------------
Total(counts, objects, c) == FoldSet(LAMBDA o, n : counts[o][c] + n, 0, objects)

(* "approximately accurate" (trace_statistics.cpp:130-133): aggregate()    *)
(* reports each component it found once.  A count is one the component had *)
(* between the start and the end of the pass, over all threads and since   *)
(* reset(), and too high only where reset() cleared a counter under a      *)
(* node's increment.  However the nodes go on, a component never emitted   *)
(* more than it received or received more than it read.                    *)
AggregateAccurate ==
    walk.loop = "aggregate" /\ walk.at = 0 =>
        LET result == WriteOut(report)
            names == {result[i].name : i \in DOMAIN result}
        IN /\ before.names \subseteq names /\ names \subseteq {Objects[o].name : o \in Made}
           /\ Len(result) = Cardinality(names)
           /\ \A i \in DOMAIN result :
                LET metrics == result[i].metrics
                    objects == {o \in Made : Objects[o].name = result[i].name}
                IN /\ \A c \in Counters :
                        /\ Total(before.traced, objects, c) <= metrics[c]
                        /\ (\A o \in objects : c \notin torn[o])
                              => metrics[c] <= Total(traced, objects, c)
                   /\ (\A o \in objects : whole[o] /\ Objects[o].kind # "source")
                         => metrics.emission <= metrics.receive /\ metrics.receive <= metrics.reads

(* "This will override any environmental setting until 'reset' is called"  *)
(* (trace_statistics.hpp:103, 116): after a sync every object is wired for *)
(* what was asked, or else for what the environment says.                  *)
ManualOverrides ==
    synced => \A o \in Made, x \in Traces :
        x \in table[o] <=> (asked[x] = "on" \/ (asked[x] = "env" /\ x \in env))

(* A node traced from its first event counts each element once per event   *)
(* (test_stat_gather.cpp:110-113): the counters differ by the element in   *)
(* hand at most, and a source reads nothing, a sink emits nothing.         *)
CountsFollowElements ==
    \A o \in Made : whole[o] /\ ~Clearing(o) =>
        LET s == stats[o] IN
        /\ Objects[o].kind = "node" => s.writes <= s.emission /\ s.emission <= s.receive
                                       /\ s.receive <= s.reads /\ s.reads <= s.writes + 1
        /\ Objects[o].kind = "source" => s.receive + s.reads = 0
                                         /\ s.writes <= s.emission /\ s.emission <= s.writes + 1
        /\ Objects[o].kind = "sink" => s.emission + s.writes = 0
                                       /\ s.receive <= s.reads /\ s.reads <= s.receive + 1
=============================================================================
