------------------------------ MODULE Manifold ------------------------------
(***************************************************************************)
(* A LoadBalancer manifold between the segments of one port name           *)
(* (srf/manifold/ and the ports of srf/segment/).  Upstream segments write *)
(* through their EgressPort into a Muxer, the Muxer into the channel of    *)
(* the Balancer, and the Balancer's fibers hand each element to the next   *)
(* downstream IngressPort of a shuffled pick list.                         *)
(*                                                                         *)
(* Instance::update attaches what create_segment queued and starts         *)
(* everything, once per assignment.  Its tasks and the Balancer's fibers   *)
(* share one thread, the "main" one: they interleave only where a fiber    *)
(* waits for its channel, which is where the steps below are cut.          *)
(***************************************************************************)
EXTENDS Integers, Sequences, FiniteSets, SequencesExt

CONSTANTS
    Up, Down,    \* segments with the port as egress, as ingress
    Assignments, \* the sequences of sets of segments that may be assigned
    Fibers,      \* the engines of the balancer (8 in the code)
    Elements,    \* bound: elements an upstream segment emits
    ChannelSize  \* capacity of a channel

VARIABLES
    rounds, ctl,              \* the assignments to come; where Instance::update is
    inputUpdates, outputUpdates, \* m_input_updates, m_output_updates
    muxer,                    \* "open", "released": the Muxer's channel to the balancer
    channel,                  \* the balancer's SinkChannel
    outputs, pickList, next,  \* m_outputs, m_pick_list, m_next
    fiber,                    \* per engine of the runner: where it is, and its element
    up,                       \* per upstream segment: where it is, elements written
    down,                     \* per downstream segment: where it is, its channel, what it read
    picked,                   \* history: how often each output was picked since the last shuffle
    fatal                     \* why the process aborted, or "none"

updateVars == <<rounds, ctl, inputUpdates, outputUpdates>>
egressVars == <<outputs, pickList, next, picked>>
vars == <<updateVars, muxer, channel, egressVars, fiber, up, down, fatal>>

Init ==
    /\ rounds \in Assignments /\ ctl = "create"
    /\ inputUpdates = <<>> /\ outputUpdates = <<>>
    /\ muxer = "open" /\ channel = <<>>
    /\ outputs = {} /\ pickList = <<>> /\ next = 1
    /\ fiber = [e \in Fibers |-> [pc |-> "new"]]
    /\ up = [u \in Up |-> [pc |-> "none", sent |-> 0]]
    /\ down = [d \in Down |-> [pc |-> "none", open |-> TRUE, channel |-> <<>>, got |-> <<>>]]
    /\ picked = [d \in Down |-> 0]
    /\ fatal = "none"

Live == fatal = "none"
Created(s) == IF s \in Up THEN up[s].pc # "none" ELSE down[s].pc # "none"

(***************************************************************************)
(* An assignment: create_segment for each address, then Instance::update.  *)
(***************************************************************************)
\* create_segment, for the ports of this name: connect_to_manifold queues the
\* attachment and nothing is attached yet.
QueueInput(u) == inputUpdates' = Append(inputUpdates, u)
QueueOutput(d) == outputUpdates' = Append(outputUpdates, d)

CreateEgressSegment(u) ==
    /\ up' = [up EXCEPT ![u].pc = "created"]
    /\ QueueInput(u)
    /\ UNCHANGED <<outputUpdates, down>>

CreateIngressSegment(d) ==
    /\ down' = [down EXCEPT ![d].pc = "created"]
    /\ QueueOutput(d)
    /\ UNCHANGED <<inputUpdates, up>>

CreateSegment(s) ==
    /\ Live /\ ctl = "create" /\ rounds # <<>>
    /\ s \in Head(rounds) /\ ~Created(s)
    /\ IF s \in Up THEN CreateEgressSegment(s) ELSE CreateIngressSegment(s)
    /\ UNCHANGED <<rounds, ctl, muxer, channel, egressVars, fiber, fatal>>

\* MuxedIngress::do_add_input: an edge from the source to the Muxer.
AddInputs(us) == up' = [u \in Up |-> [up[u] EXCEPT !.pc = IF u \in us THEN "attached" ELSE @]]

\* update_inputs: every queued source is added.
UpdateInputs ==
    /\ Live /\ ctl = "create" /\ rounds # <<>>
    /\ \A s \in Head(rounds) : Created(s)
    /\ ctl' = "outputs"
    /\ AddInputs(ToSet(inputUpdates))
    /\ inputUpdates' = <<>>
    /\ UNCHANGED <<rounds, outputUpdates, muxer, channel, egressVars, fiber, down, fatal>>

\* MappedEgress::do_add_output: each sink gets a channel in m_outputs.
AddOutputs(ds) ==
    /\ fatal' = IF ds \cap outputs = {} THEN "none" ELSE "output attached twice"
    /\ outputs' = outputs \cup ds

\* update_pick_list: all the outputs, shuffled, from the first one on.
UpdatePickList ==
    /\ pickList' \in {p \in SetToAllKPermutations(outputs') : Len(p) = Cardinality(outputs')}
    /\ next' = 1
    /\ picked' = [d \in Down |-> 0]

UpdateOutputs ==
    /\ Live /\ ctl = "outputs"
    /\ ctl' = "start"
    /\ IF outputUpdates = <<>> THEN UNCHANGED <<egressVars, fatal>>
       ELSE AddOutputs(ToSet(outputUpdates)) /\ UpdatePickList
    /\ outputUpdates' = <<>>
    /\ UNCHANGED <<rounds, inputUpdates, muxer, channel, fiber, up, down>>

\* LoadBalancer::start: the runner is launched once.
Start ==
    /\ Live /\ ctl = "start"
    /\ ctl' = "segments"
    /\ fiber' = [e \in Fibers |-> IF fiber[e].pc = "new" THEN [pc |-> "read"] ELSE fiber[e]]
    /\ UNCHANGED <<rounds, inputUpdates, outputUpdates, muxer, channel, egressVars, up, down, fatal>>

\* The segments of the assignment are started, in the order of their addresses.
StartSegment(s) ==
    /\ Live /\ ctl = "segments"
    /\ IF s \in Up THEN /\ up[s].pc = "attached"
                        /\ up' = [up EXCEPT ![s].pc = "running"]
                        /\ UNCHANGED down
       ELSE /\ down[s].pc = "created"
            /\ down' = [down EXCEPT ![s].pc = "running"]
            /\ UNCHANGED up
    /\ UNCHANGED <<updateVars, muxer, channel, egressVars, fiber, fatal>>

Updated ==
    /\ Live /\ ctl = "segments"
    /\ \A u \in Up : up[u].pc # "attached"
    /\ \A d \in Down : down[d].pc # "created"
    /\ ctl' = "create" /\ rounds' = Tail(rounds)
    /\ UNCHANGED <<inputUpdates, outputUpdates, muxer, channel, egressVars, fiber, up, down, fatal>>

(***************************************************************************)
(* An upstream segment.                                                    *)
(***************************************************************************)
\* Muxer::on_next: into the balancer's channel, waiting while it is full; with
\* the channel released, SourceChannelWriteable::no_channel drops the element
\* and reports success.
Emit(u) ==
    /\ Live /\ up[u].pc = "running" /\ up[u].sent < Elements
    /\ muxer = "released" \/ Len(channel) < ChannelSize
    /\ up' = [up EXCEPT ![u].sent = @ + 1]
    /\ channel' = IF muxer = "open" THEN Append(channel, <<u, up[u].sent + 1>>) ELSE channel
    /\ UNCHANGED <<updateVars, muxer, egressVars, fiber, down, fatal>>

\* The egress port completes and its edge is destroyed: every edge has an
\* IngressAdaptor of its own, and the destructor of each calls Muxer::on_complete,
\* which releases, and so closes, the balancer's channel.
Complete(u) ==
    /\ Live /\ up[u].pc = "running" /\ up[u].sent = Elements
    /\ up' = [up EXCEPT ![u].pc = "done"]
    /\ muxer' = "released"
    /\ UNCHANGED <<updateVars, channel, egressVars, fiber, down, fatal>>

(***************************************************************************)
(* A fiber of the balancer.                                                *)
(***************************************************************************)
(* Mutant of Roll: the counter moves only once the write has returned. *)
RollLate(n) == n

Roll(n) == IF n = Len(pickList) THEN 1 ELSE n + 1

\* RoundRobinEgress::await_write, up to the write: the next output is chosen and
\* the counter rolled.
Choose(e, val) ==
    IF next <= Len(pickList)
    THEN /\ fiber' = [fiber EXCEPT ![e] = [pc |-> "write", to |-> pickList[next], val |-> val]]
         /\ next' = Roll(next)
         /\ picked' = [picked EXCEPT ![pickList[next]] = @ + 1]
         /\ UNCHANGED fatal
    ELSE /\ fatal' = "no output"
         /\ UNCHANGED <<fiber, next, picked>>

\* Balancer::on_data.
OnData(e) ==
    /\ Live /\ fiber[e].pc = "read" /\ channel # <<>>
    /\ channel' = Tail(channel)
    /\ Choose(e, Head(channel))
    /\ UNCHANGED <<updateVars, muxer, outputs, pickList, up, down>>

(* Mutant of AwaitWrite: an element that finds the output's channel full is dropped. *)
AwaitWriteDrops(e) ==
    /\ Live /\ fiber[e].pc = "write"
    /\ LET d == fiber[e].to
       IN  down' = IF Len(down[d].channel) < ChannelSize
                   THEN [down EXCEPT ![d].channel = Append(@, fiber[e].val)] ELSE down
    /\ fiber' = [fiber EXCEPT ![e] = [pc |-> "read"]]
    /\ UNCHANGED <<updateVars, muxer, channel, egressVars, up, fatal>>

\* The write of RoundRobinEgress::await_write, waiting while the output's channel is full.
AwaitWrite(e) ==
    /\ Live /\ fiber[e].pc = "write"
    /\ LET d == fiber[e].to
       IN  IF d \in outputs /\ down[d].open
           THEN /\ Len(down[d].channel) < ChannelSize
                /\ down' = [down EXCEPT ![d].channel = Append(@, fiber[e].val)]
                /\ fiber' = [fiber EXCEPT ![e] = [pc |-> "read"]]
                /\ UNCHANGED fatal
           ELSE /\ fatal' = "write to a destroyed output"
                /\ UNCHANGED <<down, fiber>>
    /\ UNCHANGED <<updateVars, muxer, channel, egressVars, up>>

\* The channel is closed and empty: on to the barrier of RxRunnable's shutdown.
Drained(e) ==
    /\ Live /\ fiber[e].pc = "read" /\ channel = <<>> /\ muxer = "released"
    /\ fiber' = [fiber EXCEPT ![e] = [pc |-> "barrier"]]
    /\ UNCHANGED <<updateVars, muxer, channel, egressVars, up, down, fatal>>

\* will_complete, by rank 0 after the barrier: m_outputs is cleared, each of its
\* channels closed; the pick list keeps its pointers.
Cleared ==
    /\ outputs' = {}
    /\ down' = [d \in Down |-> [down[d] EXCEPT !.open = @ /\ d \notin outputs]]

(* Mutant of WillComplete: the first fiber to drain the channel clears. *)
WillCompleteNoBarrier ==
    /\ Live /\ \E e \in Fibers : fiber[e].pc = "barrier"
    /\ Cleared
    /\ fiber' = [e \in Fibers |-> IF fiber[e].pc = "barrier" THEN [pc |-> "done"] ELSE fiber[e]]
    /\ UNCHANGED <<updateVars, muxer, channel, pickList, next, picked, up, fatal>>

(* Mutant of WillComplete: nothing is cleared. *)
WillCompleteNothing ==
    /\ Live /\ \A e \in Fibers : fiber[e].pc = "barrier"
    /\ fiber' = [e \in Fibers |-> [pc |-> "done"]]
    /\ UNCHANGED <<updateVars, muxer, channel, egressVars, up, down, fatal>>

WillComplete ==
    /\ Live /\ \A e \in Fibers : fiber[e].pc = "barrier"
    /\ Cleared
    /\ fiber' = [e \in Fibers |-> [pc |-> "done"]]
    /\ UNCHANGED <<updateVars, muxer, channel, pickList, next, picked, up, fatal>>

(***************************************************************************)
(* A downstream segment reads its ingress port until it is closed.         *)
(***************************************************************************)
Read(d) ==
    /\ Live /\ down[d].pc = "running" /\ down[d].channel # <<>>
    /\ down' = [down EXCEPT ![d].got = Append(@, Head(down[d].channel)), ![d].channel = Tail(@)]
    /\ UNCHANGED <<updateVars, muxer, channel, egressVars, fiber, up, fatal>>

ReadClosed(d) ==
    /\ Live /\ down[d].pc = "running" /\ down[d].channel = <<>> /\ ~down[d].open
    /\ down' = [down EXCEPT ![d].pc = "done"]
    /\ UNCHANGED <<updateVars, muxer, channel, egressVars, fiber, up, fatal>>

Next ==
    \/ \E s \in Up \cup Down : CreateSegment(s) \/ StartSegment(s)
    \/ UpdateInputs \/ UpdateOutputs \/ Start \/ Updated
    \/ \E u \in Up : Emit(u) \/ Complete(u)
    \/ \E e \in Fibers : OnData(e) \/ AwaitWrite(e) \/ Drained(e)
    \/ WillComplete
    \/ \E d \in Down : Read(d) \/ ReadClosed(d)

Spec == Init /\ [][Next]_vars

\* Threads and fibers run, and an upstream segment ends.
FairSpec == Spec /\ WF_vars(Next)

-----------------------------------------------------------------------------
Places(x) ==
    {<<"channel", i>> : i \in {j \in 1 .. Len(channel) : channel[j] = x}}
    \cup {<<"fiber", e>> : e \in {g \in Fibers : fiber[g].pc = "write" /\ fiber[g].val = x}}
    \cup UNION {{<<d, i>> : i \in {j \in 1 .. Len(down[d].channel) : down[d].channel[j] = x}} : d \in Down}
    \cup UNION {{<<d, -i>> : i \in {j \in 1 .. Len(down[d].got) : down[d].got[j] = x}} : d \in Down}

\* Every element an upstream segment wrote with success is in exactly one place:
\* a channel, a balancer fiber, or the one downstream segment that read it.
EachOnce ==
    Live => \A u \in Up : \A k \in 1 .. up[u].sent : Cardinality(Places(<<u, k>>)) = 1

\* The CHECKs of the egress hold: an element finds an output, and the output it
\* was given is still there when the fiber resumes and writes it.
ManifoldChecks == fatal = "none"

\* Between two changes of the outputs the elements are spread evenly, also when
\* several fibers are suspended in their writes ("roll counter before
\* await_write which could yield", egress.hpp:90).
Balanced ==
    \A i, j \in 1 .. Len(pickList) : picked[pickList[i]] - picked[pickList[j]] \in -1 .. 1

\* Downstream segments attached before the balancer ended are completed by it.
DownstreamEnds ==
    \A d \in Down : (d \in outputs /\ fiber # [e \in Fibers |-> [pc |-> "done"]]) ~> (down[d].pc = "done")

\* Every downstream segment attached is completed, whenever it was attached.
AttachedEnds == \A d \in Down : d \in outputs ~> down[d].pc = "done"

\* interface.hpp:34-38: the outputs are attached only when the upstream segments
\* have started.
StartedBeforeOutputs ==
    [][\A u \in Up : outputs' # outputs /\ outputs' # {} => up[u].pc # "attached"]_vars
=============================================================================
