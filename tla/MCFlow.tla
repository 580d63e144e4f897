------------------------------- MODULE MCFlow -------------------------------
(***************************************************************************)
(* How a pipeline is put together, controlled, and passes elements on: the *)
(* two wirings; one port with two downstream segments, assigned at         *)
(* once or one after the other; the assembly of segments; and the control  *)
(* of two segments.  A behaviour is one of Edges, Manifold, Assembly or    *)
(* Pipeline, as "live" says; the others keep their initial state.          *)
(***************************************************************************)
EXTENDS Edges

CONSTANTS s1, s2, op1, op2, k1, k2

VARIABLES
  live,
  m_state, i_state, m_update_channel, updates, m_segments, m_current_segments, controller,
  m_joinable, alive, told, failed, pushed, caller, joiner, threw, asked, died,
  rounds, ctl, inputUpdates, outputUpdates, muxer, channel, outputs, pickList, next,
  fiber, up, down, picked, aborted,
  segmentNames, portNames, segments, manager, current, builder, instances, manifolds,
  converters, calls, fatal

(* Two wirings: a broadcast whose outputs feed a sink and a router, next to  *)
(* a second source that shares the sinks; and two sources into one muxer.    *)
FanOutOutputs == [n \in {s1, s2, op1, op2} |->
  CASE n = s1 -> <<op1>> [] n = s2 -> <<k2>>
    [] n = op1 -> <<k1, op2>> [] n = op2 -> <<k1, k2>>]
FanOutKind == [n \in {op1, op2} |-> IF n = op1 THEN "broadcast" ELSE "router"]

FanInOutputs == [n \in {s1, s2, op1} |-> IF n = op1 THEN <<k1>> ELSE <<op1>>]
FanInKind == [n \in {op1} |-> "muxer"]

(* Definitions whose names and types agree, collide or clash, for Assembly. *)
P(n, t) == [name |-> n, type |-> t]
D(n, i, e) == [name |-> n, ingress |-> i, egress |-> e]

\* "q" and "r" have the same hash, as have the segment names "a" and "c".
MCHash == [a |-> 1, b |-> 2, c |-> 1, p |-> 1, q |-> 3, r |-> 3]
MCDefinitions ==
    {D("a", <<>>, <<P("p", "i4")>>), D("b", <<P("p", "i4")>>, <<P("q", "i4")>>),
     D("b", <<P("p", "u4")>>, <<>>), D("c", <<P("p", "i4")>>, <<>>),
     D("a", <<P("r", "i4")>>, <<P("p", "i4")>>), D("b", <<P("q", "i4")>>, <<P("r", "i4")>>)}
MCKinds == {[source |-> "i4", sink |-> "none"], [source |-> "none", sink |-> "i8"], [source |-> "rec", sink |-> "u4"]}
IntType(b, s) == [bits |-> b, signed |-> s, float |-> FALSE, convertible |-> {"i4", "u4", "i8"}]
MCTypeInfo == [i4 |-> IntType(4, TRUE), u4 |-> IntType(4, FALSE), i8 |-> IntType(8, TRUE),
               rec |-> [bits |-> 8, signed |-> FALSE, float |-> FALSE, convertible |-> {}]]
MCUserConverters == {<<"rec", "i8">>}
MCConverters == {<<"i4", "i4">>}
-----------------------------------------------------------------------------
C == INSTANCE Pipeline WITH
       Addresses <- {"a1", "a2"}, Updates <- << {"a1", "a2"} >>, Concurrent <- TRUE,
       MayThrow <- TRUE, channel <- updates, fatal <- died
M == INSTANCE Manifold WITH
       Up <- {"u1"}, Down <- {"d1", "d2"},
       Assignments <- {<< {"u1", "d1", "d2"} >>, << {"u1", "d1"}, {"d2"} >>},
       Fibers <- {"f1", "f2"}, Elements <- 4, ChannelSize <- 1, fatal <- aborted
A == INSTANCE Assembly WITH
       Definitions <- MCDefinitions, Hash <- MCHash, Bits <- 2, NodeNames <- {"n", "p"},
       Kinds <- MCKinds, TypeInfo <- MCTypeInfo, Converters <- MCConverters,
       UserConverters <- MCUserConverters, MaxCalls <- 4

pipelineVars == <<m_state, i_state, m_update_channel, updates, m_segments,
                  m_current_segments, controller, m_joinable, alive, told, failed, pushed,
                  caller, joiner, threw, asked, died>>
manifoldVars == <<rounds, ctl, inputUpdates, outputUpdates, muxer, channel, outputs,
                  pickList, next, fiber, up, down, picked, aborted>>
assemblyVars == <<segmentNames, portNames, segments, manager, current, builder, instances,
                  manifolds, converters, calls, fatal>>
allVars == <<live, vars, pipelineVars, manifoldVars, assemblyVars>>

FlowInit ==
  /\ live \in {"edges", "pipeline", "manifold", "assembly"}
  /\ live # "manifold" => rounds = << {"u1", "d1", "d2"} >>
  /\ Init /\ C!Init /\ M!Init /\ A!Init

EdgesStep(S) ==
  live = "edges" /\ S /\ UNCHANGED <<live, pipelineVars, manifoldVars, assemblyVars>>
PipelineStep(S) ==
  live = "pipeline" /\ S /\ UNCHANGED <<live, vars, manifoldVars, assemblyVars>>
ManifoldStep(S) ==
  live = "manifold" /\ S /\ UNCHANGED <<live, vars, pipelineVars, assemblyVars>>
AssemblyStep(S) ==
  live = "assembly" /\ S /\ UNCHANGED <<live, vars, pipelineVars, manifoldVars>>

FlowNext ==
  EdgesStep(Next) \/ PipelineStep(C!Next) \/ ManifoldStep(M!Next) \/ AssemblyStep(A!Next)

(* The fairness of Edges, Manifold and Pipeline: writers, releases, fibers   *)
(* and the threads of the control go on, and a segment told to stop ends.    *)
FlowSpec ==
  /\ FlowInit /\ [][FlowNext]_allVars
  /\ WF_allVars(EdgesStep(Progress)) /\ WF_allVars(ManifoldStep(M!Next))
  /\ WF_allVars(PipelineStep(C!Control)) /\ WF_allVars(PipelineStep(C!Join))
  /\ \A a \in {"a1", "a2"} : WF_allVars(PipelineStep(C!ToldSegmentEnds(a)))
-----------------------------------------------------------------------------
(* An Ingress that is held leads to an open channel, and every element       *)
(* written arrives at each sink its operators forward it to.                 *)
EdgesSound == OpenWhileHeld /\ Delivered

(* Every element an upstream segment wrote is in exactly one place, a        *)
(* channel, a balancer fiber or one downstream segment; the balancer spreads *)
(* them evenly and no CHECK of it fails.                                     *)
ManifoldSound == M!EachOnce /\ M!Balanced /\ M!ManifoldChecks

(* Ids name one segment and one port each, a Builder stays consistent        *)
(* through refused calls, what aborts a pipeline that was accepted is a      *)
(* clash of types that no earlier step refused, and a conversion made        *)
(* without the warning about narrowing (edge_builder.hpp:46) keeps every     *)
(* value.                                                                    *)
AssemblySound ==
  A!IdsIdentify /\ A!BuilderSound /\ A!AbortsExplained /\ A!SilentIsLossless

(* When a pipeline's join has returned, its segments and its controller have *)
(* ended and the join threw if one of them failed; a stop or a kill that     *)
(* overlaps the join aborts, if at all, after every segment has been joined. *)
PipelineSound == C!JoinedMeansEnded /\ C!AbortsLate

(* The release of the sources closes the sinks, a balancer that ends         *)
(* completes the segments attached to it, and the join of a pipeline returns *)
(* once it is stopped, killed or done, unless an initializer threw or the    *)
(* process aborted on the channel the join had reset.                        *)
FlowEnds ==
  /\ live = "edges" => Cascade
  /\ live = "manifold" => M!DownstreamEnds
  /\ live = "pipeline" => C!JoinReturns
=============================================================================
