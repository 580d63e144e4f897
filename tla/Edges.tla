-------------------------------- MODULE Edges --------------------------------
(***************************************************************************)
(* Edges between nodes: a SourceChannel holds a shared_ptr to an Ingress,  *)
(* which is either the Edge of a SinkChannel (shared by all its upstreams; *)
(* the deleter run by the last holder closes the channel) or the           *)
(* IngressAdaptor of an Operator (its destructor completes the operator,   *)
(* which releases the operator's own SourceChannels).  Operators run in    *)
(* the thread of the writer.  A port <<n, i>> is the i-th SourceChannel of *)
(* node n; <<k, 0>> is the persistent ingress of sink k.                   *)
(***************************************************************************)
EXTENDS Integers, Sequences, FiniteSets

CONSTANTS Sources, Ops, Sinks,
          Outputs,     \* Outputs[n] lists the nodes that n's SourceChannels feed
          Kind,        \* Kind[op]: "muxer", "broadcast" or "router" (also Conditional)
          Persist,     \* sinks that are made persistent and whose runner is stopped
          Dynamic,     \* are edges made while others are written and released?
          MaxWrites    \* bound on the elements each source writes

ASSUME EdgesAssumption ==
  /\ Outputs \in [Sources \cup Ops -> Seq(Ops \cup Sinks)]
  /\ \A s \in Sources : Len(Outputs[s]) = 1
  /\ Kind \in [Ops -> {"muxer", "broadcast", "router"}]
  /\ Persist \subseteq Sinks
  /\ Dynamic \in BOOLEAN /\ MaxWrites \in Nat

PortsOf(n)    == {n} \X (1 .. Len(Outputs[n]))
Wired         == UNION {PortsOf(n) : n \in Sources \cup Ops}
Persistent(k) == <<k, 0>>
Ports         == Wired \cup {Persistent(k) : k \in Sinks}
SourcePort(s) == <<s, 1>>
To(p)         == IF p[2] = 0 THEN p[1] ELSE Outputs[p[1]][p[2]]
MaxEdges      == Cardinality(Ports)

VARIABLES
  m_ingress,  \* number of the Edge (or 1 for an IngressAdaptor) a port holds; 0 is nullptr
  edges,      \* number of Edges each SinkChannel has created
  made,       \* ports that have been connected
  releasing,  \* ports about to be reset
  dying,      \* <<sink, edge>>: the last holder is gone, the deleter has not run
  closed,     \* is the sink's channel closed?
  completed,  \* operators that got on_complete
  writing,    \* ports an element of each source still has to be written to
  written,    \* elements each source has started to write
  received,   \* elements of each source that reached each sink
  stopped,    \* sinks whose Runner was told to stop
  outcome     \* "ok", or what ended the process or the write

edgeVars == <<m_ingress, edges, made>>
downVars == <<releasing, dying, closed, completed>>
flowVars == <<writing, written, received>>
vars == <<edgeVars, downVars, flowVars, stopped, outcome>>

Init ==
  /\ m_ingress = [p \in Ports |-> 0]
  /\ edges = [k \in Sinks |-> 0]
  /\ made = {}
  /\ releasing = {} /\ dying = {}
  /\ closed = [k \in Sinks |-> FALSE]
  /\ completed = {}
  /\ writing = [s \in Sources |-> <<>>]
  /\ written = [s \in Sources |-> 0]
  /\ received = [k \in Sinks |-> [s \in Sources |-> 0]]
  /\ stopped = {}
  /\ outcome = "ok"

Running == outcome = "ok"
Built   == Dynamic \/ made = Wired

(* The edge that SinkChannel::m_ingress.lock() finds, or 0. *)
Lock(k) ==
  IF \E p \in Ports : To(p) = k /\ m_ingress[p] = edges[k] THEN edges[k] ELSE 0
-----------------------------------------------------------------------------
(* SinkChannel::channel_ingress into port p; it throws on a closed channel.  *)
SinkIngress(p) ==
  LET k == To(p) IN
  /\ ~closed[k]
  /\ edges' = [edges EXCEPT ![k] = IF edges[k] # 0 /\ Lock(k) # 0 THEN @ ELSE @ + 1]
  /\ m_ingress' = [m_ingress EXCEPT ![p] = edges'[k]]

(* make_edge: channel_ingress of the downstream node, then complete_edge. *)
MakeEdge(p) ==
  /\ Running /\ p \in Wired \ made
  /\ made' = made \cup {p}
  /\ IF To(p) \in Sinks THEN SinkIngress(p)
     ELSE m_ingress' = [m_ingress EXCEPT ![p] = 1] /\ edges' = edges
  /\ UNCHANGED <<downVars, flowVars, stopped, outcome>>

(* enable_persistence, before the nodes run unless edges are Dynamic. *)
EnablePersistence(k) ==
  /\ Running /\ (Dynamic \/ ~Built) /\ m_ingress[Persistent(k)] = 0
  /\ SinkIngress(Persistent(k))
  /\ UNCHANGED <<made, downVars, flowVars, stopped, outcome>>

(* Only p holds its Edge. *)
LastHolder(p) ==
  \A q \in Ports \ {p} : To(q) # To(p) \/ m_ingress[q] # m_ingress[p]

(* disable_persistence drops the persistent ingress, and runs the deleter if *)
(* it was the last, under m_mutex: nobody gets an ingress in between.        *)
DisablePersistence(k) ==
  /\ Running /\ Built /\ m_ingress[Persistent(k)] # 0
  /\ m_ingress' = [m_ingress EXCEPT ![Persistent(k)] = 0]
  /\ closed' = [closed EXCEPT ![k] = @ \/ LastHolder(Persistent(k))]
  /\ UNCHANGED <<edges, made, releasing, dying, completed, flowVars, stopped, outcome>>

(* A source is done writing and calls release_channel. *)
ReleaseSource(s) ==
  /\ Running /\ Built /\ writing[s] = <<>>
  /\ m_ingress[SourcePort(s)] # 0
  /\ releasing' = releasing \cup {SourcePort(s)}
  /\ UNCHANGED <<edgeVars, dying, closed, completed, flowVars, stopped, outcome>>

(* Mutant of Reset: an IngressAdaptor is destroyed without on_complete. *)
ResetSilently(p) ==
  LET n == To(p) IN
  /\ Running /\ p \in releasing
  /\ m_ingress' = [m_ingress EXCEPT ![p] = 0]
  /\ releasing' = releasing \ {p}
  /\ dying' = IF n \in Sinks /\ LastHolder(p) THEN dying \cup {<<n, m_ingress[p]>>} ELSE dying
  /\ UNCHANGED <<edges, made, closed, completed, flowVars, stopped, outcome>>

(* Mutant of Reset: the first holder's release runs the Edge's deleter. *)
ResetFirst(p) ==
  LET n == To(p) IN
  /\ Running /\ p \in releasing
  /\ m_ingress' = [m_ingress EXCEPT ![p] = 0]
  /\ IF n \in Sinks
     THEN /\ dying' = dying \cup {<<n, m_ingress[p]>>}
          /\ releasing' = releasing \ {p}
          /\ UNCHANGED completed
     ELSE /\ completed' = completed \cup {n}
          /\ releasing' = (releasing \ {p}) \cup {q \in PortsOf(n) : m_ingress[q] # 0}
          /\ UNCHANGED dying
  /\ UNCHANGED <<edges, made, closed, flowVars, stopped, outcome>>

(* m_ingress.reset() of port p.  The last holder of an Edge goes on to its   *)
(* deleter.  Every port into an operator holds an IngressAdaptor of its own  *)
(* (channel_ingress assigns a local m_ingress, not the member), so each      *)
(* reset calls on_complete, which releases the operator's outputs.           *)
Reset(p) ==
  LET n == To(p) IN
  /\ Running /\ p \in releasing
  /\ m_ingress' = [m_ingress EXCEPT ![p] = 0]
  /\ IF n \in Sinks
     THEN /\ dying' = IF LastHolder(p) THEN dying \cup {<<n, m_ingress[p]>>} ELSE dying
          /\ releasing' = releasing \ {p}
          /\ UNCHANGED completed
     ELSE /\ completed' = completed \cup {n}
          /\ releasing' = (releasing \ {p}) \cup {q \in PortsOf(n) : m_ingress[q] # 0}
          /\ UNCHANGED dying
  /\ UNCHANGED <<edges, made, closed, flowVars, stopped, outcome>>

(* The deleter of an Edge: close_channel. *)
Deleter(d) ==
  /\ Running /\ d \in dying
  /\ dying' = dying \ {d}
  /\ closed' = [closed EXCEPT ![d[1]] = TRUE]
  /\ UNCHANGED <<edgeVars, releasing, completed, flowVars, stopped, outcome>>
-----------------------------------------------------------------------------
(* A source writes its next element to its SourceChannel. *)
StartWrite(s) ==
  /\ Running /\ Built
  /\ m_ingress[SourcePort(s)] # 0 /\ SourcePort(s) \notin releasing
  /\ writing[s] = <<>> /\ written[s] < MaxWrites
  /\ writing' = [writing EXCEPT ![s] = <<SourcePort(s)>>]
  /\ written' = [written EXCEPT ![s] = @ + 1]
  /\ UNCHANGED <<edgeVars, downVars, received, stopped, outcome>>

(* Mutant of Forward: a broadcast leaves out its first output. *)
ForwardFromSecond(n, choice) ==
  CASE Kind[n] = "muxer"     -> << <<n, 1>> >>
    [] Kind[n] = "broadcast" -> [i \in 1 .. Len(Outputs[n]) - 1 |-> <<n, i + 1>>]
    [] Kind[n] = "router"    -> << <<n, choice>> >>

(* The ports an operator's on_next writes an element to, in order: Broadcast *)
(* writes outputs 2 .. n and then, moving the element, output 1.             *)
Forward(n, choice) ==
  CASE Kind[n] = "muxer"     -> << <<n, 1>> >>
    [] Kind[n] = "broadcast" -> [i \in 1 .. Len(Outputs[n]) |->
                                   <<n, IF i = Len(Outputs[n]) THEN 1 ELSE i + 1>>]
    [] Kind[n] = "router"    -> << <<n, choice>> >>

(* A write ends the process (the CHECK of Broadcast on its outputs 2 .. n,   *)
(* or its access to a cleared vector) or throws (Router after completion).   *)
Breaks(p) ==
  \/ /\ To(p) \in Sinks /\ m_ingress[p] # 0 /\ closed[To(p)]
     /\ p[1] \in Ops /\ Kind[p[1]] = "broadcast" /\ p[2] > 1
  \/ /\ To(p) \in Ops /\ m_ingress[p] # 0
     /\ To(p) \in completed /\ Kind[To(p)] # "muxer"

(* await_write on the next port: into the channel of a sink, through an      *)
(* operator, or into the ether if the operator's port has been released.     *)
WriteStep(s) ==
  /\ Running /\ writing[s] # <<>>
  /\ LET p == Head(writing[s])
         k == To(p) IN
     /\ outcome' = IF Breaks(p) THEN "broken" ELSE outcome
     /\ received' = IF k \in Sinks /\ m_ingress[p] # 0 /\ ~closed[k]
                    THEN [received EXCEPT ![k][s] = @ + 1] ELSE received
     /\ IF k \in Ops /\ m_ingress[p] # 0 /\ ~Breaks(p)
        THEN \E choice \in 1 .. Len(Outputs[k]) :
               writing' = [writing EXCEPT ![s] = Forward(k, choice) \o Tail(@)]
        ELSE writing' = [writing EXCEPT ![s] = Tail(@)]
  /\ UNCHANGED <<edgeVars, downVars, written, stopped>>

(* Runner::stop of the runner that owns sink k: RxSink::on_stop is empty. *)
StopSink(k) ==
  /\ Running /\ k \notin stopped
  /\ stopped' = stopped \cup {k}
  /\ UNCHANGED <<edgeVars, downVars, flowVars, outcome>>

Progress ==
  \/ \E p \in Ports : Reset(p)
  \/ \E d \in dying : Deleter(d)
  \/ \E s \in Sources : WriteStep(s)

Next ==
  \/ Progress
  \/ \E p \in Wired : MakeEdge(p)
  \/ \E k \in Persist : EnablePersistence(k) \/ DisablePersistence(k) \/ StopSink(k)
  \/ \E s \in Sources : StartWrite(s) \/ ReleaseSource(s)

Spec     == Init /\ [][Next]_vars
FairSpec == Spec /\ WF_vars(Progress)
-----------------------------------------------------------------------------
(* channel.hpp: the Ingress a SinkChannel hands out comes with "the contract *)
(* [that] guarantees the channels is open" for as long as it is held.        *)
OpenWhileHeld == \A p \in Ports : m_ingress[p] # 0 /\ To(p) \in Sinks => ~closed[To(p)]

(* Copies[n] is the number of sinks an element written to node n reaches. *)
Copies[n \in Ops \cup Sinks] ==
  IF n \in Sinks THEN 1
  ELSE LET SumFrom[i \in 1 .. Len(Outputs[n]) + 1] ==
             IF i > Len(Outputs[n]) THEN 0 ELSE Copies[Outputs[n][i]] + SumFrom[i + 1]
       IN IF Kind[n] = "broadcast" THEN SumFrom[1] ELSE Copies[Outputs[n][1]]

Arrived(s) ==
  LET SumOver[K \in SUBSET Sinks] ==
        IF K = {} THEN 0
        ELSE LET k == CHOOSE x \in K : TRUE IN received[k][s] + SumOver[K \ {k}]
  IN SumOver[Sinks]

(* Every element a source has finished writing arrived at each sink that its *)
(* operators forward it to, although other sources release and operators     *)
(* complete meanwhile; no operator aborts or throws.                         *)
Delivered ==
  /\ outcome = "ok"
  /\ \A s \in Sources :
       writing[s] = <<>> => Arrived(s) = written[s] * Copies[Outputs[s][1]]

(* Operator::on_complete, "this signifies that the last held IngressAdaptor  *)
(* has been releases": an operator completes after all of its upstreams.     *)
OperatorCompletesLast ==
  \A p \in Ports : To(p) \in completed => m_ingress[p] = 0

(* SinkChannel::enable_persistence, "Invoking stop on the Runner which owns  *)
(* the Runnable explicitly disables persistence".                            *)
StopDisablesPersistence ==
  [][\A k \in Persist : k \in stopped' \ stopped => m_ingress'[Persistent(k)] = 0]_vars

(* Once every source has released its channel, the completion cascades       *)
(* through the operators and closes every sink that is not persistent.       *)
Cascade ==
  (made = Wired /\ \A s \in Sources : m_ingress[SourcePort(s)] = 0)
    ~> (\A k \in Sinks : closed[k] \/ m_ingress[Persistent(k)] # 0)
=============================================================================
