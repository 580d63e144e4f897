------------------------------ MODULE Assembly ------------------------------
(***************************************************************************)
(* Putting a pipeline together: make_segment builds a Definition and       *)
(* registers it under 16-bit ids (CollisionDetector, addresses.cpp),       *)
(* Executor::register_pipeline turns the definitions into addresses,       *)
(* create_segment builds each segment (Builder: ports, nodes and edges,    *)
(* by the user's initializer) and attaches its ports to the manifold of    *)
(* each port name, and the segment is launched.                            *)
(*                                                                         *)
(* The user may catch a thrown exception and go on calling; a failed CHECK *)
(* or LOG(FATAL) ends the process ("fatal").  Types are the element types  *)
(* of ports, nodes and edges.                                              *)
(***************************************************************************)
EXTENDS Integers, Sequences, FiniteSets, Functions, SequencesExt

CONSTANTS
    Definitions,  \* records [name, ingress, egress]: the ports as sequences of [name, type]
    Hash,         \* 16-bit hash of every name
    Bits,         \* width of an id and of a rank (16 in the code)
    NodeNames,    \* names the initializer gives to its objects
    Kinds,        \* records [source, sink]: a type, or "none" for neither
    TypeInfo,     \* per type: [bits, signed, float, convertible] as the C++ traits have it
    Converters,   \* pairs of types whose converter is registered before main
    UserConverters, \* pairs the user registers a converter for
    MaxCalls      \* bound: calls the initializers make altogether

VARIABLES
    segmentNames, portNames,  \* m_hashes of m_segment_hasher and m_port_hasher
    segments,                 \* Pipeline::m_segments: id to definition
    manager,                  \* m_pipeline_manager: set yet?, and the addresses to create
    current,                  \* the address being created, or NoAddress
    builder,                  \* the Builder of the current segment
    instances,                \* created segments: address to its builder
    manifolds,                \* Instance::m_manifolds: port name to element type
    converters,               \* EdgeRegistry::registered_converters
    calls, fatal

registry == <<segmentNames, portNames, segments>>
instanceVars == <<instances, manifolds>>
vars == <<registry, manager, current, builder, instanceVars, converters, calls, fatal>>

None == "none"
NoAddress == -1
EmptyFn == [x \in {} |-> 0]
Extend(fn, k, v) == [x \in DOMAIN fn \cup {k} |-> IF x = k THEN v ELSE fn[x]]
Names(ports) == {p.name : p \in ToSet(ports)}
NewBuilder == [ports |-> EmptyFn, objects |-> EmptyFn, nodes |-> {}, edges |-> {}, held |-> {}, counters |-> {}, launched |-> FALSE]

Init ==
    /\ segmentNames = EmptyFn /\ portNames = EmptyFn /\ segments = EmptyFn
    /\ manager = [registered |-> FALSE, addresses |-> {}] /\ current = NoAddress /\ builder = NewBuilder
    /\ instances = EmptyFn /\ manifolds = EmptyFn
    /\ converters = Converters /\ calls = 0 /\ fatal = None

Live == fatal = None

(***************************************************************************)
(* Ids and addresses.                                                      *)
(***************************************************************************)
W == 2 ^ Bits

(* Mutant of segment_address_encode: the rank in the high half. *)
EncodeSwapped(id, rank) == ((rank * W) + id) % (W * W)

\* segment_address_encode, segment_address_decode: id << 16 | rank in 32 bits.
segment_address_encode(id, rank) == ((id * W) + rank) % (W * W)
segment_address_decode(address) == <<(address \div W) % W, address % W>>

\* CollisionDetector::register_name: refused when another name has the hash.
RegisterOk(hashes, name) == Hash[name] \in DOMAIN hashes => hashes[Hash[name]] = name

(* Mutant of RegisterName: the second owner of a hash is not noticed. *)
RegisterNameUnchecked(hashes, name) == [ok |-> TRUE, hashes |-> Extend(hashes, Hash[name], name)]

RegisterName(hashes, name) ==
    IF RegisterOk(hashes, name)
    THEN [ok |-> TRUE, hashes |-> Extend(hashes, Hash[name], name)]
    ELSE [ok |-> FALSE, hashes |-> hashes]

\* The names of a segment's ports, one after the other, up to the first refusal.
RegisterNames(hashes, names) ==
    FoldLeft(LAMBDA acc, n : IF acc.ok THEN RegisterName(acc.hashes, n) ELSE acc,
             [ok |-> TRUE, hashes |-> hashes], names)

\* Ports' constructor (names unique) and Definition::validate_ports (unique over
\* both directions, and without hash collisions).
PortsOk(ports) == Cardinality(Names(ports)) = Len(ports)
ValidatePorts(d) ==
    LET names == Names(d.ingress) \cup Names(d.egress)
    IN  /\ Cardinality(names) = Len(d.ingress) + Len(d.egress)
        /\ Cardinality({Hash[n] : n \in names}) = Cardinality(names)

\* Definition::create.
CreateOk(d) == PortsOk(d.ingress) /\ PortsOk(d.egress) /\ ValidatePorts(d)

\* Pipeline::add_segment: the segment's name is registered first, then its ports;
\* names registered before a refusal stay registered.
AddSegment(d) ==
    LET id    == Hash[d.name]
        seg   == RegisterName(segmentNames, d.name)
        ports == RegisterNames(portNames, [i \in DOMAIN (d.ingress \o d.egress) |-> (d.ingress \o d.egress)[i].name])
    IN  IF ~seg.ok THEN UNCHANGED registry
        ELSE /\ segmentNames' = seg.hashes
             /\ IF id \in DOMAIN segments THEN UNCHANGED <<portNames, segments>>
                ELSE /\ portNames' = ports.hashes
                     /\ segments' = IF ports.ok THEN Extend(segments, id, d) ELSE segments

\* Pipeline::make_segment.
MakeSegment(d) ==
    /\ Live /\ ~manager.registered
    /\ IF CreateOk(d)
       THEN AddSegment(d) ELSE UNCHANGED registry
    /\ UNCHANGED <<manager, current, builder, instanceVars, converters, calls, fatal>>

\* EdgeConnector::register_converter, by the user, before the pipeline starts.
RegisterConverter(s, t) ==
    /\ Live /\ ~manager.registered
    /\ <<s, t>> \notin converters
    /\ converters' = converters \cup {<<s, t>>}
    /\ UNCHANGED <<registry, manager, current, builder, instanceVars, calls, fatal>>

\* Executor::register_pipeline: every segment gets rank 0 on partition 0.
RegisterPipeline ==
    /\ Live /\ ~manager.registered
    /\ manager' = [registered |-> TRUE, addresses |-> {segment_address_encode(id, 0) : id \in DOMAIN segments}]
    /\ UNCHANGED <<registry, current, builder, instanceVars, converters, calls, fatal>>

(***************************************************************************)
(* create_segment: Builder's constructor, the user's initializer, then the *)
(* manifolds.                                                              *)
(***************************************************************************)
FindSegment(address) == segments[segment_address_decode(address)[1]]

PortKind(p, d) == IF p \in ToSet(d.ingress) THEN [source |-> p.type, sink |-> None]
                                            ELSE [source |-> None, sink |-> p.type]
Ports(d) == ToSet(d.ingress) \cup ToSet(d.egress)

\* An IngressPort is offered to the initializer as a source, an EgressPort as a sink.
BuilderConstructor(d) ==
    LET objs == [n \in Names(d.ingress \o d.egress) |-> PortKind(CHOOSE p \in Ports(d) : p.name = n, d)]
    IN  [NewBuilder EXCEPT !.ports = objs, !.objects = objs]

StartCreate(a) ==
    /\ Live /\ manager.registered /\ current = NoAddress
    /\ a \in manager.addresses \ DOMAIN instances
    /\ current' = a
    /\ IF segment_address_decode(a)[1] \in DOMAIN segments
       THEN builder' = BuilderConstructor(FindSegment(a)) /\ UNCHANGED fatal
       ELSE fatal' = "find_segment" /\ UNCHANGED builder
    /\ UNCHANGED <<registry, manager, instanceVars, converters, calls>>

Call(b) ==
    /\ Live /\ current # NoAddress /\ calls < MaxCalls
    /\ builder' = b
    /\ calls' = calls + 1
    /\ UNCHANGED <<registry, manager, current, instanceVars, converters>>

HasObject(n) == n \in DOMAIN builder.objects
AddObject(n, k) == [builder EXCEPT !.objects = Extend(@, n, k), !.nodes = @ \cup {n}, !.held = @ \cup {n}]

(* Mutant of MakeObject: the name of an existing object is taken over. *)
MakeObjectOverwrites(n, k) == Call(AddObject(n, k)) /\ UNCHANGED fatal

\* make_object, behind make_source, make_sink, make_node: refused when the name
\* is taken, by a node or by a port; else a launchable and an object.
MakeObject(n, k) == Call(IF HasObject(n) THEN builder ELSE AddObject(n, k)) /\ UNCHANGED fatal

\* get_ingress<T>, get_egress<T>: refused when there is no such port, or when its
\* type is not T.
GetIngress(n, t) == n \in DOMAIN builder.ports /\ builder.ports[n].source = t
GetEgress(n, t) == n \in DOMAIN builder.ports /\ builder.ports[n].sink = t
GetPort(n, t) ==
    /\ Call(IF GetIngress(n, t) \/ GetEgress(n, t) THEN [builder EXCEPT !.held = @ \cup {n}] ELSE builder)
    /\ UNCHANGED fatal

\* add_throughput_counter: a CHECK that the object is a Runnable, which a port is
\* not, then a counter under the object's name.
AddThroughputCounter(n) ==
    /\ n \in builder.held /\ builder.objects[n].source # None
    /\ IF n \in builder.nodes
       THEN Call([builder EXCEPT !.counters = @ \cup {n}]) /\ UNCHANGED fatal
       ELSE Call(builder) /\ fatal' = "not a runnable"

\* The traits of EdgeBuilder::make_edge.
IsConvertable(s, t) == t \in TypeInfo[s].convertible

(* Mutant of RequiresNarrowing: losing the sign is not narrowing. *)
RequiresNarrowingUnsigned(s, t) ==
    /\ IsConvertable(s, t)
    /\ LET S == TypeInfo[s]  T == TypeInfo[t]
       IN  \/ S.bits > T.bits
           \/ S.float /\ ~T.float
           \/ ~S.signed /\ T.signed /\ S.bits = T.bits

RequiresNarrowing(s, t) ==
    /\ IsConvertable(s, t)
    /\ LET S == TypeInfo[s]  T == TypeInfo[t]
       IN  \/ S.bits > T.bits
           \/ S.float /\ ~T.float
           \/ S.signed /\ ~T.signed
           \/ ~S.signed /\ T.signed /\ S.bits = T.bits

\* What make_edge puts between the two: nothing, a conversion, one it warns
\* about, or LOG(FATAL).
Conversion(s, t) == IF s = t THEN "identity"
                    ELSE IF ~IsConvertable(s, t) THEN "fatal"
                    ELSE IF RequiresNarrowing(s, t) THEN "narrowing" ELSE "implicit"

Edge(m, n, how) == [from |-> m, to |-> n, st |-> builder.objects[m].source,
                    tt |-> builder.objects[n].sink, how |-> how]
WithEdge(e) == [builder EXCEPT !.edges = @ \cup {e}]

\* EdgeBuilder::make_edge, for types the compiler has accepted.
EdgeBuilderMakeEdge(m, n) ==
    \E how \in {Conversion(builder.objects[m].source, builder.objects[n].sink)} :
        IF how = "fatal" THEN Call(builder) /\ fatal' = "no edge between these types"
        ELSE Call(WithEdge(Edge(m, n, how))) /\ UNCHANGED fatal

SourceBase(n) == builder.objects[n].source # None
SinkBase(n) == builder.objects[n].sink # None

\* make_edge between two objects the initializer holds.
MakeEdge(m, n) ==
    /\ {m, n} \subseteq builder.held
    /\ SourceBase(m) /\ SinkBase(n)
    /\ EdgeBuilderMakeEdge(m, n)

SinkTyped(n, t) == SinkBase(n) /\ builder.objects[n].sink = t

(* Mutant of SourceTyped: the requested type is not compared with the object's. *)
SourceTypedAny(n, s) == SourceBase(n)

SourceTyped(n, s) == SourceBase(n) /\ builder.objects[n].source = s

\* make_dynamic_edge by name: find_object, source_base and sink_base, then the
\* casts to the types the caller names; each throws.  The edge is one of the
\* types named.
MakeDynamicEdge(m, n, s, t) ==
    IF ~(HasObject(m) /\ HasObject(n) /\ SourceTyped(m, s) /\ SinkTyped(n, t))
    THEN Call(builder) /\ UNCHANGED fatal
    ELSE IF Conversion(s, t) = "fatal" THEN Call(builder) /\ fatal' = "no edge between these types"
    ELSE Call(WithEdge([Edge(m, n, Conversion(s, t)) EXCEPT !.st = s, !.tt = t])) /\ UNCHANGED fatal

FindConverter(s, t) == <<s, t>> \in converters

\* make_edge_typeless: the registered converter, or a thrown runtime_error.
MakeEdgeTypeless(m, n) ==
    /\ HasObject(m) /\ HasObject(n) /\ SourceBase(m) /\ SinkBase(n)
    /\ Call(IF FindConverter(builder.objects[m].source, builder.objects[n].sink)
            THEN WithEdge(Edge(m, n, "converter")) ELSE builder)
    /\ UNCHANGED fatal

CreateManifold(ms, p) == Extend(ms, p.name, p.type)

\* The rest of create_segment: the manifold of each port, egress ports first, is
\* found or made with this port's type, and the port attached to it.
Manifolds(d) ==
    FoldLeft(LAMBDA ms, p : IF p.name \in DOMAIN ms THEN ms ELSE CreateManifold(ms, p),
             manifolds, d.egress \o d.ingress)

EndCreate ==
    /\ Live /\ current # NoAddress
    /\ manifolds' = Manifolds(FindSegment(current))
    /\ instances' = Extend(instances, current, builder)
    /\ current' = NoAddress
    /\ builder' = NewBuilder
    /\ UNCHANGED <<registry, manager, converters, calls, fatal>>

\* The initializer lets an exception out: the Builder, and the segment, are gone.
InitializerThrows ==
    /\ Live /\ current # NoAddress /\ calls > 0
    /\ manager' = [manager EXCEPT !.addresses = @ \ {current}]
    /\ current' = NoAddress
    /\ builder' = NewBuilder
    /\ UNCHANGED <<registry, instanceVars, converters, calls, fatal>>

\* Instance::update: the manifolds attach their ports, with a CHECK on the cast to
\* the manifold's type, and the segment's nodes and ports are moved to launchers.
Launch(a) ==
    /\ Live /\ manager.registered /\ manager.addresses \subseteq DOMAIN instances
    /\ ~instances[a].launched
    /\ IF \A p \in Ports(FindSegment(a)) : manifolds[p.name] = p.type
       THEN /\ instances' = [instances EXCEPT ![a].launched = TRUE]
            /\ UNCHANGED fatal
       ELSE fatal' = "port type" /\ UNCHANGED instances
    /\ UNCHANGED <<registry, manager, current, builder, manifolds, converters, calls>>

\* Object::object, called by whoever kept an object past the launch: a node was
\* moved and the call throws; the get_object of a port has a CHECK.
UseObject(a, n) ==
    /\ Live /\ a \in DOMAIN instances /\ instances[a].launched
    /\ n \in DOMAIN instances[a].ports
    /\ fatal' = "object"
    /\ UNCHANGED <<registry, manager, current, builder, instanceVars, converters, calls>>

Next ==
    \/ \E d \in Definitions : MakeSegment(d)
    \/ \E c \in UserConverters : RegisterConverter(c[1], c[2])
    \/ RegisterPipeline
    \/ \E a \in 0 .. (W * W - 1) : StartCreate(a)
    \/ \E n \in NodeNames : \E k \in Kinds : MakeObject(n, k)
    \/ \E m, n \in DOMAIN builder.objects :
          MakeEdge(m, n) \/ MakeEdgeTypeless(m, n)
    \/ \E n \in NodeNames : \E t \in DOMAIN TypeInfo : GetPort(n, t)
    \/ \E n \in DOMAIN builder.objects : AddThroughputCounter(n)
    \/ \E m, n \in NodeNames : \E s, t \in DOMAIN TypeInfo : MakeDynamicEdge(m, n, s, t)
    \/ EndCreate \/ InitializerThrows
    \/ \E a \in DOMAIN instances : Launch(a)
    \/ \E a \in DOMAIN instances : \E n \in DOMAIN instances[a].ports : UseObject(a, n)

Spec == Init /\ [][Next]_vars

-----------------------------------------------------------------------------
AllPorts == UNION {Ports(segments[id]) : id \in DOMAIN segments}

\* A 16-bit id names one thing: a registered segment is found again under every
\* address made of its id, and two port names of the pipeline never share an id,
\* whatever was refused on the way (add_segment may fail half way through).
IdsIdentify ==
    /\ \A id \in DOMAIN segments :
         /\ segmentNames[id] = segments[id].name
         /\ \A rank \in 0 .. (W - 1) :
              segment_address_decode(segment_address_encode(id, rank)) = <<id, rank>>
         /\ Names(segments[id].ingress \o segments[id].egress) \subseteq Range(portNames)
    /\ \A p, q \in AllPorts : Hash[p.name] = Hash[q.name] => p.name = q.name

\* A pipeline that was accepted aborts for these reasons only: two segments give
\* one port name different types, the initializer joins types that no conversion
\* joins, or a port is used as a node.  None of them is refused earlier.
AbortsExplained ==
    /\ fatal = "port type" => \E p, q \in AllPorts : p.name = q.name /\ p.type # q.type
    /\ fatal \in {None, "port type", "no edge between these types",
                 "not a runnable", "object"}

\* What a Builder holds stays consistent through refused calls: ports and
\* launchables are the named objects, each name once, and every edge runs from a
\* source to a sink of the types it was made for.
BuilderSound ==
    \A b \in {builder} \cup Range(instances) :
        /\ DOMAIN b.objects = DOMAIN b.ports \cup b.nodes
        /\ DOMAIN b.ports \cap b.nodes = {}
        /\ \A n \in DOMAIN b.ports : b.objects[n] = b.ports[n]
        /\ \A e \in b.edges : /\ b.objects[e.from].source = e.st
                              /\ b.objects[e.to].sink = e.tt
                              /\ e.how = "converter" => <<e.st, e.tt>> \in converters

\* Values of a type, as far as conversions tell them apart: a float of n bits has
\* n \div 2 bits of mantissa and holds larger numbers by their leading bits.
Values(t) == LET T == TypeInfo[t]
                 n == IF T.float THEN T.bits \div 2 ELSE IF T.signed THEN T.bits - 1 ELSE T.bits
             IN  (IF T.signed THEN -(2 ^ n) ELSE 0) .. (2 ^ n - 1)

\* edge_builder.hpp:46 "If its convertable but may result in loss of data, it
\* requires narrowing": a conversion made without the warning keeps every value.
SilentIsLossless ==
    \A b \in {builder} \cup Range(instances) : \A e \in b.edges :
        e.how = "implicit" => Values(e.st) \subseteq Values(e.tt)

\* object.hpp:187-194: using an object of a running pipeline throws.
ObjectUnavailable == fatal # "object"
=============================================================================
