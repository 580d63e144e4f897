------------------------------ MODULE PyStream ------------------------------
(***************************************************************************)
(* A Python stream (python/srf/_pysrf): a source driven by a Python        *)
(* iterator, a node made of Python operators, a sink of Python callbacks,  *)
(* the edges that convert between C++ and Python, and the holders that let *)
(* an object travel without the GIL.                                       *)
(*                                                                         *)
(* A Python object is a sequence of numbers: an atom has one element, a    *)
(* list or a tuple the elements of its parts.  A channel is its content,   *)
(* its capacity is Cap.  Each callback takes the GIL and gives it back in  *)
(* a later step.                                                           *)
(***************************************************************************)
EXTENDS Integers, Sequences, SequencesExt, FiniteSets

CONSTANTS
    Setups,   \* the streams considered: a source, its items, operators and edges
    Cap       \* capacity of the two channels

VARIABLES
    s,          \* the stream
    gil,        \* owner of the GIL, or "free"
    pe,         \* per progress engine of the source: where it is
    held,       \* per progress engine: the value being sent
    pos,        \* items taken from the iterable (shared only by one engine)
    iterator,   \* the iterator overload still holds its iterator
    subscribed, \* the source is subscribed
    toNode, nodeClosed,   \* channel between source and node
    node,       \* the node: "new", "subscribing", "open", "done" or "failed"
    nodeIn,     \* the node has a callback running in Python
    work,       \* its pending calls, innermost first
    memory,     \* per operator: what pairwise and to_list remember
    toSink, sinkClosed,   \* channel between node and sink
    sink,       \* the sink: "read", "call", "done" or "completed"
    unsafe,     \* a reference was dropped without the GIL
    terminated, \* an error met an observer without an error handler
    sent, received        \* history: values written by the source, values sunk

srcVars == <<pe, held, pos, iterator, toNode, nodeClosed, sent>>
nodeVars == <<node, nodeIn, work, memory, toSink, sinkClosed, unsafe, terminated>>
sinkVars == <<sink, received>>
vars == <<s, gil, subscribed, srcVars, nodeVars, sinkVars>>

Engines == s.pes
None == <<-1>>       \* Python's None
Fails == 0           \* an item at which the user's code raises

---------------------------------------------------------------------------
(* Edges: the conversions an element passes on its way between two types.  *)
(* "py" is PyHolder, "num" a C++ type with a registered converter, "cls"   *)
(* and "cls2" C++ classes known to pybind11, "raw" one that is not.        *)

(* The converters the segment module registers when it is imported. *)
HasConverter(a, b) == {a, b} = {"py", "num"}

PybindKnows(t) == t \in {"cls", "cls2"}

(* PythonSinkTypeErased::ingress_for_source_type: a cast without converter. *)
SinkCasts(a, b) == a = "py" /\ PybindKnows(b)

(* Mutant of IngressAdaptor: a compound edge without its second half. *)
IngressAdaptorHalf(a, b) ==
    IF HasConverter(a, b) \/ SinkCasts(a, b) \/ SinkCasts(b, a)
    THEN << <<a, b>> >>
    ELSE IF a = b THEN << <<a, b>> >>
    ELSE IF PybindKnows(a) /\ PybindKnows(b) THEN << <<a, "py">> >> ELSE <<>>

(* PythonSourceTypeErased::ingress_adaptor_for_sink: the hops of the edge; *)
(* none when the base class finds no converter and throws.                 *)
IngressAdaptor(a, b) ==
    IF HasConverter(a, b) \/ SinkCasts(a, b) \/ SinkCasts(b, a)
    THEN << <<a, b>> >>
    ELSE IF a = b THEN << <<a, b>> >>
    ELSE IF PybindKnows(a) /\ PybindKnows(b) THEN << <<a, "py">>, <<"py", b>> >>
    ELSE <<>>

(* A hop from or to Python needs the GIL; casting to C++ may fail. *)
HopNeedsGil(h) == h[1] # h[2]
EdgeNeedsGil(a, b) == \E i \in DOMAIN IngressAdaptor(a, b) : HopNeedsGil(IngressAdaptor(a, b)[i])
CastFails(a, b, v) == b = "num" /\ a = "py" /\ Len(v) # 1

---------------------------------------------------------------------------
(* Operators *)

(* The callback needs the GIL for this call. *)
NeedsGil(op, w, mem) ==
    CASE w.kind = "ret"  -> TRUE
      [] w.kind = "next" -> op \in {"map", "filter", "flatten", "observer"} \/ (op = "pairwise" /\ mem # <<>>)
      [] w.kind = "done" -> op \in {"finally", "observer"} \/ (op = "to_list" /\ mem # <<>>)

MapFn(v) == [i \in 1 .. Len(v) |-> v[i] + 10]
FilterFn(v) == v[1] % 2 = 1

(* OperatorsProxy::filter, flatten, map, on_completed, pairwise and to_list:*)
(* the values passed on for the value v, or for the end of the stream.     *)
Filter(v) == IF FilterFn(v) THEN <<v>> ELSE <<>>
Flatten(v) == [i \in 1 .. Len(v) |-> <<v[i]>>]
Pairwise(v, mem) == IF mem = <<>> THEN <<>> ELSE << mem[1] \o v >>
ToListDone(mem) == IF mem = <<>> THEN <<>> ELSE << FlattenSeq(mem) >>
OnCompletedDone == IF s.final = None THEN <<>> ELSE <<s.final>>

OnNext(op, v, mem) ==
    CASE op = "map" -> <<MapFn(v)>>
      [] op = "filter" -> Filter(v)
      [] op = "flatten" -> Flatten(v)
      [] op = "pairwise" -> Pairwise(v, mem)
      [] op = "to_list" -> <<>>
      [] op \in {"finally", "observer"} -> <<v>>

Remember(op, v, mem) ==
    CASE op = "pairwise" -> <<v>> [] op = "to_list" -> Append(mem, v) [] OTHER -> mem

OnDone(op, mem) ==
    CASE op = "to_list" -> ToListDone(mem) [] op = "finally" -> OnCompletedDone [] OTHER -> <<>>

(* ObservableProxy::pipe refuses an empty list and more than ten operators. *)
Pipe(ops) == Len(ops) \in 1 .. 10

Init ==
    /\ s \in {x \in Setups : Pipe(x.chain)
                /\ IngressAdaptor(x.from, "py") # <<>> /\ IngressAdaptor("py", x.to) # <<>>}
    /\ gil = "free"
    /\ pe = [p \in s.pes |-> "start"] /\ held = [p \in s.pes |-> None]
    /\ pos = [p \in s.pes |-> 0] /\ iterator = TRUE /\ subscribed = TRUE
    /\ toNode = <<>> /\ nodeClosed = FALSE /\ sent = <<>>
    /\ node = "new" /\ nodeIn = FALSE /\ work = <<>> /\ memory = [i \in DOMAIN s.chain |-> <<>>]
    /\ toSink = <<>> /\ sinkClosed = FALSE /\ unsafe = FALSE /\ terminated = FALSE
    /\ sink = "read" /\ received = <<>>

---------------------------------------------------------------------------
(* build_source: one progress engine *)

(* Mutant of TakeIterator: the moved iterator is used again. *)
TakeIteratorAgain == TRUE

(* The iterator of the iterator overload can be moved out only once. *)
TakeIterator == s.kind # "iterator" \/ iterator

SourceBegin(p) ==
    /\ pe[p] = "start" /\ gil = "free"
    /\ iterator' = (iterator /\ s.kind # "iterator")
    /\ IF TakeIterator THEN gil' = p /\ pe' = [pe EXCEPT ![p] = "iter"]
       ELSE pe' = [pe EXCEPT ![p] = "failed"] /\ UNCHANGED gil
    /\ UNCHANGED <<s, subscribed, held, pos, toNode, nodeClosed, sent, nodeVars, sinkVars>>

(* ++it fetches the item after the one at hand: an exception of either    *)
(* ends the loop before the one at hand is sent.                           *)
IteratorRaises(k) == \E i \in {k, k + 1} \cap DOMAIN s.items : s.items[i][1] = Fails

(* The loop's head: the end, an exception of the iterator, or the next     *)
(* value; in each case the GIL is released before the subscriber is called.*)
SourceNext(p) ==
    /\ pe[p] = "iter" /\ gil = p
    /\ gil' = "free"
    /\ IF pos[p] = Len(s.items) THEN pe' = [pe EXCEPT ![p] = "done"] /\ UNCHANGED <<pos, held>>
       ELSE IF IteratorRaises(pos[p] + 1)
       THEN pe' = [pe EXCEPT ![p] = "failed"] /\ UNCHANGED <<pos, held>>
       ELSE pe' = [pe EXCEPT ![p] = "send"] /\ held' = [held EXCEPT ![p] = s.items[pos[p] + 1]]
            /\ pos' = [pos EXCEPT ![p] = @ + 1]
    /\ UNCHANGED <<s, subscribed, iterator, toNode, nodeClosed, sent, nodeVars, sinkVars>>

(* Only a subscribed source sends; its loop goes on either way.  The edge  *)
(* takes the GIL to convert, ...                                           *)
SourceSend(p) ==
    /\ pe[p] = "send"
    /\ CASE ~subscribed -> pe' = [pe EXCEPT ![p] = "back"] /\ held' = [held EXCEPT ![p] = None]
                           /\ UNCHANGED gil
         [] subscribed /\ EdgeNeedsGil(s.from, "py") ->
               gil = "free" /\ gil' = p /\ pe' = [pe EXCEPT ![p] = "cast"] /\ UNCHANGED held
         [] OTHER -> pe' = [pe EXCEPT ![p] = "write"] /\ UNCHANGED <<gil, held>>
    /\ UNCHANGED <<s, subscribed, pos, iterator, toNode, nodeClosed, sent, nodeVars, sinkVars>>

(* Mutant of SourceCast: the GIL's scope includes await_write. *)
SourceCastHoldingGil(p) ==
    /\ pe[p] = "cast"
    /\ pe' = [pe EXCEPT ![p] = "write"]
    /\ UNCHANGED <<s, gil, subscribed, held, pos, iterator, toNode, nodeClosed, sent, nodeVars, sinkVars>>

(* ... gives it back at the end of a scope of its own ... *)
SourceCast(p) ==
    /\ pe[p] = "cast"
    /\ gil' = "free" /\ pe' = [pe EXCEPT ![p] = "write"]
    /\ UNCHANGED <<s, subscribed, held, pos, iterator, toNode, nodeClosed, sent, nodeVars, sinkVars>>

(* ... and only then writes. *)
SourceWrite(p) ==
    /\ pe[p] = "write" /\ Len(toNode) < Cap
    /\ toNode' = Append(toNode, held[p]) /\ sent' = Append(sent, held[p])
    /\ pe' = [pe EXCEPT ![p] = "back"] /\ held' = [held EXCEPT ![p] = None]
    /\ UNCHANGED <<s, gil, subscribed, pos, iterator, nodeClosed, nodeVars, sinkVars>>

SourceBack(p) ==
    /\ pe[p] = "back" /\ gil \in {"free", p}
    /\ gil' = p /\ pe' = [pe EXCEPT ![p] = "iter"]
    /\ UNCHANGED <<s, subscribed, held, pos, iterator, toNode, nodeClosed, sent, nodeVars, sinkVars>>

(* RxSource::on_shutdown_critical_section, after the engines' barrier. *)
SourceShutdown ==
    /\ ~nodeClosed /\ \A p \in Engines : pe[p] \in {"done", "failed"}
    /\ nodeClosed' = TRUE
    /\ UNCHANGED <<s, gil, subscribed, pe, held, pos, iterator, toNode, sent, nodeVars, sinkVars>>

---------------------------------------------------------------------------
(* The node: RxSinkBase's loop, the operators, RxSourceBase's observer *)

Call(i, kind, v) == [op |-> i, kind |-> kind, v |-> v]
Idle == work = <<>> /\ ~nodeIn

(* make_node_full: the Python function is called with the GIL ... *)
NodeSubscribe ==
    /\ node = "new" /\ gil = "free"
    /\ gil' = "node" /\ node' = "subscribing"
    /\ UNCHANGED <<s, subscribed, srcVars, nodeIn, work, memory, toSink, sinkClosed, unsafe,
                   terminated, sinkVars>>

(* ... and its input.subscribe(output) releases it for the whole stream. *)
NodeSubscribed ==
    /\ node = "subscribing"
    /\ gil' = "free" /\ node' = "open"
    /\ UNCHANGED <<s, subscribed, srcVars, nodeIn, work, memory, toSink, sinkClosed, unsafe,
                   terminated, sinkVars>>

NodeRead ==
    /\ node = "open" /\ Idle /\ toNode # <<>>
    /\ work' = << Call(1, "next", Head(toNode)) >> /\ toNode' = Tail(toNode)
    /\ UNCHANGED <<s, gil, subscribed, pe, held, pos, iterator, nodeClosed, sent, node, nodeIn,
                   memory, toSink, sinkClosed, unsafe, terminated, sinkVars>>

NodeCompleted ==
    /\ node = "open" /\ Idle /\ toNode = <<>> /\ nodeClosed
    /\ work' = << Call(1, "done", None) >>
    /\ UNCHANGED <<s, gil, subscribed, srcVars, node, nodeIn, memory, toSink, sinkClosed, unsafe,
                   terminated, sinkVars>>

Top == work[1]
InOperator == node = "open" /\ work # <<>> /\ Top.op <= Len(s.chain)

(* gil_scoped_acquire in an operator's callback. *)
NodeEnter ==
    /\ InOperator /\ ~nodeIn /\ gil = "free"
    /\ NeedsGil(s.chain[Top.op], Top, memory[Top.op])
    /\ gil' = "node" /\ nodeIn' = TRUE
    /\ UNCHANGED <<s, subscribed, srcVars, node, work, memory, toSink, sinkClosed, unsafe,
                   terminated, sinkVars>>

Raises(op, v) == op \in {"map", "filter"} /\ v[1] = s.bad

(* An exception goes to the on_error of the operators below: the observer  *)
(* of on_completed has none, the others hand it to the runnable's context. *)
NodeRaises ==
    /\ IF \E j \in Top.op + 1 .. Len(s.chain) : s.chain[j] = "finally"
       THEN terminated' = TRUE ELSE UNCHANGED terminated
    /\ node' = "failed" /\ work' = <<>> /\ UNCHANGED <<memory, unsafe>>

(* What the call leaves to do: values, the end of the stream, and for an   *)
(* observer the return into Python.                                        *)
Deeper(i, vs, last) ==
    [k \in DOMAIN vs |-> Call(i + 1, "next", vs[k])] \o last

(* The call itself; the GIL is free when it is over. *)
NodeApply ==
    /\ InOperator
    /\ nodeIn = NeedsGil(s.chain[Top.op], Top, memory[Top.op])
    /\ nodeIn' = FALSE /\ gil' = IF nodeIn THEN "free" ELSE gil
    /\ LET i == Top.op
           op == s.chain[i]
       IN  CASE Top.kind = "next" /\ Raises(op, Top.v) -> NodeRaises
             [] Top.kind = "next" /\ ~Raises(op, Top.v) ->
                /\ work' = Deeper(i, OnNext(op, Top.v, memory[i]),
                                  IF op = "observer" THEN << Call(i, "ret", None) >> ELSE <<>>)
                           \o Tail(work)
                /\ memory' = [memory EXCEPT ![i] = Remember(op, Top.v, @)]
                /\ UNCHANGED <<node, unsafe, terminated>>
             [] Top.kind = "done" ->
                /\ work' = Deeper(i, OnDone(op, memory[i]), << Call(i + 1, "done", None) >>) \o Tail(work)
                /\ memory' = [memory EXCEPT ![i] = <<>>]
                /\ unsafe' = (unsafe \/ (op = "finally" /\ s.final = None))
                /\ UNCHANGED <<node, terminated>>
             [] Top.kind = "ret" -> work' = Tail(work) /\ UNCHANGED <<node, memory, unsafe, terminated>>
    /\ UNCHANGED <<s, subscribed, srcVars, toSink, sinkClosed, sinkVars>>

(* The last operator's values pass the edge to the sink: it takes the GIL, *)
(* casts, which may throw, gives the GIL back and writes.                  *)
AtEdge(kind) == node = "open" /\ work # <<>> /\ Top.op > Len(s.chain) /\ Top.kind = kind

NodeConvert ==
    /\ AtEdge("next") /\ ~nodeIn /\ EdgeNeedsGil("py", s.to) /\ gil = "free"
    /\ gil' = "node" /\ nodeIn' = TRUE
    /\ UNCHANGED <<s, subscribed, srcVars, node, work, memory, toSink, sinkClosed, unsafe,
                   terminated, sinkVars>>

NodeCast ==
    /\ AtEdge("next") /\ nodeIn
    /\ gil' = "free" /\ nodeIn' = FALSE
    /\ IF CastFails("py", s.to, Top.v) THEN node' = "failed" /\ work' = <<>>
       ELSE work' = [work EXCEPT ![1].kind = "write"] /\ UNCHANGED node
    /\ UNCHANGED <<s, subscribed, srcVars, memory, toSink, sinkClosed, unsafe, terminated, sinkVars>>

NodeWrite ==
    /\ AtEdge("write") \/ (AtEdge("next") /\ ~EdgeNeedsGil("py", s.to))
    /\ Len(toSink) < Cap /\ toSink' = Append(toSink, Top.v)
    /\ work' = Tail(work)
    /\ UNCHANGED <<s, gil, subscribed, srcVars, node, nodeIn, memory, sinkClosed, unsafe,
                   terminated, sinkVars>>

NodeDone ==
    /\ AtEdge("done")
    /\ node' = "done" /\ work' = Tail(work)
    /\ UNCHANGED <<s, gil, subscribed, srcVars, nodeIn, memory, toSink, sinkClosed, unsafe,
                   terminated, sinkVars>>

(* Mutant of NodeShutdown: the channel is closed after a success only. *)
NodeShutdownOnSuccess ==
    /\ node = "done" /\ work = <<>> /\ ~sinkClosed /\ gil = "free"
    /\ sinkClosed' = TRUE
    /\ UNCHANGED <<s, gil, subscribed, srcVars, node, nodeIn, work, memory, toSink, unsafe,
                   terminated, sinkVars>>

(* subscribe() returns through Python, which takes the GIL once more; then *)
(* RxNode closes its downstream, with or without an error.  A failed node  *)
(* no longer reads: a source that writes to a full channel stays there     *)
(* (see Segment).                                                          *)
NodeShutdown ==
    /\ node \in {"done", "failed"} /\ work = <<>> /\ ~sinkClosed /\ gil = "free"
    /\ sinkClosed' = TRUE
    /\ UNCHANGED <<s, gil, subscribed, srcVars, node, nodeIn, work, memory, toSink, unsafe,
                   terminated, sinkVars>>

---------------------------------------------------------------------------
(* make_sink: on_next and on_completed take the GIL *)

SinkEnter ==
    /\ sink = "read" /\ gil = "free" /\ (toSink # <<>> \/ sinkClosed)
    /\ gil' = "sink" /\ sink' = "call"
    /\ UNCHANGED <<s, subscribed, srcVars, nodeVars, received>>

SinkLeave ==
    /\ sink = "call" /\ gil' = "free"
    /\ IF toSink # <<>>
       THEN /\ received' = Append(received, Head(toSink)) /\ toSink' = Tail(toSink)
            /\ sink' = "read"
       ELSE sink' = "completed" /\ UNCHANGED <<received, toSink>>
    /\ UNCHANGED <<s, subscribed, srcVars, node, nodeIn, work, memory, sinkClosed, unsafe,
                   terminated>>

---------------------------------------------------------------------------
(* A stop of the segment unsubscribes the source; a failure kills it. *)
Unsubscribe ==
    /\ subscribed
    /\ s.stops \/ node = "failed" \/ \E p \in Engines : pe[p] = "failed"
    /\ subscribed' = FALSE
    /\ UNCHANGED <<s, gil, srcVars, nodeVars, sinkVars>>

SourceSteps(p) ==
    \/ SourceBegin(p) \/ SourceNext(p) \/ SourceSend(p) \/ SourceCast(p) \/ SourceWrite(p) \/ SourceBack(p)
NodeSteps ==
    \/ NodeSubscribe \/ NodeSubscribed \/ NodeRead \/ NodeCompleted \/ NodeApply
    \/ NodeConvert \/ NodeCast \/ NodeWrite \/ NodeDone \/ NodeShutdown
Running ==
    \/ (\E p \in Engines : SourceSteps(p)) \/ SourceShutdown
    \/ NodeEnter \/ NodeSteps \/ SinkEnter \/ SinkLeave
Next == ~terminated /\ (Running \/ Unsubscribe)

Spec == Init /\ [][Next]_vars

(* Threads run and the interpreter hands the GIL over; there are finitely  *)
(* many values, so that some thread running is enough.                     *)
FairSpec == Spec /\ WF_vars(~terminated /\ Running)

---------------------------------------------------------------------------
(* What each operator means for a whole stream, independently of the way   *)
(* it is computed.                                                         *)
Whole(op, xs) ==
    CASE op = "map" -> [i \in DOMAIN xs |-> MapFn(xs[i])]
      [] op = "filter" -> SelectSeq(xs, FilterFn)
      [] op = "flatten" -> LET all == FlattenSeq(xs) IN [i \in DOMAIN all |-> <<all[i]>>]
      [] op = "pairwise" -> [i \in 1 .. Len(xs) - 1 |-> xs[i] \o xs[i + 1]]
      [] op = "to_list" -> IF xs = <<>> THEN <<>> ELSE <<FlattenSeq(xs)>>
      [] op = "finally" -> IF s.final = None THEN xs ELSE Append(xs, s.final)
      [] op = "observer" -> xs

(* A stream that completes has applied its operators, in the order of      *)
(* pipe(), to exactly the values its source sent (operators.cpp:55-238),   *)
(* and each value crossed an edge whose hops fit its types (node.hpp:      *)
(* 203-284).                                                               *)
OperatorsCompose ==
    /\ sink = "completed" /\ node = "done"
         => received = FoldLeft(LAMBDA xs, op : Whole(op, xs), sent, s.chain)
    /\ \A a, b \in {"py", "num", "cls", "cls2", "raw"} :
         LET hops == IngressAdaptor(a, b)
         IN  hops # <<>> => /\ hops[1][1] = a /\ hops[Len(hops)][2] = b
                            /\ \A i \in 1 .. Len(hops) - 1 : hops[i][2] = hops[i + 1][1]

(* "you do not want to hold the GIL when calling m_output->await_write"    *)
(* (node.hpp:68-70): nobody who may wait for a channel owns the GIL, a      *)
(* source or a node that has just converted a value included.              *)
GilFreeWhileBlocked ==
    /\ \A p \in Engines : gil = p => pe[p] \in {"iter", "cast"}
    /\ gil = "node" => node = "subscribing" \/ (nodeIn /\ ~AtEdge("write"))
    /\ gil = "sink" => sink = "call"

(* References to Python objects are dropped with the GIL (utils.cpp:       *)
(* 168-187).                                                               *)
RefsUnderGil == ~unsafe

(* An exception of an operator reaches the context (rx_source_base.hpp),   *)
(* whatever operators follow.                                              *)
ErrorsReported == ~terminated

(* The iterator overload runs once: "Iterators cannot be duplicated"       *)
(* (segment.cpp:127); its values are sent once, in order.                  *)
IteratorOnce ==
    s.kind = "iterator" =>
        Cardinality({p \in Engines : pos[p] > 0}) <= 1 /\ (s.stops \/ IsPrefix(sent, s.items))

(* A stream ends with on_completed at the sink, also when its node fails;  *)
(* every engine of its source ends with it, unless a failed node left one  *)
(* at a full channel.                                                      *)
StreamEnds ==
    <>(\/ terminated
       \/ sink = "completed" /\ (node = "failed" \/ \A p \in Engines : pe[p] \in {"done", "failed"}))
=============================================================================
