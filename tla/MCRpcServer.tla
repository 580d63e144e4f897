---------------------------- MODULE MCRpcServer ----------------------------
(* Two unary contexts on two queues with one caller, one with two callers on
   a client executor of two threads; one batching and one bidirectional context
   with two requests to a call, and two calls on every context.  A behaviour is
   one of this server, one of a single-request client or one of the UCX objects,
   as "live" says; the others keep their initial state. *)
EXTENDS RpcServer

CONSTANTS c1, c2, Kinds, MaxMessages, MayNotStart, Waits,
          MaxPosts, MaxBackoff, Eager, SameThread, Joins

VARIABLES live, single, m_NextState, posted, sent, state, received, engine, shut, m_Promise,
          completed, deleted, holders, native, closing, posts, wire, inbox, unexpected,
          handled, m_running, fiber, backoff, joined, atStop

U == INSTANCE UcxTransport WITH sent <- posts, engine <- fiber, MaxMessages <- MaxPosts
S == INSTANCE ClientSingle WITH kind <- single

singleVars == <<single, m_NextState, posted, sent, state, received, engine, shut, m_Promise,
                completed, deleted>>
ucxVars == <<holders, native, closing, posts, wire, inbox, unexpected, handled, m_running,
             fiber, backoff, joined, atStop>>
allVars == <<live, vars, singleVars, ucxVars>>

UnaryTwo == [kind |-> "unary", engines |-> 2, async |-> TRUE, callers |-> {c1}]
Unary == [kind |-> "unary", engines |-> 1, async |-> TRUE, callers |-> {c1, c2}]
UnaryNone == [kind |-> "unary", engines |-> 1, async |-> TRUE, callers |-> {}]
Batching == [kind |-> "batching", engines |-> 1, async |-> FALSE, callers |-> {}]
BatchingAsync == [Batching EXCEPT !.async = TRUE]
Bidirectional == [kind |-> "bidirectional", engines |-> 1, async |-> TRUE, callers |-> {}]

MCSetups == {UnaryTwo, Unary, Batching, Bidirectional}
UnarySetups == {UnaryNone}
BatchingSetups == {BatchingAsync}
BidirectionalSetups == {Bidirectional}

MCWaits == [unary |-> "completer", sumd |-> "join"]
-----------------------------------------------------------------------------
RpcInit ==
  /\ live \in {"server", "single", "ucx"}
  /\ live # "single" => single = CHOOSE k \in Kinds : TRUE
  /\ live # "server" => kind = "bidirectional"
  /\ Init /\ S!Init /\ U!Init

ServerStep(A) == live = "server" /\ A /\ UNCHANGED <<live, singleVars, ucxVars>>
SingleStep(A) == live = "single" /\ A /\ UNCHANGED <<live, vars, ucxVars>>
UcxStep(A) == live = "ucx" /\ A /\ UNCHANGED <<live, vars, singleVars>>

RpcNext == ServerStep(Next) \/ SingleStep(S!Next) \/ UcxStep(U!Next)

RpcSpec == RpcInit /\ [][RpcNext]_allVars

(* Every thread that can go on does, and gRPC completes what is posted: the
   fairness of RpcServer, ClientSingle and UcxTransport. *)
RpcFairSpec ==
  /\ RpcSpec
  /\ WF_allVars(ServerStep(Main)) /\ WF_allVars(ServerStep(WorkerShutdown))
  /\ WF_allVars(ServerStep(UnaryClients
                             \/ \E k \in Callers : kind = "unary" /\ Refuse(k)))
  /\ WF_allVars(ServerStep(Queue(1))) /\ WF_allVars(ServerStep(Queue(2)))
  /\ WF_allVars(SingleStep(S!Handlers)) /\ WF_allVars(SingleStep(S!Close))
  /\ WF_allVars(UcxStep(U!Engine)) /\ WF_allVars(UcxStep(U!CloseEndpoint))
  /\ WF_allVars(UcxStep(U!Transmit))
-----------------------------------------------------------------------------
(* The operations of a context follow gRPC's rules: one read, one write and one
   finish at a time, and a context asks for a new call only when the last one
   has left no operation, event or executing RPC behind. *)
OperationsSound == OneAtATime /\ ResetWhenOver

(* A call that a context takes ends, also when the client of a unary or a
   batching call goes away, and the context serves again; once the server shuts
   down the unary callers get their status, and the engines, Run and the
   destructor of the server come to an end.  A stopped receive manager comes to
   its end, and so does the destructor of a UCX endpoint. *)
CallsEnd ==
  /\ live = "server" => ServesAgain /\ CallsReturn /\ ShutdownEnds
  /\ live = "ucx" => U!TransportEnds

(* A single-request client hands over the responses in order, all of them when
   the status is OK, and nobody deletes it while gRPC or an engine has it. *)
SingleSound == S!SingleSound

(* UCX handles go in the order UCX asks for, messages are handled once and in
   order, and stop leaves none behind that had reached the worker. *)
TransportSound == U!TransportSound

(* ~Endpoint returns and a stopped manager ends. *)
TransportEnds == live = "ucx" => U!TransportEnds

(* An idle receive manager sleeps between its probes in the end. *)
IdleSleeps == live = "ucx" => U!IdleSleeps

(* The future ClientSUMD::Write returns gets its status in the end. *)
StatusArrives == live = "single" => S!StatusArrives
=============================================================================
