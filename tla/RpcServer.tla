----------------------------- MODULE RpcServer -----------------------------
(***************************************************************************)
(* nvrpc::Server with one Executor: every progress engine polls its own    *)
(* completion queue, on which one context waits for calls.  The main       *)
(* thread runs Server::Run and destroys the server; another thread calls   *)
(* Shutdown.  The life cycle of the contexts is LifeCycleUnary,            *)
(* LifeCycleBatching or BidirectionalLifeCycleStreaming; for the unary one *)
(* the callers are ClientUnary of the client library.  gRPC and the        *)
(* network are external: they complete the operations posted, and a call   *)
(* may die.                                                                *)
(*                                                                         *)
(* A handler is an operator from the members c of a context to a result    *)
(*   [c: the members afterwards, post: the operations given to gRPC,       *)
(*    run: whether ExecuteRPC is called, keep: what the handler returned]. *)
(* An operation is [op, val]: val is the response a write carries, or the  *)
(* status of a finish.  The slot a posted read fills is not part of the    *)
(* request queue here: it joins the queue when the read succeeds.          *)
(***************************************************************************)
EXTENDS Integers, Sequences, FiniteSets, Functions

Op(name) == [op |-> name, val |-> <<>>]
Finish(status) == [op |-> "finish", val |-> <<status>>]
WriteOf(r) == [op |-> "write", val |-> r]

Result(c, post, run, keep) == [c |-> c, post |-> post, run |-> run, keep |-> keep]
Stop(c) == Result(c, {}, FALSE, FALSE)
Continue(c, post) == Result(c, post, FALSE, TRUE)

(* The members after Reset, which also queues the context for a new call. *)
Reset ==
  [next |-> "StateRequestDone", requests |-> <<>>, responses |-> <<>>,
   iterator |-> 0, writeBack |-> <<>>, writing |-> FALSE, executing |-> FALSE,
   writesDone |-> FALSE, finishing |-> FALSE]
-----------------------------------------------------------------------------
(* LifeCycleUnary *)

UnaryRequestDone(c, e) ==
  IF e.ok THEN Result([c EXCEPT !.requests = <<e.val>>], {}, TRUE, TRUE) ELSE Stop(c)

UnaryFinishResponse(c, status) ==
  Continue([c EXCEPT !.next = "StateFinishedDone"],
           IF status = "ok" THEN {[op |-> "finish", val |-> <<"ok", Head(c.requests)>>]}
           ELSE {Finish(status)})
-----------------------------------------------------------------------------
(* LifeCycleBatching: all requests in, then all responses out. *)

BatchingRequestDone(c, e) ==
  IF e.ok THEN Continue([c EXCEPT !.next = "StateReadDone"], {Op("read")}) ELSE Stop(c)

(* Mutant of BatchingReadDone: returns false after ExecuteRPC. *)
BatchingReadDoneStops(c, e) ==
  IF e.ok THEN Continue([c EXCEPT !.requests = Append(@, e.val)], {Op("read")})
  ELSE Result(c, {}, TRUE, FALSE)

BatchingReadDone(c, e) ==
  IF e.ok THEN Continue([c EXCEPT !.requests = Append(@, e.val)], {Op("read")})
  ELSE Result(c, {}, TRUE, TRUE)

(* What StateWriteDone posts; the iterator moves on after the post. *)
BatchingWrite(c) ==
  LET left == Len(c.responses) - c.iterator
  IN IF left > 1
     THEN Continue([c EXCEPT !.next = "StateWriteDone"],
                   {WriteOf(c.responses[c.iterator + 1])})
     ELSE Continue([c EXCEPT !.next = "StateFinishedDone"],
                   {IF left = 1 THEN [op |-> "finish",
                                      val |-> <<"ok", c.responses[c.iterator + 1]>>]
                    ELSE Finish("ok")})

(* Mutant of Advance: the iterator stays where it was. *)
AdvanceNot(c) == c

Advance(c) == IF c.next = "StateWriteDone" THEN [c EXCEPT !.iterator = @ + 1] ELSE c

(* Mutant of BatchingWriteDone: a failed write returns true. *)
BatchingWriteDoneGoesOn(c, e) ==
  IF e.ok THEN LET r == BatchingWrite(c) IN [r EXCEPT !.c = Advance(r.c)]
  ELSE Continue(c, {})

BatchingWriteDone(c, e) ==
  IF e.ok THEN LET r == BatchingWrite(c) IN [r EXCEPT !.c = Advance(r.c)]
  ELSE Stop(c)

(* FinishResponse up to the increment of the iterator; the responses are what
   ExecuteRPC computed, one for every request. *)
BatchingFinishResponse(c) ==
  BatchingWrite([c EXCEPT !.responses = c.requests, !.iterator = 0])

BatchingCancelResponse(c) ==
  Continue([c EXCEPT !.next = "StateFinishedDone"], {Finish("cancelled")})
-----------------------------------------------------------------------------
(* BidirectionalLifeCycleStreaming.  responses holds one entry for every
   request received and not yet executed, as m_ResponseQueue does. *)

(* Mutant of ShouldFinish: a write in flight is not waited for. *)
ShouldFinishWriting(c) == ~c.executing /\ ~c.finishing /\ c.writesDone

ShouldFinish(c) == ~c.writing /\ ~c.executing /\ ~c.finishing /\ c.writesDone

(* EvaluateState, and the operations ProgressState then issues. *)
EvaluateState(c) ==
  LET run == ~c.executing /\ c.responses # <<>>
      write == ~c.writing /\ c.writeBack # <<>>
      d == [c EXCEPT !.executing = @ \/ run, !.writing = @ \/ write]
      finish == ShouldFinish(d)
  IN Result([d EXCEPT !.finishing = @ \/ finish,
                      !.next = IF finish THEN "StateFinishedDone" ELSE @],
            (IF write THEN {WriteOf(Head(c.writeBack))} ELSE {})
              \cup (IF finish THEN {Finish("ok")} ELSE {}),
            run, TRUE)

BidirectionalInitializedDone(c, e) ==
  IF e.ok THEN Continue([c EXCEPT !.next = "StateInvalid"], {Op("read")}) ELSE Stop(c)

BidirectionalRequestDone(c, e) ==
  LET done == c.writesDone \/ ~e.ok
      r == EvaluateState(
             IF done THEN [c EXCEPT !.writesDone = TRUE]
             ELSE [c EXCEPT !.requests = Append(@, e.val), !.responses = Append(@, e.val)])
  IN IF done THEN r ELSE [r EXCEPT !.post = @ \cup {Op("read")}]

(* CancelResponse: Finish is left to others while an RPC executes. *)
BidirectionalCancelResponse(c) ==
  Continue([c EXCEPT !.next = "StateFinishedDone"],
           IF c.executing THEN {} ELSE {Finish("cancelled")})

BidirectionalResponseDone(c, e) ==
  IF e.ok THEN EvaluateState([c EXCEPT !.writing = FALSE, !.writeBack = Tail(@)])
  ELSE BidirectionalCancelResponse(c)

BidirectionalFinishResponse(c) ==
  EvaluateState([c EXCEPT !.executing = FALSE,
                          !.writeBack = Append(@, Head(c.requests)),
                          !.requests = Tail(@), !.responses = Tail(@)])
-----------------------------------------------------------------------------
(* RunNextState of each life cycle: the handler the event's tag leads to.  The
   contexts of the bidirectional life cycle have tags of their own for reads
   and writes; the others have one tag and m_NextState. *)
Handle(kind, c, e) ==
  CASE kind = "unary" /\ c.next = "StateRequestDone" -> UnaryRequestDone(c, e)
    [] kind = "batching" /\ c.next = "StateRequestDone" -> BatchingRequestDone(c, e)
    [] kind = "batching" /\ c.next = "StateReadDone" -> BatchingReadDone(c, e)
    [] kind = "batching" /\ c.next = "StateWriteDone" -> BatchingWriteDone(c, e)
    [] kind = "bidirectional" /\ e.op = "read" -> BidirectionalRequestDone(c, e)
    [] kind = "bidirectional" /\ e.op = "write" -> BidirectionalResponseDone(c, e)
    [] kind = "bidirectional" /\ e.op \notin {"read", "write"}
         /\ c.next = "StateRequestDone" -> BidirectionalInitializedDone(c, e)
    [] OTHER -> Stop(c)    \* StateFinishedDone, StateFinishDone
-----------------------------------------------------------------------------
(* The client side of unary calls: ClientUnary::Enqueue (and ::Write of the
   second version) on a client Executor, whose progress engines run the
   callbacks.  The status a call comes back with is external. *)

CONSTANTS Callers,       \* the calls an application makes
          ClientThreads  \* threads, and completion queues, of the Executor

VARIABLES cl,         \* each call: new, started, answered, returned, deleted
          cstatus,    \* the status gRPC stored for it
          future,     \* the status its future or callback has seen
          cqOf,       \* the completion queue it was given
          m_Counter,
          ceng,       \* progress engines: poll, delete, done
          ctag,       \* the call an engine is handling
          down        \* no, shutdown (CQs shut down), joined

client == <<cl, cstatus, future, cqOf, m_Counter, ceng, ctag, down>>

CQs == 0 .. ClientThreads - 1

(* An application that makes the calls K. *)
ClientInit(K) ==
  /\ cl = [k \in Callers |-> IF k \in K THEN "new" ELSE "deleted"] /\ cstatus = [k \in Callers |-> "none"]
  /\ future = [k \in Callers |-> "none"] /\ cqOf = [k \in Callers |-> 0]
  /\ m_Counter = 0
  /\ ceng = [q \in CQs |-> "poll"] /\ ctag = [q \in CQs |-> CHOOSE k \in Callers : TRUE]
  /\ down = "no"

GetNextCQ == IF m_Counter + 1 = ClientThreads THEN 0 ELSE m_Counter + 1

(* Enqueue: a context for the call, StartCall and Finish on the next queue. *)
Enqueue(k) ==
  /\ cl[k] = "new" /\ down = "no"
  /\ m_Counter' = GetNextCQ
  /\ cqOf' = [cqOf EXCEPT ![k] = GetNextCQ]
  /\ cl' = [cl EXCEPT ![k] = "started"]
  /\ UNCHANGED <<cstatus, future, ceng, ctag, down>>

(* gRPC completes the Finish of call k (external). *)
Answer(k, status) ==
  /\ cl' = [cl EXCEPT ![k] = "answered"]
  /\ cstatus' = [cstatus EXCEPT ![k] = status]
  /\ UNCHANGED <<future, cqOf, m_Counter, ceng, ctag, down>>

(* shared_packaged_task: on_return is called with the status, and the promise
   of the call is set after it. *)
shared_packaged_task(k) == future' = [future EXCEPT ![k] = cstatus[k]]

(* ProgressEngine takes the event and runs StateFinishedDone, which calls the
   wrapped on_return. *)
StateFinishedDone(q) ==
  /\ ceng[q] = "poll"
  /\ \E k \in Callers :
       /\ cl[k] = "answered" /\ cqOf[k] = q
       /\ cl' = [cl EXCEPT ![k] = "returned"]
       /\ shared_packaged_task(k)
       /\ ctag' = [ctag EXCEPT ![q] = k]
  /\ ceng' = [ceng EXCEPT ![q] = "delete"]
  /\ UNCHANGED <<cstatus, cqOf, m_Counter, down>>

(* The handler returned false: the engine deletes the context, if it is one
   of those that ask for it. *)
DeleteContext(q) ==
  /\ ceng[q] = "delete"
  /\ cl' = [cl EXCEPT ![ctag[q]] = "deleted"]
  /\ ceng' = [ceng EXCEPT ![q] = "poll"]
  /\ ctag' = [ctag EXCEPT ![q] = CHOOSE k \in Callers : TRUE]
  /\ UNCHANGED <<cstatus, future, cqOf, m_Counter, down>>

(* ShutdownAndJoin, from ~Executor. *)
ShutdownAndJoin ==
  /\ down = "no" /\ \A k \in Callers : cl[k] # "new"
  /\ down' = "shutdown"
  /\ UNCHANGED <<cl, cstatus, future, cqOf, m_Counter, ceng, ctag>>

(* cq.Next returns false once the queue is shut down and drained. *)
EngineReturns(q) ==
  /\ ceng[q] = "poll" /\ down = "shutdown"
  /\ \A k \in Callers : cqOf[k] = q => cl[k] \notin {"started", "answered"}
  /\ ceng' = [ceng EXCEPT ![q] = "done"]
  /\ UNCHANGED <<cl, cstatus, future, cqOf, m_Counter, ctag, down>>

Joined ==
  /\ down = "shutdown" /\ \A q \in CQs : ceng[q] = "done"
  /\ down' = "joined"
  /\ UNCHANGED <<cl, cstatus, future, cqOf, m_Counter, ceng, ctag>>

Client ==
  \/ \E k \in Callers : Enqueue(k)
  \/ \E q \in CQs : StateFinishedDone(q) \/ DeleteContext(q) \/ EngineReturns(q)
  \/ ShutdownAndJoin \/ Joined
-----------------------------------------------------------------------------
(* The server: Server, Executor and their threads. *)

CONSTANTS Setups,       \* [kind, engines, async, callers]: life cycle, number of
                        \* progress engines, whether ExecuteRPC hands over to a
                        \* thread, the unary calls made
          MaxCalls,     \* calls made on each queue
          NumRequests,  \* requests of a streaming call
          MayDie,       \* the kinds whose calls may be cut off
          MayCancel,    \* the kinds whose ExecuteRPC may call CancelResponse
          Prompt        \* Shutdown may come before every engine polls

VARIABLES kind, engines, async,   \* the setup
          main, control,          \* threads: Run then ~Server; Shutdown
          running, smtx, server,  \* m_Running, m_Mutex, m_Server
          working,                \* m_Running of the Worker
          eng, fresh,             \* progress engines; contexts Executor::Run resets
          ctx, exec, late,        \* contexts; ExecuteRPC in progress; posts a
                                  \* worker has still to make
          ops, cq, cqdown,        \* posted operations, events, cq->Shutdown()
          call, broken            \* calls (external); a post on a queue shut down

setup == <<kind, engines, async>>
threads == <<main, control, running, smtx, server, working>>
contexts == <<ctx, exec, late>>
queues == <<ops, cq, cqdown, call, broken>>
vars == <<setup, threads, eng, fresh, contexts, queues, client>>

Engines == 1 .. engines

(* A call: n counts the calls of this queue; up what the client has yet to
   send, half whether it has closed its side; got and status what it received. *)
NoCall(n) == [n |-> n, state |-> "none", up |-> <<>>, sent |-> <<>>, got |-> <<>>,
              status |-> "none", caller |-> CHOOSE k \in Callers : TRUE]

Init ==
  /\ \E s \in Setups : /\ kind = s.kind /\ engines = s.engines /\ async = s.async
                        /\ ClientInit(s.callers)
  /\ main = "new" /\ control = "idle" /\ running = FALSE /\ smtx = "none"
  /\ server = "none" /\ working = FALSE
  /\ eng = [i \in Engines |-> "none"] /\ fresh = Engines
  /\ ctx = [i \in Engines |-> Reset] /\ exec = [i \in Engines |-> "none"]
  /\ late = [i \in Engines |-> {}]
  /\ ops = [i \in Engines |-> {}] /\ cq = [i \in Engines |-> <<>>]
  /\ cqdown = [i \in Engines |-> FALSE]
  /\ call = [i \in Engines |-> NoCall(0)]
  /\ broken = FALSE

(* Posting on a completion queue after cq->Shutdown() is an error of gRPC. *)
Post(i, posts) ==
  /\ ops' = [ops EXCEPT ![i] = @ \cup posts]
  /\ broken' = (broken \/ (posts # {} /\ cqdown[i]))

(* Reset of the context on queue i: the members, then the request for a call. *)
ResetContext(i) ==
  /\ ctx' = [ctx EXCEPT ![i] = Reset]
  /\ Post(i, {Op("request")})
-----------------------------------------------------------------------------
(* Server::Run: AsyncStart takes m_Mutex, builds the server, and runs the
   executor, which enqueues the engines and resets every context. *)
AsyncStart ==
  /\ main = "new" /\ smtx = "none"
  /\ main' = "starting" /\ smtx' = "main" /\ server' = "serving"
  /\ eng' = [i \in Engines |-> "queued"]
  /\ UNCHANGED <<setup, control, running, working, fresh, contexts, queues, client>>

RunExecutor ==
  /\ main = "starting"
  /\ IF fresh = {}
     THEN /\ running' = TRUE /\ main' = "run" /\ smtx' = "none"
          /\ UNCHANGED <<ctx, ops, broken, fresh>>
     ELSE LET i == CHOOSE i \in fresh : \A j \in fresh : i <= j
          IN /\ ResetContext(i)
             /\ fresh' = fresh \ {i}
             /\ UNCHANGED <<running, main, smtx>>
  /\ UNCHANGED <<setup, control, server, working, eng, exec, late, cq, cqdown, call, client>>

(* The loop of Server::Run ends when the condition's predicate holds; a
   timeout runs control_fn and loops. *)
Run ==
  /\ main = "run" /\ smtx = "none" /\ ~running
  /\ main' = "returned"
  /\ UNCHANGED <<setup, control, running, smtx, server, working, eng, fresh, contexts, queues, client>>

(* ~Server destroys the executor, whose thread pool joins its threads. *)
Destroy ==
  /\ main = "returned" /\ control = "done"
  /\ \A i \in Engines : eng[i] = "done"
  /\ main' = "destroyed"
  /\ UNCHANGED <<setup, control, running, smtx, server, working, eng, fresh, contexts, queues, client>>

(* Server::Shutdown, called once the server runs: the gRPC server refuses new
   calls at once and waits for those in progress ... *)
Shutdown ==
  /\ control = "idle" /\ main = "run" /\ smtx = "none" /\ server # "none"
  /\ Prompt \/ \A i \in Engines : eng[i] # "queued"
  /\ smtx' = "control" /\ control' = "draining" /\ server' = "draining"
  /\ UNCHANGED <<setup, main, running, working, eng, fresh, contexts, queues, client>>

(* Mutant of WorkerShutdown: the queues are not shut down. *)
WorkerShutdownOnly ==
  /\ control = "draining"
  /\ \A i \in Engines : call[i].state \notin {"open", "dead"}
  /\ control' = "done" /\ server' = "down" /\ running' = FALSE /\ smtx' = "none"
  /\ working' = FALSE
  /\ UNCHANGED <<setup, main, eng, fresh, contexts, queues, client>>

(* ... then Worker::Shutdown, which returns early unless an engine has set
   m_Running, and shuts down every queue. *)
WorkerShutdown ==
  /\ control = "draining"
  /\ \A i \in Engines : call[i].state \notin {"open", "dead"}
  /\ control' = "done" /\ server' = "down" /\ running' = FALSE /\ smtx' = "none"
  /\ working' = FALSE
  /\ cqdown' = [i \in Engines |-> working]
  /\ UNCHANGED <<setup, main, eng, fresh, contexts, ops, cq, call, broken, client>>
-----------------------------------------------------------------------------
(* Worker::ProgressEngine(i). *)
EngineStart(i) ==
  /\ eng[i] = "queued"
  /\ eng' = [eng EXCEPT ![i] = "poll"] /\ working' = TRUE
  /\ UNCHANGED <<setup, main, control, running, smtx, server, fresh, contexts, queues, client>>

(* The effect of a handler's result on context i: a call to ExecuteRPC goes to
   a worker thread, or is carried out by the engine before the handler returns. *)
Apply(i, r) ==
  /\ ctx' = [ctx EXCEPT ![i] = r.c]
  /\ exec' = [exec EXCEPT ![i] = IF r.run THEN "running" ELSE @]
  /\ Post(i, r.post)

GotEvent(i) ==
  /\ eng[i] = "poll" /\ cq[i] # <<>>
  /\ cq' = [cq EXCEPT ![i] = Tail(@)]
  /\ \E r \in {Handle(kind, ctx[i], Head(cq[i]))} :
       /\ Apply(i, r)
       /\ eng' = [eng EXCEPT ![i] = IF ~r.keep THEN "check"
                                    ELSE IF r.run /\ ~async THEN "executing" ELSE "poll"]
  /\ UNCHANGED <<setup, threads, fresh, late, cqdown, call, client>>

(* if (!RunContext(...)) if (m_Running) ResetContext: the test ... *)
CheckRunning(i) ==
  /\ eng[i] = "check"
  /\ eng' = [eng EXCEPT ![i] = IF working THEN "reset" ELSE "poll"]
  /\ UNCHANGED <<setup, threads, fresh, contexts, queues, client>>

(* ... and the reset. *)
EngineReset(i) ==
  /\ eng[i] = "reset"
  /\ eng' = [eng EXCEPT ![i] = "poll"]
  /\ ResetContext(i)
  /\ call' = [call EXCEPT ![i].state = IF @ = "dead" THEN "over" ELSE @]
  /\ UNCHANGED <<setup, threads, fresh, exec, late, cq, cqdown, client>>

EngineDone(i) ==
  /\ eng[i] = "poll" /\ cqdown[i] /\ cq[i] = <<>> /\ ops[i] = {}
  /\ eng' = [eng EXCEPT ![i] = "done"]
  /\ UNCHANGED <<setup, threads, fresh, contexts, queues, client>>
-----------------------------------------------------------------------------
(* The end of ExecuteRPC: FinishResponse or CancelResponse. *)
Responses(i) ==
  {CASE kind = "unary" -> UnaryFinishResponse(ctx[i], "ok")
     [] kind = "batching" -> BatchingFinishResponse(ctx[i])
     [] OTHER -> BidirectionalFinishResponse(ctx[i])}
  \cup (IF kind \notin MayCancel THEN {}
        ELSE {CASE kind = "unary" -> UnaryFinishResponse(ctx[i], "cancelled")
                [] kind = "batching" -> BatchingCancelResponse(ctx[i])
                [] OTHER -> BidirectionalCancelResponse(ctx[i])})

(* A worker thread finishes the RPC.  The bidirectional life cycle changes its
   members under m_QueueMutex and posts afterwards; the batching one posts and
   then moves its iterator. *)
WorkerFinish(i) ==
  /\ async /\ exec[i] = "running"
  /\ exec' = [exec EXCEPT ![i] = "none"]
  /\ \E r \in Responses(i) :
       /\ ctx' = [ctx EXCEPT ![i] = r.c]
       /\ IF kind = "bidirectional"
          THEN /\ late' = [late EXCEPT ![i] = IF r.post = {} /\ ~r.run THEN @
                                             ELSE @ \cup {[post |-> r.post, run |-> r.run]}]
               /\ UNCHANGED <<ops, broken>>
          ELSE /\ late' = [late EXCEPT ![i] = IF kind = "unary" THEN @
                                             ELSE {[post |-> {}, run |-> FALSE]}]
               /\ Post(i, r.post)
  /\ UNCHANGED <<setup, threads, eng, fresh, cq, cqdown, call, client>>

WorkerAfter(i) ==
  /\ \E l \in late[i] :
       /\ late' = [late EXCEPT ![i] = @ \ {l}]
       /\ IF kind = "bidirectional"
          THEN /\ Post(i, l.post)
               /\ exec' = [exec EXCEPT ![i] = IF l.run THEN "running" ELSE @]
               /\ UNCHANGED ctx
          ELSE /\ ctx' = [ctx EXCEPT ![i] = Advance(@)]
               /\ UNCHANGED <<exec, ops, broken>>
  /\ UNCHANGED <<setup, threads, eng, fresh, cq, cqdown, call, client>>

(* Without a worker thread the engine does both before its handler returns. *)
EngineFinish(i) ==
  /\ eng[i] = "executing"
  /\ \E r \in Responses(i) :
       /\ ctx' = [ctx EXCEPT ![i] = IF kind = "batching" THEN Advance(r.c) ELSE r.c]
       /\ Post(i, r.post)
  /\ exec' = [exec EXCEPT ![i] = "none"]
  /\ eng' = [eng EXCEPT ![i] = "poll"]
  /\ UNCHANGED <<setup, threads, fresh, late, cq, cqdown, call, client>>
-----------------------------------------------------------------------------
(* gRPC and the callers.  Event(i, o, ok, val) completes operation o. *)
Event(i, o, ok, val) ==
  /\ ops' = [ops EXCEPT ![i] = @ \ {o}]
  /\ cq' = [cq EXCEPT ![i] = Append(@, [op |-> o.op, ok |-> ok, val |-> val])]

(* Request number k of call n. *)
Request(n, k) == <<n, k>>

(* Unary call k is in progress on queue i. *)
Serving(i, k) == call[i].state \in {"open", "dead"} /\ call[i].caller = k

Requests(n) == [k \in 1 .. (IF kind = "unary" THEN 1 ELSE NumRequests) |-> Request(n, k)]

(* A call reaches the context, from ClientUnary or from a streaming client;
   or the server refuses calls. *)
Arrive(i) ==
  /\ Op("request") \in ops[i]
  /\ LET n == call[i].n + 1
     IN \/ /\ server = "serving" /\ n <= MaxCalls
           /\ \E k \in IF kind = "unary" THEN Callers ELSE {NoCall(0).caller} :
                /\ kind = "unary" => cl[k] = "started" /\ ~\E j \in Engines : Serving(j, k)
                /\ call' = [call EXCEPT ![i] = [NoCall(n) EXCEPT !.state = "open",
                              !.up = IF kind = "unary" THEN <<>> ELSE Requests(n),
                              !.sent = Requests(n), !.caller = k]]
           /\ Event(i, Op("request"), TRUE, Request(n, 1))
        \/ /\ server \in {"draining", "down"}
           /\ Event(i, Op("request"), FALSE, <<>>)
           /\ UNCHANGED call
  /\ UNCHANGED <<setup, threads, eng, fresh, contexts, cqdown, broken, client>>

(* A call the server has not taken fails when the server goes down. *)
Refuse(k) ==
  /\ server \in {"draining", "down"} /\ cl[k] = "started"
  /\ ~\E i \in Engines : Serving(i, k)
  /\ Answer(k, "unavailable")
  /\ UNCHANGED <<setup, threads, eng, fresh, contexts, queues>>

(* A read gets the next request; it fails when the client has sent them all
   and closed its side, or when the call is dead. *)
Read(i) ==
  /\ Op("read") \in ops[i]
  /\ IF call[i].state = "open" /\ call[i].up # <<>>
     THEN /\ Event(i, Op("read"), TRUE, Head(call[i].up))
          /\ call' = [call EXCEPT ![i].up = Tail(@)]
     ELSE Event(i, Op("read"), FALSE, <<>>) /\ UNCHANGED call
  /\ UNCHANGED <<setup, threads, eng, fresh, contexts, cqdown, broken, client>>

Write(i) ==
  /\ \E o \in ops[i] :
       /\ o.op = "write"
       /\ Event(i, o, call[i].state = "open", <<>>)
       /\ call' = [call EXCEPT ![i].got = IF call[i].state = "open" THEN Append(@, o.val)
                                          ELSE @]
  /\ UNCHANGED <<setup, threads, eng, fresh, contexts, cqdown, broken, client>>

(* The caller of an open unary call on queue i gets its status. *)
Tell(i, status) ==
  IF kind = "unary" /\ call[i].state = "open" THEN Answer(call[i].caller, status)
  ELSE UNCHANGED client

(* Finish ends the call; its last response, if any, goes with the status. *)
FinishCall(i) ==
  /\ \E o \in ops[i] :
       /\ o.op = "finish"
       /\ Event(i, o, call[i].state = "open", <<>>)
       /\ call' = [call EXCEPT
            ![i].state = "over",
            ![i].got = IF call[i].state = "open" THEN @ \o Tail(o.val) ELSE @,
            ![i].status = IF call[i].state = "open" THEN Head(o.val) ELSE "lost"]
       /\ Tell(i, Head(o.val))
  /\ UNCHANGED <<setup, threads, eng, fresh, contexts, cqdown, broken>>

(* The client goes away.  What is posted on the call fails; a call no handler
   finishes any more is over for the server. *)
Die(i) ==
  /\ kind \in MayDie /\ call[i].state = "open"
  /\ call' = [call EXCEPT ![i].state = "dead", ![i].status = "lost"]
  /\ Tell(i, "lost")
  /\ ops' = [ops EXCEPT ![i] = {}]
  /\ LET failed == {[op |-> o.op, ok |-> FALSE, val |-> <<>>] : o \in ops[i]}
     IN \E s \in Bijection(1 .. Cardinality(failed), failed) :
          cq' = [cq EXCEPT ![i] = @ \o s]
  /\ UNCHANGED <<setup, threads, eng, fresh, contexts, cqdown, broken>>
-----------------------------------------------------------------------------
Engine(i) == EngineStart(i) \/ GotEvent(i) \/ CheckRunning(i) \/ EngineReset(i)
               \/ EngineDone(i) \/ EngineFinish(i)
Worker(i) == WorkerFinish(i) \/ WorkerAfter(i)
Network(i) == Arrive(i) \/ Read(i) \/ Write(i) \/ FinishCall(i)
UnaryClients == kind = "unary" /\ Client /\ UNCHANGED <<setup, threads, eng, fresh, contexts, queues>>
Main == AsyncStart \/ RunExecutor \/ Run \/ Destroy
Control == Shutdown \/ WorkerShutdown

Queue(i) == i \in Engines /\ (Engine(i) \/ Worker(i) \/ Network(i))

Next ==
  \/ Main \/ Control \/ UnaryClients
  \/ \E k \in Callers : kind = "unary" /\ Refuse(k)
  \/ \E i \in Engines : Engine(i) \/ Worker(i) \/ Network(i) \/ Die(i)

Spec == Init /\ [][Next]_vars

(* Every thread that can go on does, and gRPC completes what is posted. *)
FairSpec ==
  Spec /\ WF_vars(Main) /\ WF_vars(WorkerShutdown)
       /\ WF_vars(UnaryClients \/ \E k \in Callers : kind = "unary" /\ Refuse(k))
       /\ WF_vars(Queue(1)) /\ WF_vars(Queue(2))
-----------------------------------------------------------------------------
(* What the client of a call receives (LifeCycleBatching: "in the same order
   the requests were received"): responses to the requests of this call only,
   in their order, and all of them when the status is OK, although a context
   serves one call after another. *)
InOrder ==
  \A i \in Engines :
    /\ \A k \in DOMAIN call[i].got :
         k \in DOMAIN call[i].sent /\ call[i].got[k] = call[i].sent[k]
    /\ call[i].status = "ok" => call[i].got = call[i].sent

(* A context is reset only when its last call has left nothing behind: while
   it waits for a call no other operation is posted, no event of the old call
   is in the queue and no RPC is executing on its members. *)
ResetWhenOver ==
  \A i \in Engines : Op("request") \in ops[i] =>
    /\ ops[i] = {Op("request")} /\ cq[i] = <<>>
    /\ exec[i] = "none" /\ late[i] = {} /\ call[i].state \notin {"open", "dead"}

(* gRPC's rule for the operations of one call: one read, one write and one
   finish at a time, and nothing after the finish. *)
OneAtATime ==
  \A i \in Engines :
    /\ \A o, p \in ops[i] : o.op = p.op => o = p
    /\ \A o \in ops[i] : o.op = "finish" => \A p \in ops[i] : p.op # "write"

(* No operation is posted on a queue that has been shut down. *)
NoPostAfterShutdown == ~broken

(* A context that takes a call serves again, or the server goes down: the call
   ends on every path through the handlers, also when a client of one of the
   kinds in MayDie goes away. *)
ServesAgain ==
  \A i \in 1 .. 2 :
    (i \in Engines /\ call[i].state = "open")
      ~> (i \in Engines /\ (Op("request") \in ops[i] \/ control # "idle"))

(* Every unary call ends for its caller, served, refused or cut off, when the
   server goes down: its callback has run, its context is deleted, and
   ShutdownAndJoin returns.  In this property and the next one a post on a queue
   that is shut down (see NoPostAfterShutdown) is an operation whose event still
   comes; a gRPC that aborts there ends the process earlier. *)
CallsReturn ==
  (down = "shutdown" /\ control = "draining")
    ~> (down = "joined" /\ \A k \in Callers : cl[k] = "deleted")

(* Shutdown ends the server: Run returns, every progress engine sees its queue
   shut down, and the destructor's join returns. *)
ShutdownEnds == (control = "draining") ~> (main = "destroyed")
=============================================================================
