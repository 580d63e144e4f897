------------------------- MODULE LifeCycleStreaming -------------------------
(***************************************************************************)
(* nvrpc::LifeCycleStreaming, the server side of a streaming call.  One    *)
(* engine thread runs the handlers of the context; a worker thread of the  *)
(* application may hold the ServerStream and answer through it.  Every     *)
(* entry updates the members under m_QueueMutex, lets EvaluateState decide *)
(* and performs the decision in ForwardProgress after the mutex is         *)
(* released: write, application hook, read, finish, in this order.         *)
(*                                                                         *)
(* The application (external) is one of these:                             *)
(*   "pingpong"  answers in RequestReceived, FinishStream in               *)
(*               RequestsFinished (PingPongStreamingContext)               *)
(*   "drop"      answers, never finishes: the ServerStream is dropped      *)
(*   "block"     BlockFinish on a request, UnblockFinish and FinishStream  *)
(*               in RequestsFinished                                       *)
(*   "worker"    a worker answers; RequestsFinished waits for it           *)
(*   "late"      as "worker", but RequestsFinished does not wait           *)
(*   "early"     FinishStream on the second request                        *)
(*               (PingPongStreamingEarlyFinishContext)                     *)
(***************************************************************************)
EXTENDS Integers, Sequences

VARIABLES
    style,     \* the application
    s,         \* the members of the context, guarded by m_QueueMutex
    eng,       \* the engine thread: what is left of the handler it is in
    worker,    \* requests handed to the worker thread, with its progress
    holders,   \* who holds the ServerStream: "ctx", "hook", "worker"
    connected, \* ServerStream::IsConnected
    reset,     \* the call is over and the context waits for the next one
    sposted,   \* operations posted to gRPC and not completed
    scq,       \* completed operations waiting in the completion queue
    handled,   \* requests handed to RequestReceived
    up, upEnd, down, trailer, dead  \* the call as gRPC carries it (see RpcStream)

wireVars == <<up, upEnd, down, trailer, dead>>

\* Reset: the members of a context that waits for a call.  m_BlockFinish is the
\* one member Reset leaves as it was.
ResetState(blocked) ==
    [Reading |-> FALSE, Writing |-> FALSE, Finishing |-> FALSE, ReadsDone |-> FALSE,
     ReadsFinished |-> FALSE, BlockFinish |-> blocked, status |-> "none",
     requests |-> <<>>, responses |-> <<>>, checks |-> TRUE,
     next |-> "InitializedDone", readNext |-> "Invalid", writeNext |-> "Invalid"]

\* A thread of the engine: where it is, what it has still to post, the hook it
\* has still to run, and what follows ("then") once a deleter has run.
Quiet == [pc |-> "idle", do |-> {}, exec |-> "none", req |-> 0,
          deleting |-> FALSE, then |-> "idle"]

\* No ServerStream is left: m_ExternalStream.expired().
expired == holders = {}

(* Mutant of ShouldFinish: a write in flight is not waited for. *)
ShouldFinishInFlight(sv, reading, writing) ==
    ~reading /\ ~sv.Finishing /\ sv.status # "none" /\ ~sv.BlockFinish

ShouldFinish(sv, reading, writing) ==
    /\ ~reading /\ ~writing /\ ~sv.Finishing
    /\ sv.status # "none" /\ ~sv.BlockFinish

(* Mutant of RequestsOver: the hook is left out while a response is written. *)
RequestsOverIdle(sv, reading) ==
    /\ ~reading /\ sv.ReadsDone /\ ~sv.ReadsFinished
    /\ ~sv.Reading /\ ~sv.Writing /\ sv.responses = <<>> /\ sv.status # "none"
    /\ ~expired

RequestsOver(sv, reading) ==
    /\ ~reading /\ sv.ReadsDone /\ ~sv.ReadsFinished
    /\ ~(sv.status # "none" \/ expired)

\* A read whenever none is outstanding, together with the hook for the request
\* the previous one brought; RequestsFinished once the client has closed; no
\* hook any more once the stream is cancelled; the oldest response; Finish.
EvaluateState(sv) ==
    LET read     == ~sv.Reading /\ ~sv.ReadsDone
        reading  == sv.Reading \/ read
        over     == RequestsOver(sv, reading)
        write    == ~sv.Writing /\ sv.responses # <<>>
        writing  == sv.Writing \/ write
        finish   == ShouldFinish(sv, reading, writing)
        emplaced == Append(sv.requests, 0)
        if(b, o) == IF b THEN {o} ELSE {}
    IN  [s |-> [sv EXCEPT !.Reading = reading, !.Writing = writing,
                          !.Finishing = @ \/ finish, !.ReadsFinished = @ \/ over,
                          !.requests = IF read THEN Tail(emplaced) ELSE @,
                          !.readNext = IF read THEN "ReadDone" ELSE @,
                          !.writeNext = IF write THEN "WriteDone" ELSE @,
                          !.next = IF finish THEN "FinishedDone" ELSE @],
         do |-> if(read, "read") \cup if(write, "write") \cup if(finish, "finish"),
         exec |-> IF sv.status = "CANCELLED" THEN "none"
                  ELSE IF over THEN "RequestsFinished"
                  ELSE IF read THEN "RequestReceived" ELSE "none",
         req |-> IF read THEN Head(emplaced) ELSE 0]

\* Handing the ServerStream to a hook: RequestReceived gets a copy of
\* m_ServerStream, RequestsFinished gets m_ServerStream itself.
HandOver(exec) ==
    CASE exec = "RequestsFinished" -> (holders \ {"ctx"}) \cup {"hook"}
      [] exec = "RequestReceived" /\ "ctx" \in holders -> holders \cup {"hook"}
      [] OTHER -> holders

\* The first part of ForwardProgress that has something to do.
FirstPart(e) == IF "write" \in e.do THEN "write" ELSE IF e.exec # "none" THEN "hook" ELSE "read"

\* The locked part of an entry of the engine thread.
Locked(sv) ==
    \E g \in {sv} : \E e \in {EvaluateState(g)} :
        /\ s' = e.s
        /\ eng' = [eng EXCEPT !.pc = FirstPart(e), !.do = e.do, !.exec = e.exec, !.req = e.req]
        /\ holders' = HandOver(e.exec)

\* The operations as gRPC gets them: Write with the oldest response, Finish with
\* the status of that moment.
Post(ops) == {[op |-> o, val |-> IF o = "write" THEN Head(s'.responses) ELSE 0,
               status |-> IF o = "finish" THEN s'.status ELSE "none"] : o \in ops}
RequestOp == [op |-> "request", val |-> 0, status |-> "none"]

\* CloseStream: the status is set; before the client has closed, what is queued
\* is dropped (whether or not its head is being written).
CloseStream(sv, status) ==
    [sv EXCEPT !.status = status, !.responses = IF sv.ReadsDone THEN @ ELSE <<>>]

Init ==
    /\ s = ResetState(FALSE)
    /\ eng = Quiet
    /\ worker = <<>>
    /\ holders = {} /\ connected = FALSE /\ reset = FALSE
    /\ sposted = {RequestOp} /\ scq = {}
    /\ handled = <<>>

(***************************************************************************)
(* Handlers of the engine thread.                                          *)
(***************************************************************************)
Take(ev) ==
    /\ eng.pc = "idle"
    /\ ev \in scq
    /\ scq' = scq \ {ev}
    /\ UNCHANGED <<style, worker, handled, wireVars>>

NextOf(op) == CASE op \in {"request", "finish"} -> s.next
                [] op = "read"  -> s.readNext
                [] op = "write" -> s.writeNext

\* StateInitializedDone: a ServerStream is made, the first read is posted.
StateInitializedDone(ev) ==
    /\ Take(ev) /\ NextOf(ev.op) = "InitializedDone"
    /\ s' = [s EXCEPT !.next = "Invalid", !.Reading = TRUE, !.requests = Append(@, 0),
                      !.readNext = "ReadDone"]
    /\ holders' = {"ctx"} /\ connected' = TRUE
    /\ eng' = [Quiet EXCEPT !.pc = "read", !.do = {"read"}]
    /\ UNCHANGED <<reset, sposted>>

\* StateReadDone: the request is in the last slot of the queue; not ok means
\* the client has closed (or is gone), and the slot is dropped.
StateReadDone(ev) ==
    /\ Take(ev) /\ NextOf(ev.op) = "ReadDone"
    /\ Locked(IF ev.ok
              THEN [s EXCEPT !.Reading = FALSE, !.requests[Len(s.requests)] = ev.val]
              ELSE [s EXCEPT !.Reading = FALSE, !.ReadsDone = TRUE, !.requests = Tail(@),
                             !.readNext = "Invalid"])
    /\ UNCHANGED <<connected, reset, sposted>>

\* StateWriteDone: not ok cancels the response (whose own EvaluateState posts
\* what it decides before the handler evaluates again); ok pops the response.
StateWriteDone(ev) ==
    /\ Take(ev) /\ NextOf(ev.op) = "WriteDone"
    /\ LET popped == [s EXCEPT !.Writing = FALSE, !.writeNext = "Invalid",
                               !.checks = @ /\ s.responses # <<>>,
                               !.responses = IF @ = <<>> THEN @ ELSE Tail(@)]
           failed == EvaluateState(CloseStream([s EXCEPT !.Writing = FALSE], "CANCELLED"))
       IN  IF ev.ok THEN Locked(popped) /\ UNCHANGED sposted
           ELSE Locked(failed.s) /\ sposted' = sposted \cup Post(failed.do)
    /\ UNCHANGED <<connected, reset>>

\* StateFinishedDone: the context lets go of its ServerStream and, if someone
\* else still holds it, disconnects it.
StateFinishedDone(ev) ==
    /\ Take(ev) /\ NextOf(ev.op) = "FinishedDone"
    /\ holders' = holders \ {"ctx"}
    /\ connected' = IF holders \ {"ctx"} = {} THEN connected ELSE FALSE
    /\ eng' = [Quiet EXCEPT !.pc = IF holders = {"ctx"} THEN "deleter" ELSE "reset",
                            !.then = "reset"]
    /\ UNCHANGED <<s, reset, sposted>>

(***************************************************************************)
(* ForwardProgress of the engine thread, one step per part.                *)
(***************************************************************************)
PostWrite ==
    /\ eng.pc = "write"
    /\ UNCHANGED s
    /\ sposted' = sposted \cup Post(eng.do \cap {"write"})
    /\ eng' = [eng EXCEPT !.pc = IF eng.exec = "none" THEN "read" ELSE "hook"]
    /\ UNCHANGED <<style, worker, holders, connected, reset, scq, handled, wireVars>>

\* A call the hook makes into the context: locked, evaluated and posted at once
\* (the hook runs inside ForwardProgress, so nothing else of this thread does).
Nested(sv) ==
    \E g \in {sv} : \E e \in {EvaluateState(g)} :
        /\ s' = e.s
        /\ sposted' = sposted \cup Post(e.do)

\* RequestReceived as the application implements it.
RequestReceived ==
    /\ eng.pc = "hook" /\ eng.exec = "RequestReceived"
    /\ handled' = Append(handled, eng.req)
    /\ eng' = [eng EXCEPT !.pc = "read"]
    /\ LET answer == [s EXCEPT !.responses = Append(@, eng.req)]
           valid  == "hook" \in holders /\ connected
       IN  \/ /\ valid /\ style \in {"pingpong", "drop"}
              /\ Nested(answer)
              /\ UNCHANGED <<worker, holders, connected>>
           \/ /\ valid /\ style = "block"
              /\ Nested([answer EXCEPT !.BlockFinish = TRUE])
              /\ UNCHANGED <<worker, holders, connected>>
           \/ /\ valid /\ style \in {"worker", "late"}
              /\ worker' = Append(worker, [pc |-> "write", req |-> eng.req, do |-> {}])
              /\ holders' = holders \cup {"worker"}
              /\ UNCHANGED <<s, sposted, connected>>
           \/ /\ valid /\ style = "early"
              /\ IF eng.req >= 2 THEN /\ Nested(CloseStream(s, "OK"))
                                      /\ connected' = FALSE
                 ELSE Nested(answer) /\ UNCHANGED connected
              /\ UNCHANGED <<worker, holders>>
           \/ /\ ~valid
              /\ UNCHANGED <<s, sposted, worker, holders, connected>>
    /\ UNCHANGED <<style, reset, scq, wireVars>>

\* RequestsFinished as the application implements it.
RequestsFinished ==
    /\ eng.pc = "hook" /\ eng.exec = "RequestsFinished"
    /\ style = "worker" => worker = <<>>
    /\ eng' = [eng EXCEPT !.pc = "read"]
    /\ \/ /\ connected /\ style \in {"pingpong", "block", "worker", "late"}
          /\ Nested(CloseStream([s EXCEPT !.BlockFinish = FALSE], "OK"))
          /\ connected' = FALSE
       \/ /\ style \in {"drop", "early"} \/ ~connected
          /\ UNCHANGED <<s, sposted, connected>>
    /\ UNCHANGED <<style, worker, holders, reset, scq, handled, wireVars>>

\* The read and Finish; then the hook's reference dies with the handler.
PostRead ==
    /\ eng.pc = "read"
    /\ UNCHANGED s
    /\ sposted' = sposted \cup Post(eng.do \cap {"read", "finish"})
    /\ holders' = holders \ {"hook"}
    /\ eng' = IF holders = {"hook"} THEN [Quiet EXCEPT !.pc = "deleter", !.then = eng.then]
              ELSE [Quiet EXCEPT !.pc = IF eng.deleting THEN "delete" ELSE eng.then,
                                 !.then = eng.then]
    /\ UNCHANGED <<style, worker, connected, reset, scq, handled, wireVars>>

\* The custom deleter of the last reference: the context is evaluated ...
Deleter ==
    /\ eng.pc = "deleter"
    /\ LET e == EvaluateState(s)
       IN  /\ s' = e.s
           /\ eng' = [eng EXCEPT !.pc = FirstPart(e), !.do = e.do, !.exec = e.exec,
                                 !.req = e.req, !.deleting = TRUE]
           /\ holders' = HandOver(e.exec)
    /\ UNCHANGED <<style, worker, connected, reset, sposted, scq, handled, wireVars>>

\* ... and a ServerStream nobody closed unblocks and cancels the call.
Delete ==
    /\ eng.pc = "delete"
    /\ IF connected THEN Nested(CloseStream([s EXCEPT !.BlockFinish = FALSE], "CANCELLED"))
       ELSE UNCHANGED <<s, sposted>>
    /\ connected' = FALSE
    /\ eng' = [Quiet EXCEPT !.pc = eng.then]
    /\ UNCHANGED <<style, worker, holders, reset, scq, handled, wireVars>>

\* The worker of the executor resets the context when its handler says so.
Reset ==
    /\ eng.pc = "reset"
    /\ s' = ResetState(s.BlockFinish)
    /\ reset' = TRUE
    /\ sposted' = sposted \cup {RequestOp}
    /\ eng' = Quiet
    /\ UNCHANGED <<style, worker, holders, connected, scq, handled, wireVars>>

(***************************************************************************)
(* The worker thread of the application: WriteResponse for a request it    *)
(* was handed, then the release of the reference it came with.             *)
(***************************************************************************)
WorkerWrite ==
    /\ worker # <<>> /\ Head(worker).pc = "write"
    /\ LET e == EvaluateState([s EXCEPT !.responses = Append(@, Head(worker).req)])
       IN  IF connected THEN /\ s' = e.s
                             /\ worker' = [worker EXCEPT ![1].pc = "post", ![1].do = e.do]
           ELSE /\ worker' = [worker EXCEPT ![1].pc = "release"]
                /\ UNCHANGED s
    /\ UNCHANGED <<style, eng, holders, connected, reset, sposted, scq, handled, wireVars>>

WorkerPost ==
    /\ worker # <<>> /\ Head(worker).pc = "post"
    /\ UNCHANGED s
    /\ sposted' = sposted \cup Post(Head(worker).do)
    /\ worker' = [worker EXCEPT ![1].pc = "release"]
    /\ UNCHANGED <<style, eng, holders, connected, reset, scq, handled, wireVars>>

\* The release; if it was the last reference the deleter runs on this thread.
WorkerRelease ==
    /\ worker # <<>> /\ Head(worker).pc = "release"
    /\ worker' = Tail(worker)
    /\ holders' = IF Len(worker) = 1 THEN holders \ {"worker"} ELSE holders
    /\ IF holders' # {} THEN UNCHANGED <<s, sposted, connected, handled>>
       ELSE LET e == EvaluateState(s)
                d == EvaluateState(CloseStream([e.s EXCEPT !.BlockFinish = FALSE], "CANCELLED"))
            IN  /\ s' = IF connected THEN d.s ELSE e.s
                /\ sposted' = sposted \cup Post(IF connected THEN e.do \cup d.do ELSE e.do)
                /\ handled' = IF e.exec = "RequestReceived" THEN Append(handled, e.req) ELSE handled
                /\ connected' = FALSE
    /\ UNCHANGED <<style, eng, reset, scq, wireVars>>

Handle ==
    \E ev \in scq : \/ StateInitializedDone(ev) \/ StateReadDone(ev)
                    \/ StateWriteDone(ev) \/ StateFinishedDone(ev)

EngineStep ==
    \/ Handle \/ PostWrite \/ RequestReceived \/ RequestsFinished
    \/ PostRead \/ Deleter \/ Delete \/ Reset
WorkerStep == WorkerWrite \/ WorkerPost \/ WorkerRelease
=============================================================================
