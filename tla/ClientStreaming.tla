-------------------------- MODULE ClientStreaming ---------------------------
(***************************************************************************)
(* The streaming gRPC clients of nvrpc: fiber::ClientStreaming             *)
(* (client_fiber_streaming.h), v3::ClientStreaming and v2::ClientStreaming *)
(* share one state machine and differ in when the completion is signalled  *)
(* and in who runs the events; it is written here from the fiber client,   *)
(* and the second part says how each of the others uses it.  A user thread *)
(* calls Initialize, Write, CloseWrites and Cancel; an engine thread runs  *)
(* the handler of every completed operation.  Both take m_Mutex, update    *)
(* the flags, let EvaluateState decide what to post, and post it AFTER     *)
(* releasing the mutex (ForwardProgress).                                  *)
(*                                                                         *)
(* The stream object itself is gRPC's (external): an operation is posted   *)
(* with a tag, completes some time later, and its tag is handed to the     *)
(* engine with ok or not ok.                                               *)
(***************************************************************************)
EXTENDS Integers, Sequences

CONSTANT NumRequests  \* bound: requests the user thread writes, 1..NumRequests

VARIABLES
    version,   \* which client: "v1", "v2", "v3" or "fiber"
    f,         \* the members of the client, guarded by m_Mutex
    act,       \* per thread: operations decided under the mutex, not yet posted
    cposted,   \* operations posted to gRPC and not completed, a write with its request
    ccq,       \* completed operations waiting in the completion queue
    engine,    \* "running", or "exited" once a handler returned false
    signals,   \* how often the completion was signalled to the user
    accepted,  \* requests for which Write returned true
    received,  \* responses handed to CallbackOnResponseReceived
    up, upEnd, down, trailer, dead  \* the call as gRPC carries it (see RpcStream)

flagVars == <<f, act>>
grpcVars == <<cposted, ccq>>
userVars == <<signals, accepted, received>>
wireVars == <<up, upEnd, down, trailer, dead>>

Threads == {"user", "engine"}

\* The operation a tag belongs to: the primary context carries StartCall and
\* Finish, m_WriteState carries Write and WritesDone, m_ReadState carries Read.
NextOf(fl, op) == CASE op \in {"start", "finish"} -> fl.next
                    [] op \in {"write", "close"}  -> fl.writeNext
                    [] op = "read"                -> fl.readNext

\* The constructor: every flag false, every next state StateInvalid.
Fresh ==
    [Initialized |-> FALSE, Reading |-> FALSE, Writing |-> FALSE, Closing |-> FALSE,
     Finishing |-> FALSE, ReadsDone |-> FALSE, WritesDone |-> FALSE,
     ClosedDone |-> FALSE, FinishDone |-> FALSE, Complete |-> FALSE,
     queue |-> <<>>, status |-> "none", checks |-> TRUE, DoneCalled |-> FALSE,
     next |-> "Invalid", readNext |-> "Invalid", writeNext |-> "Invalid"]

\* The conditions of EvaluateState, in its order; "writing" and "reading" are
\* the flags after the earlier ones have fired.
ShouldRead(fl)  == ~fl.Reading /\ ~fl.ReadsDone
ShouldWrite(fl) == ~fl.Writing /\ fl.queue # <<>>

(* Mutant of ShouldClose: WritesDone does not wait for the queued writes. *)
ShouldCloseEarly(fl, writing) == ~fl.Closing /\ fl.WritesDone

ShouldClose(fl, writing) == ~fl.Closing /\ ~writing /\ fl.WritesDone

(* Mutant of ShouldFinish: Finish does not wait for WritesDone to complete. *)
ShouldFinishEarly(fl, reading, writing) ==
    /\ ~reading /\ ~writing /\ ~fl.Finishing
    /\ fl.ReadsDone /\ fl.WritesDone /\ ~fl.FinishDone

ShouldFinish(fl, reading, writing) ==
    /\ ~reading /\ ~writing /\ ~fl.Finishing
    /\ fl.ReadsDone /\ fl.WritesDone /\ fl.ClosedDone /\ ~fl.FinishDone

(* Mutant of ShouldComplete: the user is told before Finish has completed. *)
ShouldCompleteEarly(fl) ==
    fl.ReadsDone /\ fl.WritesDone /\ fl.ClosedDone /\ ~fl.Complete

ShouldComplete(fl) ==
    /\ fl.ReadsDone /\ fl.WritesDone /\ fl.ClosedDone
    /\ fl.FinishDone /\ ~fl.Complete

\* What may be posted next.  Nothing before the stream is initialized; then a
\* read whenever none is outstanding, the oldest queued write, WritesDone once
\* the queue has drained, Finish once both directions are closed, and the
\* completion once Finish is done.  The two DCHECKs are kept in "checks".
EvaluateState(fl) ==
    LET read     == ShouldRead(fl)
        write    == ShouldWrite(fl)
        reading  == fl.Reading \/ read
        writing  == fl.Writing \/ write
        close    == ShouldClose(fl, writing)
        finish   == ShouldFinish(fl, reading, writing)
        complete == ShouldComplete(fl)
        after    == [fl EXCEPT !.Reading = reading, !.Writing = writing,
                               !.Closing = @ \/ close, !.Finishing = @ \/ finish,
                               !.Complete = @ \/ complete,
                               !.readNext = IF read THEN "ReadDone" ELSE @,
                               !.writeNext = IF close THEN "WritesDoneDone"
                                             ELSE IF write THEN "WriteDone" ELSE @,
                               !.next = IF finish THEN "FinishDone" ELSE @]
        checks   == finish => after.readNext = "Invalid" /\ after.writeNext = "Invalid"
        if(b, o) == IF b THEN {o} ELSE {}
    IN  IF fl.next = "StreamInitialized" THEN [fl |-> fl, do |-> {}]
        ELSE [fl |-> [after EXCEPT !.checks = @ /\ checks],
              do |-> if(read, "read") \cup if(write, "write") \cup if(close, "close")
                     \cup if(finish, "finish") \cup if(complete, "complete")]

\* v3 and fiber call CallbackOnComplete inside EvaluateState, under the mutex;
\* v1 and v2 signal in ForwardProgress.
Told(e) == [fl |-> e.fl, do |-> e.do \ {"complete"}, told |-> "complete" \in e.do]
FiberEvaluateState(fl) == Told(EvaluateState(fl))
V3EvaluateState(fl) == Told(EvaluateState(fl))
V2EvaluateState(fl) ==
    LET e == EvaluateState(fl) IN [fl |-> e.fl, do |-> e.do, told |-> FALSE]

\* v1 has no m_Complete, so it decides to complete every time, and no DCHECK; it
\* has no m_ClosedDone either, which V1Fresh stands for.
V1EvaluateState(fl) ==
    LET e == EvaluateState([fl EXCEPT !.Complete = FALSE])
    IN  [fl |-> [e.fl EXCEPT !.checks = TRUE], do |-> e.do, told |-> FALSE]

Evaluate(fl) == CASE version = "v1" -> V1EvaluateState(fl)
                  [] version = "v2" -> V2EvaluateState(fl)
                  [] version = "v3" -> V3EvaluateState(fl)
                  [] version = "fiber" -> FiberEvaluateState(fl)

\* The locked part of a call: new flags, evaluated; what it decided is left to
\* the thread's ForwardProgress.
Locked(t, fl) ==
    \E g \in {fl} : \E e \in {Evaluate(g)} :
        /\ f' = e.fl
        /\ act' = [act EXCEPT ![t] = e.do]
        /\ signals' = IF e.told THEN signals + 1 ELSE signals

\* TryCancel: gRPC gives the call up; what is posted completes not ok.
TryCancel(b) == dead' = (dead \/ b)

Idle(t) == act[t] = {}

Init(fresh) ==
    /\ f = fresh
    /\ act = [t \in Threads |-> {}]
    /\ cposted = {} /\ ccq = {}
    /\ engine = "running"
    /\ signals = 0 /\ accepted = <<>> /\ received = <<>>

(***************************************************************************)
(* The user thread.                                                        *)
(***************************************************************************)
\* Initialize: StartCall is posted under the mutex.
Initialize ==
    /\ ~f.Initialized
    /\ f' = [f EXCEPT !.Initialized = TRUE, !.next = "StreamInitialized"]
    /\ cposted' = cposted \cup {[op |-> "start", val |-> 0]}
    /\ UNCHANGED <<version, act, ccq, engine, userVars, wireVars>>

(* Mutant of Write: a new request is queued ahead of the waiting ones. *)
WriteAhead ==
    /\ f.Initialized /\ Idle("user")
    /\ Len(accepted) < NumRequests
    /\ ~f.WritesDone
    /\ LET r == Len(accepted) + 1
       IN  /\ accepted' = Append(accepted, r)
           /\ Locked("user", [f EXCEPT !.queue = <<r>> \o @])
    /\ UNCHANGED <<version, grpcVars, engine, received, wireVars>>

\* Write: refused once m_WritesDone, else queued and evaluated.
Write ==
    /\ f.Initialized /\ Idle("user")
    /\ Len(accepted) < NumRequests
    /\ ~f.WritesDone
    /\ LET r == Len(accepted) + 1
       IN  /\ accepted' = Append(accepted, r)
           /\ Locked("user", [f EXCEPT !.queue = Append(@, r)])
    /\ UNCHANGED <<version, grpcVars, engine, received, wireVars>>

\* CloseWrites (Done in v2): no more writes; a second call changes nothing.
CloseWrites ==
    /\ f.Initialized /\ Idle("user")
    /\ ~f.WritesDone
    /\ Locked("user", [f EXCEPT !.WritesDone = TRUE])
    /\ UNCHANGED <<version, grpcVars, engine, accepted, received, wireVars>>

\* Cancel: sets m_WritesDone and cancels the call, without evaluating.
Cancel ==
    /\ f.Initialized /\ Idle("user")
    /\ ~dead
    /\ f' = [f EXCEPT !.WritesDone = TRUE]
    /\ TryCancel(TRUE)
    /\ UNCHANGED <<version, act, grpcVars, engine, userVars, up, upEnd, down, trailer>>

(***************************************************************************)
(* ForwardProgress, by either thread, outside the mutex.                   *)
(***************************************************************************)
ForwardProgress(t) ==
    /\ act[t] # {}
    /\ cposted' = cposted \cup {[op |-> o, val |-> IF o = "write" THEN Head(f.queue) ELSE 0] :
                                  o \in act[t] \ {"complete"}}
    /\ signals' = IF "complete" \in act[t] THEN signals + 1 ELSE signals
    /\ act' = [act EXCEPT ![t] = {}]
    /\ UNCHANGED <<version, f, ccq, engine, accepted, received, wireVars>>

(***************************************************************************)
(* The engine thread: one event of the queue, dispatched to the next state *)
(* of the context its tag names.                                           *)
(***************************************************************************)
Take(ev) ==
    /\ engine = "running" /\ Idle("engine")
    /\ ev \in ccq
    /\ ccq' = ccq \ {ev}
    /\ UNCHANGED <<version, cposted, accepted>>

\* StateStreamInitialized(false): everything is done at once, no lock taken.
StateStreamInitializedFailed(ev) ==
    /\ Take(ev) /\ NextOf(f, ev.op) = "StreamInitialized" /\ ~ev.ok
    /\ f' = [f EXCEPT !.status = "CANCELLED", !.ReadsDone = TRUE, !.WritesDone = TRUE,
                      !.ClosedDone = TRUE, !.FinishDone = TRUE, !.Complete = TRUE]
    /\ signals' = signals + 1
    /\ engine' = IF version = "fiber" THEN "exited" ELSE engine
    /\ UNCHANGED <<act, received, wireVars>>

StateStreamInitialized(ev) ==
    /\ Take(ev) /\ NextOf(f, ev.op) = "StreamInitialized" /\ ev.ok
    /\ Locked("engine", [f EXCEPT !.next = "Invalid"])
    /\ UNCHANGED <<engine, received, wireVars>>

\* StateReadDone: not ok means the server closed its side or the call is gone;
\* a write still outstanding is then cancelled.
StateReadDone(ev) ==
    /\ Take(ev) /\ NextOf(f, ev.op) = "ReadDone"
    /\ Locked("engine", [f EXCEPT !.Reading = FALSE, !.readNext = "Invalid",
                                  !.ReadsDone = @ \/ ~ev.ok, !.WritesDone = @ \/ ~ev.ok])
    /\ received' = IF ev.ok THEN Append(received, ev.val) ELSE received
    /\ TryCancel(~ev.ok /\ f.Writing)
    /\ UNCHANGED <<engine, up, upEnd, down, trailer>>

\* StateWriteDone: not ok drops the queue and, unless reads are done, the call.
StateWriteDone(ev) ==
    /\ Take(ev) /\ NextOf(f, ev.op) = "WriteDone"
    /\ Locked("engine", [f EXCEPT !.Writing = FALSE, !.writeNext = "Invalid",
                                  !.WritesDone = @ \/ ~ev.ok,
                                  !.queue = IF ev.ok THEN Tail(@) ELSE <<>>])
    /\ TryCancel(~ev.ok /\ ~f.ReadsDone)
    /\ UNCHANGED <<engine, received, up, upEnd, down, trailer>>

StateWritesDoneDone(ev) ==
    /\ Take(ev) /\ NextOf(f, ev.op) = "WritesDoneDone"
    /\ Locked("engine", [f EXCEPT !.ClosedDone = TRUE, !.writeNext = "Invalid"])
    /\ TryCancel(~ev.ok /\ ~f.ReadsDone)
    /\ UNCHANGED <<engine, received, up, upEnd, down, trailer>>

\* StateFinishDone returns false: the fiber client's engine ends (the executor
\* of v2 and v3 goes on, with nothing left to run for this client).
StateFinishDone(ev) ==
    /\ Take(ev) /\ NextOf(f, ev.op) = "FinishDone"
    /\ Locked("engine", [f EXCEPT !.Finishing = FALSE, !.FinishDone = TRUE, !.status = ev.status])
    /\ TryCancel(~ev.ok)
    /\ engine' = IF version = "fiber" THEN "exited" ELSE engine
    /\ UNCHANGED <<received, up, upEnd, down, trailer>>
---------------------------------------------------------------------------
(***************************************************************************)
(* The four versions of the client and the code of each.  The fiber client *)
(* is the one above; v3 and v2 have the same members and handlers and      *)
(* differ in EvaluateState and ForwardProgress (who signals the            *)
(* completion) and in the engine, which is the executor's thread and       *)
(* outlives the call.  v1 (client_streaming.h) has handlers of its own: a  *)
(* failed operation returns without evaluating.                            *)
(***************************************************************************)
FiberUser == version = "fiber" /\ (Initialize \/ Write \/ CloseWrites \/ ForwardProgress("user"))
FiberHandle(ev) ==
    /\ version = "fiber"
    /\ \/ StateStreamInitializedFailed(ev) \/ StateStreamInitialized(ev)
       \/ StateReadDone(ev) \/ StateWriteDone(ev)
       \/ StateWritesDoneDone(ev) \/ StateFinishDone(ev)

(***************************************************************************)
(* v3::ClientStreaming.                                                    *)
(***************************************************************************)
V3Initialize == version = "v3" /\ Initialize
V3Write == version = "v3" /\ Write
V3CloseWrites == version = "v3" /\ CloseWrites
V3Cancel == version = "v3" /\ Cancel
V3ForwardProgress(t) == version = "v3" /\ ForwardProgress(t)
V3StateStreamInitialized(ev) ==
    version = "v3" /\ (StateStreamInitialized(ev) \/ StateStreamInitializedFailed(ev))
V3StateReadDone(ev) == version = "v3" /\ StateReadDone(ev)
V3StateWriteDone(ev) == version = "v3" /\ StateWriteDone(ev)
V3StateWritesDoneDone(ev) == version = "v3" /\ StateWritesDoneDone(ev)
V3StateFinishDone(ev) == version = "v3" /\ StateFinishDone(ev)

V3User == V3Initialize \/ V3Write \/ V3CloseWrites \/ V3ForwardProgress("user")
V3Handle(ev) == \/ V3StateStreamInitialized(ev) \/ V3StateReadDone(ev)
                \/ V3StateWriteDone(ev) \/ V3StateWritesDoneDone(ev) \/ V3StateFinishDone(ev)

(***************************************************************************)
(* v2::ClientStreaming.  Done is its CloseWrites.                          *)
(***************************************************************************)
V2Initialize == version = "v2" /\ Initialize
V2Write == version = "v2" /\ Write
V2Done == version = "v2" /\ CloseWrites
V2Cancel == version = "v2" /\ Cancel
V2ForwardProgress(t) == version = "v2" /\ ForwardProgress(t)
V2StateStreamInitialized(ev) ==
    version = "v2" /\ (StateStreamInitialized(ev) \/ StateStreamInitializedFailed(ev))
V2StateReadDone(ev) == version = "v2" /\ StateReadDone(ev)
V2StateWriteDone(ev) == version = "v2" /\ StateWriteDone(ev)
V2StateWritesDoneDone(ev) == version = "v2" /\ StateWritesDoneDone(ev)
V2StateFinishDone(ev) == version = "v2" /\ StateFinishDone(ev)

V2User == V2Initialize \/ V2Write \/ V2Done \/ V2ForwardProgress("user")
V2Handle(ev) == \/ V2StateStreamInitialized(ev) \/ V2StateReadDone(ev)
                \/ V2StateWriteDone(ev) \/ V2StateWritesDoneDone(ev) \/ V2StateFinishDone(ev)

(***************************************************************************)
(* ClientStreaming, the first version.  A call is started by the           *)
(* constructor; there is no Cancel.                                        *)
(***************************************************************************)
V1Fresh == [Fresh EXCEPT !.ClosedDone = TRUE]

V1Initialize == version = "v1" /\ Initialize

V1Write ==
    /\ version = "v1" /\ f.Initialized /\ Idle("user")
    /\ Len(accepted) < NumRequests
    /\ ~f.WritesDone
    /\ LET r == Len(accepted) + 1
       IN  /\ accepted' = Append(accepted, r)
           /\ Locked("user", [f EXCEPT !.queue = Append(@, r), !.writeNext = "WriteDone"])
    /\ UNCHANGED <<version, grpcVars, engine, received, wireVars>>

\* Done may be called once (its future is taken from the promise), whether or
\* not the server has closed the stream by then.
V1Done ==
    /\ version = "v1" /\ f.Initialized /\ Idle("user")
    /\ ~f.DoneCalled
    /\ Locked("user", [f EXCEPT !.WritesDone = TRUE, !.DoneCalled = TRUE])
    /\ UNCHANGED <<version, grpcVars, engine, accepted, received, wireVars>>

\* A promise set a second time throws: nothing follows it.
V1ForwardProgress(t) == version = "v1" /\ signals < 2 /\ ForwardProgress(t)

\* The first read is posted by the handler itself; a call that does not start
\* leaves the client as it is.
V1StateStreamInitialized(ev) ==
    /\ version = "v1" /\ Take(ev) /\ NextOf(f, ev.op) = "StreamInitialized"
    /\ \/ /\ ev.ok
          /\ \E e \in {V1EvaluateState([f EXCEPT !.next = "Invalid", !.Reading = TRUE,
                                                  !.readNext = "ReadDone"])} :
               f' = e.fl /\ act' = [act EXCEPT !["engine"] = e.do \cup {"read"}]
       \/ ~ev.ok /\ UNCHANGED <<f, act>>
    /\ UNCHANGED <<signals, engine, received, wireVars>>

V1StateReadDone(ev) ==
    /\ version = "v1" /\ Take(ev) /\ NextOf(f, ev.op) = "ReadDone"
    /\ Locked("engine", [f EXCEPT !.Reading = FALSE, !.readNext = "Invalid",
                                  !.ReadsDone = @ \/ ~ev.ok, !.WritesDone = @ \/ ~ev.ok,
                                  !.Closing = @ \/ ~ev.ok])
    /\ received' = IF ev.ok THEN Append(received, ev.val) ELSE received
    /\ TryCancel(~ev.ok /\ f.Writing)
    /\ UNCHANGED <<engine, up, upEnd, down, trailer>>

\* After a failed operation the handler returns: the new flags fl stay as they
\* are, evaluated by whoever comes next.
V1Locked(ev, fl) ==
    IF ev.ok THEN Locked("engine", fl) ELSE f' = fl /\ UNCHANGED <<act, signals>>

V1StateWriteDone(ev) ==
    /\ version = "v1" /\ Take(ev) /\ NextOf(f, ev.op) = "WriteDone"
    /\ V1Locked(ev, [f EXCEPT !.Writing = FALSE, !.writeNext = "Invalid",
                              !.queue = Tail(@), !.WritesDone = @ \/ ~ev.ok])
    /\ TryCancel(~ev.ok /\ ~f.ReadsDone)
    /\ UNCHANGED <<engine, received, up, upEnd, down, trailer>>

V1StateWritesDoneDone(ev) ==
    /\ version = "v1" /\ Take(ev) /\ NextOf(f, ev.op) = "WritesDoneDone"
    /\ V1Locked(ev, [f EXCEPT !.writeNext = "Invalid"])
    /\ TryCancel(~ev.ok /\ ~f.ReadsDone)
    /\ UNCHANGED <<engine, received, up, upEnd, down, trailer>>

V1StateFinishDone(ev) ==
    /\ version = "v1" /\ Take(ev) /\ NextOf(f, ev.op) = "FinishDone"
    /\ V1Locked(ev, [f EXCEPT !.Finishing = FALSE, !.FinishDone = TRUE, !.status = ev.status])
    /\ TryCancel(~ev.ok)
    /\ UNCHANGED <<engine, received, up, upEnd, down, trailer>>

V1User == V1Initialize \/ V1Write \/ V1Done \/ V1ForwardProgress("user")
V1Handle(ev) == \/ V1StateStreamInitialized(ev) \/ V1StateReadDone(ev)
                \/ V1StateWriteDone(ev) \/ V1StateWritesDoneDone(ev) \/ V1StateFinishDone(ev)

(***************************************************************************)
(* Any of them.                                                            *)
(***************************************************************************)
ClientInit == Init(IF version = "v1" THEN V1Fresh ELSE Fresh)
User == FiberUser \/ V3User \/ V2User \/ V1User
UserCancel == (version = "fiber" /\ Cancel) \/ V3Cancel \/ V2Cancel
Progress(t) == (version = "fiber" /\ ForwardProgress(t)) \/ V3ForwardProgress(t)
               \/ V2ForwardProgress(t) \/ V1ForwardProgress(t)
EngineStep ==
    \/ \E ev \in ccq : FiberHandle(ev) \/ V3Handle(ev) \/ V2Handle(ev) \/ V1Handle(ev)
    \/ Progress("engine")
=============================================================================
