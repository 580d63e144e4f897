----------------------------- MODULE RpcStream ------------------------------
(***************************************************************************)
(* A streaming call end to end: a ClientStreaming client and a             *)
(* LifeCycleStreaming context joined by the gRPC call between them.  The   *)
(* call is external: each direction is a FIFO of messages, a posted        *)
(* operation completes some time later, and a call that is cancelled or    *)
(* whose transport breaks ("dead") completes what is posted with not ok.   *)
(***************************************************************************)
EXTENDS Integers, Sequences, SequencesExt

CONSTANTS
    NumRequests,  \* bound: requests the client writes
    Pairs,        \* pairs of a version of the client and an application of the server
    FaultStyles   \* applications under which the client may cancel or the transport break

VARIABLES version, f, act, cposted, ccq, engine, signals, accepted, received
VARIABLES style, s, eng, worker, holders, connected, reset, sposted, scq, handled
VARIABLES
    up,       \* requests on their way to the server
    upEnd,    \* the client's WritesDone has been sent
    down,     \* responses on their way to the client
    trailer,  \* the status the server finished with, or "none"
    dead,     \* cancelled or broken
    call      \* "none", "started" by the client, "accepted" by the server

C == INSTANCE ClientStreaming
S == INSTANCE LifeCycleStreaming

wire == <<up, upEnd, down, trailer, dead>>
cvars == <<version, f, act, cposted, ccq, engine, signals, accepted, received>>
svars == <<style, s, eng, worker, holders, connected, reset, sposted, scq, handled>>
vars == <<cvars, svars, wire, call>>

Init ==
    /\ \E p \in Pairs : version = p[1] /\ style = p[2]
    /\ C!ClientInit /\ S!Init
    /\ up = <<>> /\ upEnd = FALSE /\ down = <<>> /\ trailer = "none" /\ dead = FALSE
    /\ call = "none"

(***************************************************************************)
(* gRPC.                                                                   *)
(***************************************************************************)
CEvent(o, ok, v, st) == [op |-> o, ok |-> ok, val |-> v, status |-> st]

\* A posted operation of the client completes.
CDone(p, ok, v, st) ==
    /\ p \in cposted
    /\ cposted' = cposted \ {p}
    /\ ccq' = ccq \cup {CEvent(p.op, ok, v, st)}
    /\ UNCHANGED <<version, f, act, engine, signals, accepted, received, svars, dead>>

CStart(p) ==
    /\ p.op = "start" /\ CDone(p, ~dead, 0, "none")
    /\ call' = IF dead THEN call ELSE "started"
    /\ UNCHANGED <<up, upEnd, down, trailer>>

CWrite(p) ==
    /\ p.op = "write"
    /\ \/ /\ ~dead /\ CDone(p, TRUE, 0, "none")
          /\ up' = Append(up, p.val)
       \/ /\ dead \/ trailer # "none"
          /\ CDone(p, FALSE, 0, "none") /\ UNCHANGED up
    /\ UNCHANGED <<upEnd, down, trailer, call>>

CClose(p) ==
    /\ p.op = "close"
    /\ \/ /\ ~dead /\ CDone(p, TRUE, 0, "none") /\ upEnd' = TRUE
       \/ /\ dead \/ trailer # "none"
          /\ CDone(p, FALSE, 0, "none") /\ UNCHANGED upEnd
    /\ UNCHANGED <<up, down, trailer, call>>

CRead(p) ==
    /\ p.op = "read"
    /\ \/ /\ down # <<>> /\ CDone(p, TRUE, Head(down), "none")
          /\ down' = Tail(down)
       \/ /\ dead \/ (down = <<>> /\ trailer # "none")
          /\ CDone(p, FALSE, 0, "none") /\ UNCHANGED down
    /\ UNCHANGED <<up, upEnd, trailer, call>>

CFinish(p) ==
    /\ p.op = "finish"
    /\ \/ trailer # "none" /\ down = <<>> /\ CDone(p, TRUE, 0, trailer)
       \/ dead /\ CDone(p, TRUE, 0, "CANCELLED")
    /\ UNCHANGED <<up, upEnd, down, trailer, call>>

\* A posted operation of the server completes.
SDone(p, ok, v) ==
    /\ p \in sposted
    /\ sposted' = sposted \ {p}
    /\ scq' = scq \cup {CEvent(p.op, ok, v, "none")}
    /\ UNCHANGED <<style, s, eng, worker, holders, connected, reset, handled, cvars, dead>>

SRequest(p) ==
    /\ p.op = "request" /\ call = "started" /\ SDone(p, TRUE, 0)
    /\ call' = "accepted"
    /\ UNCHANGED <<up, upEnd, down, trailer>>

SRead(p) ==
    /\ p.op = "read" /\ call = "accepted"
    /\ \/ /\ up # <<>> /\ SDone(p, TRUE, Head(up)) /\ up' = Tail(up)
       \/ /\ dead \/ (up = <<>> /\ upEnd)
          /\ SDone(p, FALSE, 0) /\ UNCHANGED up
    /\ UNCHANGED <<upEnd, down, trailer, call>>

SWrite(p) ==
    /\ p.op = "write" /\ SDone(p, ~dead, 0)
    /\ down' = IF dead THEN down ELSE Append(down, p.val)
    /\ UNCHANGED <<up, upEnd, trailer, call>>

SFinish(p) ==
    /\ p.op = "finish" /\ SDone(p, ~dead, 0)
    /\ trailer' = IF dead THEN trailer ELSE p.status
    /\ UNCHANGED <<up, upEnd, down, call>>

\* The transport breaks.
Break ==
    /\ style \in FaultStyles /\ f.Initialized /\ ~dead
    /\ dead' = TRUE
    /\ UNCHANGED <<cvars, svars, up, upEnd, down, trailer, call>>

GrpcClient ==
    \E p \in cposted : CStart(p) \/ CWrite(p) \/ CClose(p) \/ CRead(p) \/ CFinish(p)
GrpcServer ==
    \E p \in sposted : SRequest(p) \/ SRead(p) \/ SWrite(p) \/ SFinish(p)

UserStep == /\ \/ C!User
               \/ style \in FaultStyles /\ C!UserCancel
            /\ UNCHANGED <<svars, call>>
ClientEngine == C!EngineStep /\ UNCHANGED <<svars, call>>
ClientPost == C!Progress("user") /\ UNCHANGED <<svars, call>>
ServerEngine == S!EngineStep /\ UNCHANGED <<cvars, call>>
ServerWorker == S!WorkerStep /\ UNCHANGED <<cvars, call>>

Next == UserStep \/ ClientEngine \/ ServerEngine \/ ServerWorker 
        \/ GrpcClient \/ GrpcServer \/ Break

Spec == Init /\ [][Next]_vars

ClientSide == ClientPost \/ ClientEngine \/ GrpcClient
ServerSide == ServerEngine \/ ServerWorker \/ GrpcServer

\* Either side makes progress while it can: its threads run and gRPC completes
\* what it posted.  The user is free not to call, and nothing forces the
\* transport to break.
FairSpec == Spec /\ WF_vars(ClientSide) /\ WF_vars(ServerSide)

\* As FairSpec, and no kind of event of the server is put off for ever by events
\* of another kind.
ServerRead == \E p \in sposted : SRead(p)
HandleRead == (\E ev \in scq : S!StateReadDone(ev)) /\ UNCHANGED <<cvars, call>>
EventFairSpec == FairSpec /\ WF_vars(ServerRead) /\ SF_vars(HandleRead)

(***************************************************************************)
(* Properties.                                                             *)
(***************************************************************************)
\* gRPC allows one outstanding operation of a kind.  Both sides decide under a
\* mutex and post after it is released: whatever either thread of the client or
\* of the server is about to post, no operation of that kind is posted,
\* completed or about to be posted by the other thread; and the context of
\* every completed operation still has that operation's handler as next state
\* (never StateInvalid, which aborts).
Outstanding(q, p) == {x.op : x \in q \cup p}
OneOutstanding ==
    /\ \A t \in C!Threads : \A o \in act[t] \ {"complete"} :
         /\ o \notin Outstanding(cposted, ccq)
         /\ \A u \in C!Threads \ {t} : o \notin act[u]
    /\ "close" \in Outstanding(cposted, ccq) => "write" \notin Outstanding(cposted, ccq)
    /\ \A ev \in ccq : C!NextOf(f, ev.op) =
         CASE ev.op = "start" -> "StreamInitialized" [] ev.op = "read" -> "ReadDone"
           [] ev.op = "write" -> "WriteDone" [] ev.op = "close" -> "WritesDoneDone"
           [] ev.op = "finish" -> "FinishDone"
    /\ \A o \in eng.do : (eng.pc = "write" \/ o # "write") => o \notin Outstanding(sposted, scq)
    /\ \A ev \in scq : S!NextOf(ev.op) =
         CASE ev.op = "request" -> "InitializedDone" [] ev.op = "read" -> "ReadDone"
           [] ev.op = "write" -> "WriteDone" [] ev.op = "finish" -> "FinishedDone"

\* RequestReceived is called with the requests the client's Write accepted, each
\* once and in order, and the client is handed the answers in order.
InOrder == /\ IsPrefix(handled, accepted)
           /\ style # "early" => IsPrefix(received, accepted)

\* A call that completes with OK lost nothing: every request Write accepted was
\* handled, and every answer reached CallbackOnResponseReceived.
OkMeansAll ==
    f.Complete /\ f.status = "OK" /\ style # "early" =>
        handled = accepted /\ received = accepted

\* The user is told once, and by then nothing of the client is left behind: no
\* operation is posted or waits in the queue, so the client may be destroyed.
\* (The first version of the client is the exception, see PromiseSetOnce.)
CompleteIsLast ==
    version # "v1" =>
    /\ signals <= 1
    /\ signals = 1 => /\ Outstanding(cposted, ccq) = {}
                      /\ act["user"] = {} /\ f.Complete

\* The DCHECKs of EvaluateState and of the server's StateWriteDone hold.
ChecksHold == f.checks /\ s.checks

\* Once the writes are closed, or the call is dead, the user is told.  (The first
\* version of the client is the exception, see FutureIsSet.)
ClientCompletes ==
    (version # "v1" /\ f.Initialized /\ (f.WritesDone \/ dead)) ~> (signals = 1)

\* On a call that does not break, the context is reset for the next call once
\* the client has closed its side.
ServerResets == (f.Initialized /\ f.WritesDone) ~> (reset \/ dead)

(* The promise of the first version of the client is set once: a second       *)
(* set_value throws.                                                         *)
PromiseSetOnce == signals <= 1

(* The future Done returns is set in the end, also when a write fails.        *)
FutureIsSet == (f.DoneCalled /\ f.ReadsDone) ~> (signals > 0)

(* The comment at the head of the server's StateWriteDone: when a write does  *)
(* not go through the call is dead and the context starts resetting.         *)
FailedWriteResets == (\E ev \in scq : ev.op = "write" /\ ~ev.ok) ~> reset
-----------------------------------------------------------------------------
(* Every version of the client, every application that keeps to the          *)
(* interface, one pairing each.                                              *)
MCPairs == {<<"fiber", "pingpong">>, <<"fiber", "worker">>, <<"v2", "block">>,
            <<"v3", "pingpong">>, <<"v3", "drop">>, <<"v1", "pingpong">>}
-----------------------------------------------------------------------------
(* The server gets the requests and the client the responses in the order in *)
(* which they were written, and a client told OK has got all of them.        *)
StreamSound == InOrder /\ OkMeansAll

(* gRPC's rules for a call are kept on both sides: one operation of a kind   *)
(* at a time and none after the last; OnComplete comes once and last; and no *)
(* CHECK fails.                                                              *)
ProtocolKept == OneOutstanding /\ CompleteIsLast /\ ChecksHold

(* Every stream ends: the client is told once its writes are closed or the   *)
(* call is dead, and on a call that lives the server's context is reset.     *)
StreamEnds == ClientCompletes /\ ServerResets
=============================================================================
