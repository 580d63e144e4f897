---------------------------- MODULE UcxTransport ----------------------------
(***************************************************************************)
(* The UCX objects of a partition: a Context, the Workers "tx" and "rx", an *)
(* Endpoint from tx to rx, and a TaggedReceiveManager that polls rx from a  *)
(* fiber.  They hold each other by shared_ptr; the last handle to go runs   *)
(* the destructor, which gives back the native handle.  UCX and the network *)
(* are external: Send, Transmit, and whether a close is still in progress.  *)
(***************************************************************************)
EXTENDS Integers, Sequences

CONSTANTS
  MaxMessages,
  MaxBackoff,  \* where the backoff ends: 2^20 ns in the code
  Eager,       \* can a send be flushed before the receiver takes the message?
  SameThread,  \* the engine's fiber shares its thread with the user
  Joins        \* the user stops and joins the manager before dropping it

Objects == {"context", "tx", "rx", "endpoint", "manager"}
Workers == {"tx", "rx"}

VARIABLES
  holders,     \* who holds a handle of each object: "user" or other objects
  native,      \* ucp handles that exist
  closing,     \* ~Endpoint: "no", "progress", "done" or "failed"; one endpoint is made
  sent, wire, inbox, unexpected, handled,  \* messages on their way
  m_running, engine, backoff, joined,
  atStop       \* messages that had reached the worker when stop was called

vars == <<holders, native, closing, sent, wire, inbox, unexpected, handled, m_running,
          engine, backoff, joined, atStop>>
objects == <<holders, native, closing>>
manager == <<m_running, engine, backoff, joined, atStop>>
messages == <<sent, wire, inbox, unexpected, handled>>

Init ==
  /\ holders = [o \in Objects |-> {}] /\ native = {} /\ closing = "no"
  /\ sent = 0 /\ wire = <<>> /\ inbox = <<>> /\ unexpected = <<>> /\ handled = <<>>
  /\ m_running = FALSE /\ engine = "none" /\ backoff = 1 /\ joined = FALSE /\ atStop = 0

Held(o) == "user" \in holders[o]

(* On one thread the user runs where the engine's fiber yields or waits, and the *)
(* engine does not while the user spins in ~Endpoint.                            *)
UserRuns == closing # "progress" /\ (SameThread => engine \notin {"progress", "check"})
Runs == ~(SameThread /\ closing = "progress")
-----------------------------------------------------------------------------
(* Constructors.  Those of Context and Worker throw when UCX fails, which leaves *)
(* everything as it was; the user may try again.                                 *)
MakeContext ==
  /\ UserRuns /\ native = {} /\ handled = <<>> /\ sent = 0
  /\ holders' = [holders EXCEPT !["context"] = {"user"}]
  /\ native' = {"context"}
  /\ UNCHANGED <<closing, messages, manager>>

MakeWorker(w) ==
  /\ UserRuns /\ Held("context") /\ holders[w] = {} /\ w \notin native /\ engine = "none"
  /\ holders' = [holders EXCEPT ![w] = {"user"}, !["context"] = @ \cup {w}]
  /\ native' = native \cup {w}
  /\ UNCHANGED <<closing, messages, manager>>

(* Worker::create_endpoint, with the address of the other worker. *)
MakeEndpoint ==
  /\ UserRuns /\ Held("tx") /\ Held("rx") /\ holders["endpoint"] = {} /\ closing = "no"
  /\ holders' = [holders EXCEPT !["endpoint"] = {"user"}, !["tx"] = @ \cup {"endpoint"}]
  /\ native' = native \cup {"endpoint"}
  /\ UNCHANGED <<closing, messages, manager>>

MakeManager ==
  /\ UserRuns /\ Held("rx") /\ holders["manager"] = {} /\ engine = "none" /\ ~joined
  /\ holders' = [holders EXCEPT !["manager"] = {"user"}, !["rx"] = @ \cup {"manager"}]
  /\ UNCHANGED <<native, closing, messages, manager>>
-----------------------------------------------------------------------------
(* The handles h after object o has gone with the handles it held; an object    *)
(* that nobody holds any more goes too.                                          *)
Without(h, o) == [x \in Objects |-> h[x] \ {o}]

Unheld(h, alive) == {o \in alive : h[o] = {}}

(* Mutant of Released: the Context goes with the user's handle. *)
ReleasedEarly(h, alive) ==
  LET workers == Unheld(h, alive \cap Workers)
      left == [x \in Objects |-> h[x] \ workers]
  IN [holders |-> left,
      native |-> (alive \ workers) \ (IF "user" \notin left["context"] THEN {"context"} ELSE {})]

(* ~Worker and ~Context, in the order the handles go. *)
Released(h, alive) ==
  LET workers == Unheld(h, alive \cap Workers)
      left == [x \in Objects |-> h[x] \ workers]
  IN [holders |-> left,
      native |-> (alive \ workers) \ Unheld(left, alive \cap {"context"})]

Release(h, alive) ==
  \E r \in {Released(h, alive)} : holders' = r.holders /\ native' = r.native

(* The user drops a handle of the Context, a Worker or the manager. *)
Drop(o) ==
  /\ UserRuns /\ Held(o) /\ o # "endpoint"
  /\ (o = "manager" /\ Joins) => engine \in {"none", "done"}
  /\ LET dropped == [holders EXCEPT ![o] = @ \ {"user"}]
     IN Release(IF o = "manager" THEN Without(dropped, o) ELSE dropped, native)
  /\ UNCHANGED <<closing, messages, manager>>

(* ~Endpoint closes with a flush.  Nothing to flush and an error both return at  *)
(* once, and either way UCX has released the endpoint: after an error without    *)
(* the messages that were still to be sent.  A request is polled for, with the   *)
(* worker, without yielding the fiber.                                           *)
Flushed == wire = <<>> /\ (Eager \/ (inbox = <<>> /\ unexpected = <<>>))

EndpointGone(how) ==
  /\ closing' = how
  /\ Release(Without([holders EXCEPT !["endpoint"] = {}], "endpoint"), native \ {"endpoint"})

DropEndpoint ==
  /\ UserRuns /\ Held("endpoint")
  /\ \/ Flushed /\ EndpointGone("done") /\ UNCHANGED wire
     \/ EndpointGone("failed") /\ \E n \in 0 .. Len(wire) : wire' = SubSeq(wire, 1, n)
     \/ /\ closing' = "progress" /\ holders' = [holders EXCEPT !["endpoint"] = {}]
        /\ UNCHANGED <<native, wire>>
  /\ UNCHANGED <<sent, inbox, unexpected, handled, manager>>

CloseEndpoint ==
  /\ closing = "progress" /\ Flushed
  /\ EndpointGone("done")
  /\ UNCHANGED <<messages, manager>>
-----------------------------------------------------------------------------
(* The tagged sends of the endpoint's user, and the network. *)
Send ==
  /\ UserRuns /\ Held("endpoint") /\ sent < MaxMessages
  /\ sent' = sent + 1 /\ wire' = Append(wire, sent + 1)
  /\ UNCHANGED <<objects, inbox, unexpected, handled, manager>>

Transmit ==
  /\ wire # <<>> /\ "rx" \in native
  /\ inbox' = Append(inbox, Head(wire)) /\ wire' = Tail(wire)
  /\ UNCHANGED <<objects, sent, unexpected, handled, manager>>
-----------------------------------------------------------------------------
(* TaggedReceiveManager *)
start ==
  /\ UserRuns /\ Held("manager") /\ engine = "none" /\ ~joined
  /\ m_running' = TRUE /\ engine' = "posted"
  /\ UNCHANGED <<objects, messages, backoff, joined, atStop>>

stop ==
  /\ UserRuns /\ Held("manager") /\ m_running
  /\ m_running' = FALSE
  /\ atStop' = Len(handled) + Len(unexpected)
  /\ UNCHANGED <<objects, messages, engine, backoff, joined>>

join ==
  /\ UserRuns /\ Held("manager") /\ engine = "done" /\ ~joined
  /\ joined' = TRUE
  /\ UNCHANGED <<objects, messages, m_running, engine, backoff, atStop>>

(* progress_engine.  A message that is there is handled before anything else. *)
Begin ==
  /\ engine = "posted" /\ Runs
  /\ engine' = "probe" /\ backoff' = 1
  /\ UNCHANGED <<objects, messages, m_running, joined, atStop>>

(* Mutant of Probe: the flag is looked at before the messages are. *)
ProbeStopped ==
  /\ engine = "probe" /\ Runs
  /\ IF unexpected # <<>> /\ m_running
     THEN /\ handled' = Append(handled, Head(unexpected)) /\ unexpected' = Tail(unexpected)
          /\ backoff' = 0 /\ engine' = engine
     ELSE engine' = "progress" /\ UNCHANGED <<handled, unexpected, backoff>>
  /\ UNCHANGED <<objects, sent, wire, inbox, m_running, joined, atStop>>

Probe ==
  /\ engine = "probe" /\ Runs
  /\ IF unexpected # <<>>
     THEN /\ handled' = Append(handled, Head(unexpected)) /\ unexpected' = Tail(unexpected)
          /\ backoff' = 0 /\ engine' = engine
     ELSE engine' = "progress" /\ UNCHANGED <<handled, unexpected, backoff>>
  /\ UNCHANGED <<objects, sent, wire, inbox, m_running, joined, atStop>>

(* Worker::progress takes what the network has brought, until there is nothing. *)
Progress ==
  /\ engine = "progress" /\ Runs
  /\ IF inbox # <<>>
     THEN /\ unexpected' = unexpected \o inbox /\ inbox' = <<>>
          /\ backoff' = 1 /\ engine' = engine
     ELSE engine' = "check" /\ UNCHANGED <<unexpected, inbox, backoff>>
  /\ UNCHANGED <<objects, sent, wire, handled, m_running, joined, atStop>>

(* The test of m_running, then yield or sleep: backoff is a uint32, and doubled *)
(* only below 2^20.                                                             *)
Check ==
  /\ engine = "check" /\ Runs
  /\ engine' = IF m_running THEN "probe" ELSE "done"
  /\ backoff' = IF m_running /\ backoff < MaxBackoff THEN backoff * 2 ELSE backoff
  /\ UNCHANGED <<objects, messages, m_running, joined, atStop>>

Engine == Begin \/ Probe \/ Progress \/ Check

Next ==
  \/ MakeContext \/ MakeEndpoint \/ MakeManager \/ DropEndpoint \/ CloseEndpoint
  \/ \E w \in Workers : MakeWorker(w)
  \/ \E o \in Objects : Drop(o)
  \/ Send \/ Transmit \/ start \/ stop \/ join \/ Engine

Spec == Init /\ [][Next]_vars
Fairness == WF_vars(Engine) /\ WF_vars(CloseEndpoint) /\ WF_vars(Transmit)
-----------------------------------------------------------------------------
(* UCX handles go in the order UCX asks for, whatever the order the user     *)
(* drops them in: an endpoint before its worker, a worker before the         *)
(* context, and no worker under the engine that polls it.                    *)
HandlesInOrder ==
  /\ "endpoint" \in native => "tx" \in native
  /\ native \cap Workers # {} => "context" \in native
  /\ engine \notin {"none", "posted", "done"} => "rx" \in native

(* Messages are handled once and in order, none is lost by an endpoint that  *)
(* closes without an error, and those that had reached the worker when stop  *)
(* was called have been handled when join returns.                           *)
StopDrains ==
  /\ \E n \in 0 .. sent : /\ handled \o unexpected \o inbox \o wire = [k \in 1 .. n |-> k]
                          /\ closing # "failed" => n = sent
  /\ joined => Len(handled) >= atStop

TransportSound == HandlesInOrder /\ StopDrains

(* A manager that is stopped comes to its end, so that join returns; and the *)
(* destructor of the endpoint returns, unless the receiving worker is gone.  *)
TransportEnds ==
  /\ (engine # "none" /\ ~m_running) ~> (engine = "done")
  /\ (closing = "progress") ~> (closing = "done" \/ "rx" \notin native)

(* An engine with nothing to do sleeps in the end, rather than yield at once: it *)
(* does so from 2^15 on.                                                         *)
IdleSleeps ==
  <>[](engine \in {"probe", "progress", "check"} /\ sent = MaxMessages /\ m_running)
    => []<>(backoff >= MaxBackoff \div 32)
=============================================================================
