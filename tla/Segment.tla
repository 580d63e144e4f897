------------------------------- MODULE Segment -------------------------------
(***************************************************************************)
(* A segment::Instance whose nodes form a chain: node 1 is an RxSource,    *)
(* node N an RxSink, the ones between are RxNodes.  Node i is run by a     *)
(* Runner with PE[i] contexts, and reads the BufferedChannel m_channel[i]  *)
(* that node i - 1 writes.  The segment is started, stopped, killed and    *)
(* joined as a Service; the completion callback of a failed node kills it. *)
(* Every step of a context is one access to what it shares with others:    *)
(* a barrier, the subscription, a channel.                                 *)
(***************************************************************************)
EXTENDS Integers, Sequences, FiniteSets

CONSTANTS N,          \* nodes of the chain, at least two
          PE,         \* PE[i] is the number of contexts (engines) of node i, at least one
          Room,       \* elements a channel holds
          MaxItems    \* bound on the items a source's data_source emits

Nodes    == 1 .. N
Source   == 1
Sink     == N
Contexts == UNION {{i} \X (0 .. PE[i] - 1) : i \in Nodes}   \* (node, rank)
Siblings(c) == {d \in Contexts : d[1] = c[1]}

(* The chain that is model-checked: a source, a node with two contexts, a sink. *)
PEs112 == <<1, 2, 1>>

VARIABLES
  m_runners,      \* nodes whose runner do_service_start has stored
  igniting,       \* node whose ignition() has not been stored yet, or None
  pc,             \* where each context is
  item,           \* the element each context has in hand
  m_channel,      \* the channel of each node but the source
  closed,         \* and whether it is closed
  m_subscription, \* is the node's subscription alive?
  exceptions,     \* nodes with a context that stored an exception
  service,        \* state of the Service: Running, Stopping or Killing
  killing,        \* a service_kill is on its way into do_service_kill
  emitted,        \* history: elements the source has written
  received        \* history: elements the sink's observer got

startVars == <<m_runners, igniting>>
runVars  == <<startVars, service, killing>>
flowVars == <<m_channel, closed>>
history  == <<emitted, received>>
vars == <<runVars, pc, item, flowVars, m_subscription, exceptions, history>>

None == 0
Items == 1 .. MaxItems

Go(c, to) == pc' = [pc EXCEPT ![c] = to]
At(c, l)  == pc[c] = l

(* ctx.barrier(): c may leave when every sibling has reached it. *)
BarrierOpen(c, reached) == \A d \in Siblings(c) : pc[d] \in reached

Init ==
  /\ m_runners = {}
  /\ igniting = None
  /\ service = "running"
  /\ killing = FALSE
  /\ pc = [c \in Contexts |-> "unlaunched"]
  /\ item = [c \in Contexts |-> None]
  /\ m_channel = [i \in Nodes \ {Source} |-> <<>>]
  /\ closed = [i \in Nodes \ {Source} |-> FALSE]
  /\ m_subscription = [i \in Nodes |-> TRUE]
  /\ exceptions = {}
  /\ emitted = 0
  /\ received = <<>>
-----------------------------------------------------------------------------
(* do_service_start: m_runners[name] = launcher->ignition(), one node after  *)
(* the other in the order of their names, which is any order.  The contexts  *)
(* run as soon as ignition has launched them ...                             *)
Ignition(i) ==
  /\ igniting = None /\ i \notin m_runners
  /\ igniting' = i
  /\ pc' = [c \in Contexts |-> IF c[1] = i THEN "run" ELSE pc[c]]
  /\ UNCHANGED <<m_runners, service, killing, item, flowVars, m_subscription, exceptions,
                 history>>

(* ... and the runner is stored afterwards. *)
StoreRunner ==
  /\ igniting # None
  /\ m_runners' = m_runners \cup {igniting}
  /\ igniting' = None
  /\ UNCHANGED <<service, killing, pc, item, flowVars, m_subscription, exceptions, history>>

Started == m_runners = Nodes

(* RxRunnable::run up to ctx.barrier ... *)
Run(c) ==
  /\ At(c, "run")
  /\ Go(c, "subscribing")
  /\ UNCHANGED <<runVars, item, flowVars, m_subscription, exceptions, history>>

(* ... and past it, into subscribe. *)
Subscribe(c) ==
  /\ At(c, "subscribing")
  /\ \A d \in Siblings(c) : pc[d] # "run"
  /\ Go(c, "loop")
  /\ UNCHANGED <<runVars, item, flowVars, m_subscription, exceptions, history>>

(* Source: data_source emits the next element while it is subscribed ... *)
Emit(c) ==
  /\ c[1] = Source /\ At(c, "loop")
  /\ m_subscription[Source] /\ emitted < MaxItems
  /\ emitted' = emitted + 1
  /\ item' = [item EXCEPT ![c] = emitted']
  /\ Go(c, "write")
  /\ UNCHANGED <<runVars, flowVars, m_subscription, exceptions, received>>

(* ... and returns when it is unsubscribed, or when it has no more data. *)
SourceCompletes(c) ==
  /\ c[1] = Source /\ At(c, "loop")
  /\ Go(c, "shutdown")
  /\ UNCHANGED <<runVars, item, flowVars, m_subscription, exceptions, history>>

(* RxSinkBase::progress_engine: the loop's test of is_subscribed ... *)
LoopTest(c) ==
  /\ c[1] # Source /\ At(c, "loop")
  /\ Go(c, IF m_subscription[c[1]] THEN "read" ELSE "shutdown")
  /\ UNCHANGED <<runVars, item, flowVars, m_subscription, exceptions, history>>

(* Mutant of AwaitRead: a closed channel is not drained. *)
AwaitReadClosed(c) ==
  LET i == c[1] IN
  /\ At(c, "read")
  /\ \/ /\ m_channel[i] # <<>> /\ ~closed[i]
        /\ item' = [item EXCEPT ![c] = Head(m_channel[i])]
        /\ m_channel' = [m_channel EXCEPT ![i] = Tail(@)]
        /\ Go(c, "next")
     \/ /\ closed[i]
        /\ Go(c, "shutdown")
        /\ UNCHANGED <<item, m_channel>>
  /\ UNCHANGED <<runVars, closed, m_subscription, exceptions, history>>

(* ... and its await_read, which blocks while the channel is empty and open. *)
AwaitRead(c) ==
  LET i == c[1] IN
  /\ At(c, "read")
  /\ \/ /\ m_channel[i] # <<>>
        /\ item' = [item EXCEPT ![c] = Head(m_channel[i])]
        /\ m_channel' = [m_channel EXCEPT ![i] = Tail(@)]
        /\ Go(c, "next")
     \/ /\ m_channel[i] = <<>> /\ closed[i]
        /\ Go(c, "shutdown")
        /\ UNCHANGED <<item, m_channel>>
  /\ UNCHANGED <<runVars, closed, m_subscription, exceptions, history>>

(* on_next: nothing happens on a subscriber that is no longer subscribed; a  *)
(* node hands the element to await_write, the sink to its observer.          *)
OnNext(c) ==
  /\ At(c, "next")
  /\ IF m_subscription[c[1]] /\ c[1] # Sink
     THEN Go(c, "write") /\ item' = item
     ELSE Go(c, "loop") /\ item' = [item EXCEPT ![c] = None]
  /\ received' = IF m_subscription[c[1]] /\ c[1] = Sink
                 THEN Append(received, item[c]) ELSE received
  /\ UNCHANGED <<runVars, flowVars, m_subscription, exceptions, emitted>>

(* User code throws: the observer's on_error stores the exception in the     *)
(* context, which kills the node's Runnable: on_kill unsubscribes.           *)
Throw(c) ==
  /\ At(c, IF c[1] = Source THEN "loop" ELSE "next")
  /\ m_subscription[c[1]]
  /\ exceptions' = exceptions \cup {c[1]}
  /\ m_subscription' = [m_subscription EXCEPT ![c[1]] = FALSE]
  /\ Go(c, "loop")
  /\ item' = [item EXCEPT ![c] = None]
  /\ UNCHANGED <<runVars, flowVars, history>>

(* SourceChannel::await_write: blocks while the channel is full; the status  *)
(* it returns is ignored by RxSourceBase's observer.                         *)
AwaitWrite(c) ==
  LET i == c[1] + 1 IN
  /\ At(c, "write")
  /\ closed[i] \/ Len(m_channel[i]) < Room
  /\ m_channel' = IF closed[i] THEN m_channel
                  ELSE [m_channel EXCEPT ![i] = Append(@, item[c])]
  /\ Go(c, "loop")
  /\ item' = [item EXCEPT ![c] = None]
  /\ UNCHANGED <<runVars, closed, m_subscription, exceptions, history>>
-----------------------------------------------------------------------------
(* Mutant of Shutdown: rank 0 does not wait for its siblings. *)
ShutdownNoBarrier(c) ==
  /\ At(c, "shutdown")
  /\ Go(c, IF c[2] = 0 THEN "critical" ELSE "exit")
  /\ UNCHANGED <<runVars, item, flowVars, m_subscription, exceptions, history>>

(* RxRunnable::shutdown: the first barrier ... *)
Shutdown(c) ==
  /\ At(c, "shutdown")
  /\ BarrierOpen(c, {"shutdown", "critical", "exit"})
  /\ Go(c, IF c[2] = 0 THEN "critical" ELSE "exit")
  /\ UNCHANGED <<runVars, item, flowVars, m_subscription, exceptions, history>>

(* ... rank 0 releases the source channel, whose last holder closes it ... *)
CriticalSection(c) ==
  /\ At(c, "critical")
  /\ closed' = IF c[1] = Sink THEN closed ELSE [closed EXCEPT ![c[1] + 1] = TRUE]
  /\ Go(c, "exit")
  /\ UNCHANGED <<runVars, item, m_channel, m_subscription, exceptions, history>>

(* ... the second barrier, and main returns.  The last context's task calls  *)
(* the completion callback, which kills the segment after a failure.         *)
Exit(c) ==
  /\ At(c, "exit")
  /\ BarrierOpen(c, {"exit", "ended"})
  /\ Go(c, "ended")
  /\ IF /\ \A d \in Siblings(c) \ {c} : At(d, "ended")
        /\ c[1] \in exceptions /\ service # "killing"
     THEN service' = "killing" /\ killing' = TRUE
     ELSE UNCHANGED <<service, killing>>
  /\ UNCHANGED <<startVars, item, flowVars, m_subscription, exceptions, history>>
-----------------------------------------------------------------------------
(* Mutant of Stop: RxSource::on_stop is empty, as RxNode::on_stop is. *)
StopIgnored ==
  /\ Started /\ service = "running"
  /\ service' = "stopping"
  /\ UNCHANGED <<startVars, killing, pc, item, flowVars, m_subscription, exceptions, history>>

(* service_stop on a started segment: do_service_stop stops every runner,    *)
(* but only RxSource::on_stop unsubscribes.                                  *)
Stop ==
  /\ Started /\ service = "running"
  /\ service' = "stopping"
  /\ m_subscription' = [m_subscription EXCEPT ![Source] = FALSE]
  /\ UNCHANGED <<startVars, killing, pc, item, flowVars, exceptions, history>>

(* service_kill on a started segment ... *)
Kill ==
  /\ Started /\ service # "killing"
  /\ service' = "killing" /\ killing' = TRUE
  /\ UNCHANGED <<startVars, pc, item, flowVars, m_subscription, exceptions, history>>

(* Mutant of DoServiceKill: RxSource::on_kill does not unsubscribe. *)
DoServiceKillNotSource ==
  /\ killing
  /\ killing' = FALSE
  /\ m_subscription' = [i \in Nodes |-> m_subscription[i] /\ i \notin m_runners \ {Source}]
  /\ UNCHANGED <<startVars, service, pc, item, flowVars, exceptions, history>>

(* ... and do_service_kill: every runner that has been stored is killed.     *)
DoServiceKill ==
  /\ killing
  /\ killing' = FALSE
  /\ m_subscription' = [i \in Nodes |-> m_subscription[i] /\ i \notin m_runners]
  /\ UNCHANGED <<startVars, service, pc, item, flowVars, exceptions, history>>

Step(c) ==
  \/ Run(c) \/ Subscribe(c) \/ LoopTest(c) \/ AwaitRead(c) \/ OnNext(c) \/ AwaitWrite(c)
  \/ Shutdown(c) \/ CriticalSection(c) \/ Exit(c)

Next ==
  \/ StoreRunner \/ \E i \in Nodes : Ignition(i)
  \/ \E c \in Contexts : Step(c) \/ Emit(c) \/ SourceCompletes(c) \/ Throw(c)
  \/ Stop \/ Kill \/ DoServiceKill

Spec == Init /\ [][Next]_vars

(* Engines are scheduled, do_service_start goes on, and a source that is     *)
(* unsubscribed returns from data_source.                                    *)
SourceObeys(c) == ~m_subscription[Source] /\ SourceCompletes(c)

Fairness ==
  /\ WF_vars(StoreRunner) /\ \A i \in Nodes : WF_vars(Ignition(i))
  /\ \A c \in Contexts : WF_vars(Step(c)) /\ WF_vars(SourceObeys(c))
  /\ WF_vars(DoServiceKill)

FairSpec == Spec /\ Fairness
-----------------------------------------------------------------------------
Ended == \A c \in Contexts : At(c, "ended")

(* The channel downstream of a node is closed only when no context of the    *)
(* node can still write: the barrier ahead of the critical section makes     *)
(* rank 0 wait, so no element is written into a closed channel.              *)
CloseAfterWriters ==
  \A c \in Contexts : c[1] # Sink /\ closed[c[1] + 1]
                        => pc[c] \in {"shutdown", "exit", "ended"}

(* A segment that ends by itself or by service_stop, with no kill and no     *)
(* exception, has delivered every element its source emitted, once.          *)
NothingLost ==
  Ended /\ service # "killing" /\ exceptions = {}
    => /\ Len(received) = emitted
       /\ {received[i] : i \in 1 .. Len(received)} = 1 .. emitted

(* service_stop drains and ends the segment, with full channels in between.  *)
StopEnds == (service = "stopping") ~> (Ended \/ service = "killing")

(* A context waits to write to a full channel that nobody will read again. *)
WriterLeftBehind ==
  \E c \in Contexts : /\ At(c, "write") /\ ~closed[c[1] + 1]
                      /\ Len(m_channel[c[1] + 1]) = Room
                      /\ \A d \in Contexts : d[1] = c[1] + 1
                           => pc[d] \in {"shutdown", "critical", "exit", "ended"}

(* A kill of a segment that has started ends it: every subscription is gone, *)
(* the source returns and the closing of the channels runs down the chain.   *)
(* The one exception: kill neither closes nor drains the channels, so a      *)
(* writer may be left behind on a full channel whose readers are gone.       *)
KillEnds == (killing /\ Started) ~> (Ended \/ WriterLeftBehind)

(* do_service_kill, "kill has been initiated; use the is_completed future to *)
(* await on shutdown", without that exception.                               *)
KillAlwaysEnds == (killing /\ Started) ~> Ended

(* The same for a node that fails while others still launch. *)
KillDuringStartEnds == killing ~> (Ended \/ WriterLeftBehind)

(* service_stop drains and ends a started segment, and service_kill ends it  *)
(* but for a writer left behind on a full channel whose readers are gone.    *)
SegmentEnds == StopEnds /\ KillEnds
=============================================================================
