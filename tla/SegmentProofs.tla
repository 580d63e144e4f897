---------------------------- MODULE SegmentProofs ----------------------------
(***************************************************************************)
(* Proofs about Segment for every chain, every number of contexts per node *)
(* and every size of the channels.  First the control: the barriers of     *)
(* RxRunnable::shutdown order the closing of a channel behind its writers. *)
(* Then the flow: an element is in one place at a time, and in a segment   *)
(* that is neither killed nor has failed it is always in some place.       *)
(***************************************************************************)
EXTENDS Segment, SequenceTheorems, FiniteSetTheorems, TLAPS

(* A chain has a source and a sink of its own, and every node a context. *)
SegmentAssumption ==
  /\ N \in Nat /\ N >= 2
  /\ PE \in [1 .. N -> Nat \ {0}]

Leaving == {"shutdown", "critical", "exit", "ended"}
Places == {"unlaunched", "run", "subscribing", "loop", "read", "next", "write"} \cup Leaving
Channels == Nodes \ {Source}

Types ==
  /\ pc \in [Contexts -> Places]
  /\ closed \in [Channels -> BOOLEAN]
  /\ m_subscription \in [Nodes -> BOOLEAN]
  /\ item \in [Contexts -> Nat]
  /\ m_channel \in [Channels -> Seq(Nat)]
  /\ emitted \in Nat
  /\ received \in Seq(Nat)

(* A node's contexts have not run before its ignition. *)
Launched ==
  \A c \in Contexts : c[1] \notin m_runners /\ c[1] # igniting => At(c, "unlaunched")

(* Past the first barrier of shutdown, all siblings have left their loops,   *)
(* and only rank 0 is in the critical section.                               *)
Gathered ==
  \A c, d \in Contexts :
    c[1] = d[1] /\ pc[c] \in {"critical", "exit", "ended"} => pc[d] \in Leaving

RankZero == \A c \in Contexts : At(c, "critical") => c[2] = 0

(* A channel is closed by rank 0 of the node above, on its way out. *)
ClosedByRankZero ==
  \A c \in Contexts : c[1] # Sink /\ c[2] = 0 /\ closed[c[1] + 1]
                        => pc[c] \in {"exit", "ended"}

CInv == Types /\ Launched /\ Gathered /\ RankZero /\ ClosedByRankZero
-----------------------------------------------------------------------------
Healthy == service # "killing" /\ exceptions = {}

(* A context has an element in hand between the read and the write. *)
Holds ==
  \A c \in Contexts : /\ item[c] # None <=> pc[c] \in {"next", "write"}
                      /\ At(c, "write") => c[1] # Sink
                      /\ pc[c] \in {"read", "next"} => c[1] # Source

KillIsKilling == killing => service = "killing"

(* Nobody but kill and a failure unsubscribes a node below the source. *)
StaySubscribed == Healthy => \A i \in Channels : m_subscription[i]

(* So its contexts leave only when its channel is closed and drained. *)
Drained ==
  Healthy => \A c \in Contexts : c[1] # Source /\ pc[c] \in Leaving
                                   => m_channel[c[1]] = <<>> /\ closed[c[1]]

(* Where element k is. *)
InHand(k) == \E c \in Contexts : item[c] = k
InChannel(k) == \E i \in Channels : \E j \in 1 .. Len(m_channel[i]) : m_channel[i][j] = k
Delivered(k) == \E j \in 1 .. Len(received) : received[j] = k

(* Only what was emitted is anywhere ... *)
OnlyEmitted ==
  /\ \A c \in Contexts : item[c] <= emitted
  /\ \A i \in Channels : \A j \in 1 .. Len(m_channel[i]) : m_channel[i][j] \in 1 .. emitted
  /\ \A j \in 1 .. Len(received) : received[j] \in 1 .. emitted

(* ... in one place at most: in one hand, in one slot of one channel, at     *)
(* one position of what was received, and in no two of these ...             *)
HandsApart == \A c, d \in Contexts : item[c] = item[d] /\ item[c] # None => c = d
QueuesApart ==
  \A i, k \in Channels : \A j \in 1 .. Len(m_channel[i]) : \A l \in 1 .. Len(m_channel[k]) :
    m_channel[i][j] = m_channel[k][l] => i = k /\ j = l
ReceivedApart == \A j, l \in 1 .. Len(received) : received[j] = received[l] => j = l
HandNotQueued ==
  \A c \in Contexts : \A i \in Channels : \A j \in 1 .. Len(m_channel[i]) :
    item[c] # m_channel[i][j]
HandNotReceived == \A c \in Contexts : \A j \in 1 .. Len(received) : item[c] # received[j]
QueuedNotReceived ==
  \A i \in Channels : \A j \in 1 .. Len(m_channel[i]) : \A l \in 1 .. Len(received) :
    m_channel[i][j] # received[l]
OnePlace == /\ HandsApart /\ QueuesApart /\ ReceivedApart
            /\ HandNotQueued /\ HandNotReceived /\ QueuedNotReceived

(* ... and in one place at least while the segment is healthy. *)
SomePlace == Healthy => \A k \in 1 .. emitted : InHand(k) \/ InChannel(k) \/ Delivered(k)

FInv == Holds /\ KillIsKilling /\ StaySubscribed /\ Drained /\ OnlyEmitted /\ OnePlace /\ SomePlace
IInv == CInv /\ FInv
-----------------------------------------------------------------------------
(* The contexts of a chain: a node and a rank, and rank 0 at every node.     *)
LEMMA ContextShape ==
  ASSUME SegmentAssumption
  PROVE  /\ \A c \in Contexts : c[1] \in Nodes /\ c[2] \in Nat
         /\ \A c, d \in Contexts : c[1] = d[1] /\ c[2] = d[2] => c = d
         /\ \A i \in Nodes : \E c \in Contexts : c[1] = i /\ c[2] = 0
<1>1. ASSUME NEW c \in Contexts
      PROVE  \E i \in Nodes : \E r \in 0 .. PE[i] - 1 : c = <<i, r>>
  BY SMTT(30) DEF Contexts
<1>2. \A i \in Nodes : <<i, 0>> \in Contexts
  BY SMTT(30) DEF SegmentAssumption, Contexts, Nodes
<1>3. \A i \in Nodes : PE[i] \in Nat
  BY Zenon DEF SegmentAssumption, Nodes
<1>4. \A c \in Contexts : c[1] \in Nodes /\ c[2] \in Nat
  BY <1>1, <1>3, SMTT(30)
<1>5. ASSUME NEW c \in Contexts, NEW d \in Contexts, c[1] = d[1], c[2] = d[2]
      PROVE  c = d
  <2>1. PICK i \in Nodes : \E r \in 0 .. PE[i] - 1 : c = <<i, r>>
    BY <1>1, Zenon
  <2>2. PICK k \in Nodes : \E s \in 0 .. PE[k] - 1 : d = <<k, s>>
    BY <1>1, Zenon
  <2> QED BY <1>5, <2>1, <2>2, SMTT(30)
<1>6. \A i \in Nodes : \E c \in Contexts : c[1] = i /\ c[2] = 0
  BY <1>2, Zenon
<1> QED BY <1>4, <1>5, <1>6, Zenon

(* Nodes are numbered from the source to the sink. *)
LEMMA NodeNumbers ==
  ASSUME SegmentAssumption
  PROVE  /\ Source \in Nodes /\ Sink \in Nodes /\ Source # Sink /\ None \notin Nodes
         /\ \A i \in Nodes : i \in Nat /\ (i # Sink => i + 1 \in Channels)
         /\ \A i \in Channels : i - 1 \in Nodes /\ i - 1 # Sink /\ i \in Nodes
BY SMTT(30) DEF SegmentAssumption, Nodes, Source, Sink, Channels, None

(* The channel below a node is closed behind its writers, as the barrier of  *)
(* RxRunnable::shutdown has it, in every state of the control invariant.     *)
LEMMA ClosedBehindWriters ==
  ASSUME SegmentAssumption, CInv
  PROVE  CloseAfterWriters
<1> SUFFICES ASSUME NEW c \in Contexts, c[1] # Sink, closed[c[1] + 1]
             PROVE  pc[c] \in {"shutdown", "exit", "ended"}
  BY Zenon DEF CloseAfterWriters
<1>1. PICK z \in Contexts : z[1] = c[1] /\ z[2] = 0
  BY ContextShape, Zenon
<1>2. pc[z] \in {"exit", "ended"}
  BY <1>1, Zenon DEF CInv, ClosedByRankZero
<1>3. pc[c] \in Leaving
  BY <1>1, <1>2, Zenon DEF CInv, Gathered
<1>4. pc[c] # "critical"
  BY <1>1, <1>2, Zenon DEF CInv, RankZero, ClosedByRankZero, At
<1> QED BY <1>3, <1>4, Zenon DEF Leaving

(* What a context may do without disturbing the order of shutdown: leave its *)
(* loop when it likes, pass the first barrier with its siblings, and not     *)
(* come back.                                                                *)
LEMMA ContextMoves ==
  ASSUME SegmentAssumption, CInv, NEW c \in Contexts, NEW to \in Places,
         Go(c, to), UNCHANGED <<m_runners, igniting, closed>>,
         ~At(c, "unlaunched"),
         pc[c] \in Leaving => to \in Leaving,
         pc[c] \in {"exit", "ended"} => to \in {"exit", "ended"},
         to \in {"critical", "exit", "ended"} => \A d \in Siblings(c) : pc[d] \in Leaving,
         to = "critical" => c[2] = 0
  PROVE  Launched' /\ Gathered' /\ RankZero' /\ ClosedByRankZero'
<1>1. \A d \in Contexts : pc'[d] = IF d = c THEN to ELSE pc[d]
  BY Zenon DEF CInv, Types, Go
<1>2. Launched'
  BY <1>1, Zenon DEF CInv, Launched, At
<1>3. Gathered'
  BY <1>1, Zenon DEF CInv, Gathered, Siblings, Leaving
<1>4. RankZero'
  BY <1>1, Zenon DEF CInv, RankZero, At
<1>5. ClosedByRankZero'
  BY <1>1, Zenon DEF CInv, ClosedByRankZero
<1> QED BY <1>2, <1>3, <1>4, <1>5, Zenon

(* What await_read takes from a channel leaves the others, one place on ... *)
LEMMA Dequeue ==
  ASSUME NEW s \in Seq(Nat), s # <<>>
  PROVE  /\ Head(s) = s[1] /\ Head(s) \in Nat /\ Tail(s) \in Seq(Nat)
         /\ Len(s) \in Nat \ {0} /\ Len(Tail(s)) = Len(s) - 1
         /\ \A j \in 1 .. Len(s) - 1 : Tail(s)[j] = s[j + 1]
<1>1. Len(s) \in Nat \ {0}
  BY EmptySeq, LenProperties, Zenon
<1> QED BY <1>1, HeadTailProperties, ElementOfSeq, SMTT(30)

(* ... and await_write puts the new one behind them. *)
LEMMA Enqueue ==
  ASSUME NEW s \in Seq(Nat), NEW x \in Nat
  PROVE  /\ Append(s, x) \in Seq(Nat)
         /\ Len(s) \in Nat /\ Len(Append(s, x)) = Len(s) + 1
         /\ \A j \in 1 .. Len(s) : Append(s, x)[j] = s[j]
         /\ Append(s, x)[Len(s) + 1] = x
BY AppendProperties, LenProperties, SMTT(30)

(* The types are kept by every step. *)
LEMMA TypesKept ==
  ASSUME SegmentAssumption, Types, Holds, [Next]_vars
  PROVE  Types'
<1> USE ContextShape, NodeNumbers DEF Types, Places, Leaving, Go, At
<1>1. ASSUME NEW i \in Nodes, Ignition(i) PROVE Types'
  BY <1>1, Zenon DEF Ignition, flowVars, history
<1>2. CASE StoreRunner
  BY <1>2, Zenon DEF StoreRunner, flowVars, history
<1>3. CASE Stop
  BY <1>3, Zenon DEF Stop, flowVars, history
<1>4. CASE Kill
  BY <1>4, Zenon DEF Kill, flowVars, history
<1>5. CASE DoServiceKill
  BY <1>5, Zenon DEF DoServiceKill, flowVars, history
<1>6. ASSUME NEW c \in Contexts, Step(c) PROVE Types'
  <2>1. CASE Run(c)
    BY <2>1, Zenon DEF Run, flowVars, history
  <2>2. CASE Subscribe(c)
    BY <2>2, Zenon DEF Subscribe, flowVars, history
  <2>3. CASE LoopTest(c)
    BY <2>3, Zenon DEF LoopTest, flowVars, history
  <2>4. CASE AwaitRead(c)
    <3>1. c[1] \in Channels
      BY <2>4, Zenon DEF AwaitRead, Holds, Channels
    <3>2. CASE m_channel[c[1]] = <<>>
      BY <2>4, <3>1, <3>2, ZenonT(60) DEF AwaitRead, history
    <3>3. CASE m_channel[c[1]] # <<>>
      <4>1. m_channel[c[1]] \in Seq(Nat)
        BY <3>1, Zenon
      <4>2. Head(m_channel[c[1]]) \in Nat /\ Tail(m_channel[c[1]]) \in Seq(Nat)
        BY <3>3, <4>1, Dequeue, Zenon
      <4>3. /\ item' = [item EXCEPT ![c] = Head(m_channel[c[1]])]
            /\ m_channel' = [m_channel EXCEPT ![c[1]] = Tail(m_channel[c[1]])]
            /\ Go(c, "next") /\ UNCHANGED <<closed, m_subscription, emitted, received>>
        BY <2>4, <3>3, Zenon DEF AwaitRead, history
      <4> QED BY <3>1, <4>2, <4>3, Zenon
    <3> QED BY <3>2, <3>3, Zenon
  <2>5. CASE OnNext(c)
    <3>1. /\ item' = item \/ item' = [item EXCEPT ![c] = 0]
          /\ \E to \in Places : Go(c, to)
      BY <2>5, Zenon DEF OnNext, None
    <3>2. received' \in Seq(Nat)
      BY <2>5, Enqueue, SMTT(30) DEF OnNext
    <3> QED BY <2>5, <3>1, <3>2, SMTT(30) DEF OnNext, flowVars
  <2>6. CASE AwaitWrite(c)
    <3>1. c[1] + 1 \in Channels
      BY <2>6, Zenon DEF AwaitWrite, Holds
    <3>2. Append(m_channel[c[1] + 1], item[c]) \in Seq(Nat)
      BY <3>1, Enqueue, Zenon
    <3>3. m_channel' \in [Channels -> Seq(Nat)]
      <4>1. m_channel' = m_channel
              \/ m_channel' = [m_channel EXCEPT ![c[1] + 1]
                                 = Append(m_channel[c[1] + 1], item[c])]
        BY <2>6, Zenon DEF AwaitWrite
      <4> QED BY <3>1, <3>2, <4>1, ZenonT(60)
    <3> QED BY <2>6, <3>3, Zenon DEF AwaitWrite, None, history
  <2>7. CASE Shutdown(c)
    BY <2>7, Zenon DEF Shutdown, flowVars, history
  <2>8. CASE CriticalSection(c)
    BY <2>8, Zenon DEF CriticalSection, history
  <2>9. CASE Exit(c)
    BY <2>9, Zenon DEF Exit, flowVars, history
  <2> QED BY <1>6, <2>1, <2>2, <2>3, <2>4, <2>5, <2>6, <2>7, <2>8, <2>9, ZenonT(60) DEF Step
<1>7. ASSUME NEW c \in Contexts, Emit(c) PROVE Types'
  BY <1>7, SMTT(30) DEF Emit, flowVars
<1>8. ASSUME NEW c \in Contexts, SourceCompletes(c) PROVE Types'
  BY <1>8, Zenon DEF SourceCompletes, flowVars, history
<1>9. ASSUME NEW c \in Contexts, Throw(c) PROVE Types'
  BY <1>9, Zenon DEF Throw, None, flowVars, history
<1>10. CASE UNCHANGED vars
  BY <1>10, Zenon DEF vars, flowVars, history
<1> QED BY <1>1, <1>2, <1>3, <1>4, <1>5, <1>6, <1>7, <1>8, <1>9, <1>10, ZenonT(60) DEF Next

(* The order of shutdown is kept by every step of the segment. *)
LEMMA ControlStep ==
  ASSUME SegmentAssumption, CInv, Holds, [Next]_vars
  PROVE  CInv'
<1> DEFINE Order == Launched /\ Gathered /\ RankZero /\ ClosedByRankZero
<1>0. Types'
  BY TypesKept, Zenon DEF CInv
<1> USE DEF Places, Leaving, At
<1>1. ASSUME NEW i \in Nodes, Ignition(i) PROVE Order'
  <2>1. \A c \in Contexts : c[1] = i => pc[c] = "unlaunched"
    BY <1>1 , NodeNumbers, Zenon DEF Ignition, CInv, Launched
  <2>2. \A c \in Contexts : pc'[c] = IF c[1] = i THEN "run" ELSE pc[c]
    BY <1>1, Zenon DEF Ignition
  <2>3. Launched'
    BY <1>1, <2>2, ContextShape, NodeNumbers, SMTT(30) DEF Ignition, CInv, Launched
  <2>4. Gathered'
    BY <2>2, Zenon DEF CInv, Gathered
  <2>5. RankZero'
    BY <2>2, Zenon DEF CInv, RankZero
  <2>6. ClosedByRankZero'
    BY <1>1, <2>1, <2>2, Zenon DEF Ignition, flowVars, CInv, ClosedByRankZero
  <2> QED BY <2>3, <2>4, <2>5, <2>6, Zenon
<1>2. CASE StoreRunner
  <2>1. Launched'
    BY <1>2, ContextShape, NodeNumbers, Zenon DEF StoreRunner, CInv, Launched
  <2> QED BY <1>0, <1>2, <2>1, Zenon DEF StoreRunner, flowVars, CInv, Gathered, RankZero, ClosedByRankZero
<1>3. CASE UNCHANGED <<startVars, pc, closed>>
  BY <1>0, <1>3, Zenon DEF startVars, CInv, Launched, Gathered, RankZero, ClosedByRankZero
<1>4. ASSUME NEW c \in Contexts, Step(c) PROVE Order'
  <2> USE DEF runVars, startVars, flowVars
  <2>1. CASE Run(c)
    BY <2>1, ContextMoves, Zenon DEF Run
  <2>2. CASE Subscribe(c)
    BY <2>2, ContextMoves, Zenon DEF Subscribe
  <2>3. CASE LoopTest(c)
    BY <2>3, ContextMoves, Zenon DEF LoopTest
  <2>4. CASE AwaitRead(c)
    BY <2>4, ContextMoves, Zenon DEF AwaitRead
  <2>5. CASE OnNext(c)
    BY <2>5, ContextMoves, Zenon DEF OnNext
  <2>6. CASE AwaitWrite(c)
    BY <2>6, ContextMoves, Zenon DEF AwaitWrite
  <2>7. CASE Shutdown(c)
    BY <2>7, ContextMoves, Zenon DEF Shutdown, BarrierOpen
  <2>8. CASE CriticalSection(c)
    <3>1. pc' = [pc EXCEPT ![c] = "exit"] /\ pc[c] = "critical"
      BY <2>8, Zenon DEF CriticalSection, Go
    <3>2. \A d \in Contexts : pc'[d] = IF d = c THEN "exit" ELSE pc[d]
      BY <3>1, Zenon DEF CInv, Types
    <3>3. c[2] = 0 /\ \A d \in Contexts : d[1] = c[1] => pc[d] \in Leaving
      BY <3>1, Zenon DEF CInv, RankZero, Gathered
    <3>4. Launched'
      BY <2>8, <3>1, <3>2, Zenon DEF CriticalSection, CInv, Launched
    <3>5. Gathered'
      BY <3>2, <3>3, Zenon DEF CInv, Gathered
    <3>6. RankZero'
      BY <3>2, Zenon DEF CInv, RankZero
    <3>7. ASSUME NEW d \in Contexts, d[1] # Sink, d[2] = 0, closed'[d[1] + 1]
          PROVE  pc'[d] \in {"exit", "ended"}
      <4>1. CASE d[1] = c[1]
        BY <3>2, <3>3, <3>7, <4>1, ContextShape, SMTT(30)
      <4>2. CASE d[1] # c[1]
        <5>1. closed[d[1] + 1]
          <6>1. c[1] + 1 # d[1] + 1 /\ d[1] + 1 \in Channels
            BY <3>7, <4>2, ContextShape, NodeNumbers, SMTT(30)
          <6>2. closed'[d[1] + 1] = closed[d[1] + 1]
            BY <2>8, <6>1, Zenon DEF CriticalSection, CInv, Types
          <6> QED BY <3>7, <6>2, Zenon
        <5> QED BY <3>2, <3>7, <4>2, <5>1, Zenon DEF CInv, ClosedByRankZero
      <4> QED BY <4>1, <4>2, Zenon
    <3>8. ClosedByRankZero'
      BY <3>7, Zenon DEF ClosedByRankZero
    <3> QED BY <3>4, <3>5, <3>6, <3>8, Zenon
  <2>9. CASE Exit(c)
    <3>1. \A d \in Siblings(c) : pc[d] \in Leaving
      BY <2>9, Zenon DEF Exit, BarrierOpen
    <3> QED BY <2>9, <3>1, ContextMoves, Zenon DEF Exit
  <2> QED BY <1>4, <2>1, <2>2, <2>3, <2>4, <2>5, <2>6, <2>7, <2>8, <2>9, SMTT(30) DEF Step
<1>5. ASSUME NEW c \in Contexts, Emit(c) \/ SourceCompletes(c) \/ Throw(c) PROVE Order'
  <2> USE DEF runVars, startVars, flowVars
  <2>1. CASE Emit(c)
    BY <2>1, ContextMoves, Zenon DEF Emit
  <2>2. CASE SourceCompletes(c)
    BY <2>2, ContextMoves, Zenon DEF SourceCompletes
  <2>3. CASE Throw(c)
    BY <2>3, ContextMoves, Zenon DEF Throw
  <2> QED BY <1>5, <2>1, <2>2, <2>3, Zenon
<1>6. CASE Stop \/ Kill \/ DoServiceKill \/ UNCHANGED vars
  BY <1>3, <1>6, Zenon DEF Stop, Kill, DoServiceKill, vars, runVars, flowVars
<1> QED BY <1>0, <1>1, <1>2, <1>4, <1>5, <1>6, Zenon DEF Next, CInv
-----------------------------------------------------------------------------
(* A step that moves no element keeps each of them where it is. *)
LEMMA NothingMoves ==
  ASSUME OnlyEmitted, OnePlace, SomePlace, Healthy' => Healthy,
         UNCHANGED <<item, m_channel, emitted, received>>
  PROVE  OnlyEmitted' /\ OnePlace' /\ SomePlace'
<1>p. HandsApart /\ QueuesApart /\ ReceivedApart
      /\ HandNotQueued /\ HandNotReceived /\ QueuedNotReceived
  BY Zenon DEF OnePlace
<1>1. OnlyEmitted'
  BY Zenon DEF OnlyEmitted
<1>2. OnePlace'
  <2>1. HandsApart' /\ ReceivedApart' /\ HandNotReceived'
    BY <1>p, SMTT(30) DEF HandsApart, ReceivedApart, HandNotReceived
  <2>2. QueuesApart'
    BY <1>p, SMTT(30) DEF QueuesApart
  <2>3. HandNotQueued' /\ QueuedNotReceived'
    BY <1>p, SMTT(30) DEF HandNotQueued, QueuedNotReceived
  <2> QED BY <2>1, <2>2, <2>3, Zenon DEF OnePlace
<1>3. SomePlace'
  BY Zenon DEF SomePlace, InHand, InChannel, Delivered
<1> QED BY <1>1, <1>2, <1>3, Zenon

(* What was killed or has failed does not become healthy again. *)
LEMMA HealthyBefore ==
  ASSUME [Next]_vars
  PROVE  Healthy' => Healthy
<1> USE DEF Healthy, runVars, startVars
<1>1. ASSUME NEW i \in Nodes, Ignition(i) PROVE Healthy' => Healthy
  BY <1>1, Zenon DEF Ignition
<1>2. ASSUME NEW c \in Contexts, Step(c) PROVE Healthy' => Healthy
  BY <1>2, Zenon DEF Step, Run, Subscribe, LoopTest, AwaitRead, OnNext, AwaitWrite, Shutdown,
              CriticalSection, Exit
<1>3. ASSUME NEW c \in Contexts, Emit(c) \/ SourceCompletes(c) \/ Throw(c)
      PROVE  Healthy' => Healthy
  BY <1>3, Zenon DEF Emit, SourceCompletes, Throw
<1> QED BY <1>1, <1>2, <1>3, Zenon DEF Next, StoreRunner, Stop, Kill, DoServiceKill, vars

(* Subscriptions end by a kill or a failure only, but for the source's. *)
LEMMA SubscriptionsKept ==
  ASSUME SegmentAssumption, Types, KillIsKilling, StaySubscribed, [Next]_vars
  PROVE  KillIsKilling' /\ StaySubscribed'
<1> USE DEF KillIsKilling, StaySubscribed, Healthy, runVars, startVars
<1>1. ASSUME NEW i \in Nodes, Ignition(i) PROVE KillIsKilling' /\ StaySubscribed'
  BY <1>1, Zenon DEF Ignition
<1>2. ASSUME NEW c \in Contexts, Step(c) PROVE KillIsKilling' /\ StaySubscribed'
  <2>1. UNCHANGED <<m_subscription, exceptions>>
    BY <1>2, Zenon DEF Step, Run, Subscribe, LoopTest, AwaitRead, OnNext, AwaitWrite, Shutdown,
                CriticalSection, Exit
  <2>2. UNCHANGED <<service, killing>> \/ service' = "killing"
    BY <1>2, Zenon DEF Step, Run, Subscribe, LoopTest, AwaitRead, OnNext, AwaitWrite, Shutdown,
                CriticalSection, Exit
  <2> QED BY <2>1, <2>2, SMTT(30)
<1>3. ASSUME NEW c \in Contexts, Emit(c) \/ SourceCompletes(c) \/ Throw(c)
      PROVE  KillIsKilling' /\ StaySubscribed'
  <2>1. CASE Emit(c) \/ SourceCompletes(c)
    BY <2>1, SMTT(30) DEF Emit, SourceCompletes
  <2>2. CASE Throw(c)
    BY <2>2, Zenon DEF Throw
  <2> QED BY <1>3, <2>1, <2>2, Zenon
<1>4. CASE Stop
  <2>1. \A i \in Channels : m_subscription'[i] = m_subscription[i]
    BY <1>4, Zenon DEF Stop, Types, Channels
  <2> QED BY <1>4, <2>1, Zenon DEF Stop
<1>5. CASE Kill
  BY <1>5, Zenon DEF Kill
<1>6. CASE DoServiceKill
  BY <1>6, Zenon DEF DoServiceKill
<1> QED BY <1>1, <1>2, <1>3, <1>4, <1>5, <1>6, SMTT(30) DEF Next, StoreRunner, vars

(* No element has the number of an empty hand. *)
LEMMA Positive == \A n : 0 \notin 1 .. n
  OBVIOUS

(* An element that a context lets go of is lost, in a segment that is killed *)
(* or has failed.                                                            *)
LEMMA LetsGo ==
  ASSUME Types, OnlyEmitted, OnePlace, NEW c \in Contexts, ~Healthy',
         item' = [item EXCEPT ![c] = None], UNCHANGED <<m_channel, emitted, received>>
  PROVE  OnlyEmitted' /\ OnePlace' /\ SomePlace'
<1>p. HandsApart /\ QueuesApart /\ ReceivedApart
      /\ HandNotQueued /\ HandNotReceived /\ QueuedNotReceived
  BY Zenon DEF OnePlace
<1>1. \A d \in Contexts : item'[d] = IF d = c THEN 0 ELSE item[d]
  BY Zenon DEF Types, None
<1>2. OnlyEmitted'
  BY <1>1, SMTT(30) DEF OnlyEmitted, Types
<1>3. OnePlace'
  <2>1. HandsApart'
    BY <1>1, Zenon DEF OnePlace, HandsApart, None
  <2>2. HandNotQueued'
    BY <1>p, <1>1, Positive, SMTT(30) DEF HandNotQueued, OnlyEmitted
  <2>3. HandNotReceived'
    BY <1>p, <1>1, Positive, SMTT(30) DEF HandNotReceived, OnlyEmitted
  <2>4. QueuesApart' /\ ReceivedApart' /\ QueuedNotReceived'
    BY <1>p, SMTT(30) DEF QueuesApart, ReceivedApart, QueuedNotReceived
  <2> QED BY <2>1, <2>2, <2>3, <2>4, Zenon DEF OnePlace
<1>4. SomePlace'
  BY Zenon DEF SomePlace
<1> QED BY <1>2, <1>3, <1>4, Zenon

(* data_source's next element is a new one, in the hand of its context. *)
LEMMA Emits ==
  ASSUME Types, OnlyEmitted, OnePlace, SomePlace, Healthy' => Healthy,
         NEW c \in Contexts, item[c] = None, emitted' = emitted + 1,
         item' = [item EXCEPT ![c] = emitted'], UNCHANGED <<m_channel, received>>
  PROVE  OnlyEmitted' /\ OnePlace' /\ SomePlace'
<1>p. HandsApart /\ QueuesApart /\ ReceivedApart
      /\ HandNotQueued /\ HandNotReceived /\ QueuedNotReceived
  BY Zenon DEF OnePlace
<1>1. \A d \in Contexts : item'[d] = IF d = c THEN emitted + 1 ELSE item[d]
  BY Zenon DEF Types
<1>2. emitted \in Nat /\ \A d \in Contexts : item[d] \in Nat
  BY Zenon DEF Types
<1>3. OnlyEmitted'
  BY <1>1, <1>2, SMTT(30) DEF OnlyEmitted
<1>4. OnePlace'
  <2>1. /\ \A d \in Contexts : item[d] # emitted + 1
        /\ \A i \in Channels : \A j \in 1 .. Len(m_channel[i]) : m_channel[i][j] # emitted + 1
        /\ \A j \in 1 .. Len(received) : received[j] # emitted + 1
    BY ONLY OnlyEmitted, <1>2, SMTT(30) DEF OnlyEmitted
  <2>2. HandsApart'
    BY <1>p, <1>1, <2>1, SMTT(30) DEF HandsApart
  <2>3. HandNotQueued'
    BY <1>p, <1>1, <2>1, SMTT(30) DEF HandNotQueued
  <2>4. HandNotReceived'
    BY <1>p, <1>1, <2>1, SMTT(30) DEF HandNotReceived
  <2>5. QueuesApart' /\ ReceivedApart' /\ QueuedNotReceived'
    BY <1>p, SMTT(30) DEF QueuesApart, ReceivedApart, QueuedNotReceived
  <2> QED BY <2>2, <2>3, <2>4, <2>5, Zenon DEF OnePlace
<1>5. ASSUME Healthy', NEW k \in 1 .. emitted'
      PROVE  InHand(k)' \/ InChannel(k)' \/ Delivered(k)'
  <2>1. CASE k = emitted + 1
    BY <1>1, <2>1, Zenon DEF InHand
  <2>2. CASE k # emitted + 1
    <3>1. InHand(k) \/ InChannel(k) \/ Delivered(k)
      BY <1>2, <1>5, <2>2, SMTT(30) DEF SomePlace
    <3>2. InHand(k) => InHand(k)'
      BY <1>1, <1>2, <1>5, SMTT(30) DEF InHand, None
    <3> QED BY <3>1, <3>2, Zenon DEF InChannel, Delivered
  <2> QED BY <2>1, <2>2, Zenon
<1>6. SomePlace'
  BY <1>5, Zenon DEF SomePlace
<1> QED BY <1>3, <1>4, <1>6, Zenon

(* await_read moves the first element of a channel into the reader's hand. *)
LEMMA Reads ==
  ASSUME Types, OnlyEmitted, OnePlace, SomePlace, Healthy' => Healthy,
         NEW c \in Contexts, item[c] = None, NEW i \in Channels, m_channel[i] # <<>>,
         item' = [item EXCEPT ![c] = Head(m_channel[i])],
         m_channel' = [m_channel EXCEPT ![i] = Tail(@)],
         UNCHANGED <<emitted, received>>
  PROVE  OnlyEmitted' /\ OnePlace' /\ SomePlace'
<1>p. HandsApart /\ QueuesApart /\ ReceivedApart
      /\ HandNotQueued /\ HandNotReceived /\ QueuedNotReceived
  BY Zenon DEF OnePlace
<1> DEFINE first == m_channel[i][1]
           Before(k, j) == IF k = i THEN j + 1 ELSE j
<1>1. /\ m_channel[i] \in Seq(Nat) /\ Len(m_channel[i]) \in Nat \ {0}
      /\ Head(m_channel[i]) = first /\ Len(Tail(m_channel[i])) = Len(m_channel[i]) - 1
      /\ \A j \in 1 .. Len(m_channel[i]) - 1 : Tail(m_channel[i])[j] = m_channel[i][j + 1]
  BY Dequeue, Zenon DEF Types
<1>2. \A d \in Contexts : item'[d] = IF d = c THEN first ELSE item[d]
  BY <1>1, Zenon DEF Types
<1>3. /\ \A k \in Channels : k # i => m_channel'[k] = m_channel[k]
      /\ Len(m_channel'[i]) = Len(m_channel[i]) - 1
      /\ \A j \in 1 .. Len(m_channel[i]) - 1 : m_channel'[i][j] = m_channel[i][j + 1]
  <2>1. m_channel'[i] = Tail(m_channel[i])
    BY Zenon DEF Types
  <2>2. \A k \in Channels : k # i => m_channel'[k] = m_channel[k]
    BY Zenon DEF Types
  <2> QED BY ONLY <1>1, <2>1, <2>2, Zenon
<1>4. \A k \in Channels : \A j \in 1 .. Len(m_channel'[k]) :
        /\ Before(k, j) \in 1 .. Len(m_channel[k])
        /\ m_channel'[k][j] = m_channel[k][Before(k, j)]
        /\ k = i => Before(k, j) # 1
  <2>1. ASSUME NEW j \in 1 .. Len(m_channel'[i])
        PROVE  j + 1 \in 2 .. Len(m_channel[i]) /\ m_channel'[i][j] = m_channel[i][j + 1]
    <3>1. j \in 1 .. Len(m_channel[i]) - 1
      BY ONLY <1>3, <2>1, Zenon
    <3>2. m_channel'[i][j] = m_channel[i][j + 1]
      BY ONLY <1>3, <3>1, Zenon
    <3>3. ASSUME NEW n \in Nat \ {0}, j \in 1 .. n - 1 PROVE j + 1 \in 2 .. n
      BY ONLY <3>3, SMTT(30)
    <3>4. j + 1 \in 2 .. Len(m_channel[i])
      BY ONLY <1>1, <3>1, <3>3, Zenon
    <3> QED BY ONLY <3>2, <3>4, Zenon
  <2>2. ASSUME NEW k \in Channels, k # i, NEW j \in 1 .. Len(m_channel'[k])
        PROVE  j \in 1 .. Len(m_channel[k]) /\ m_channel'[k][j] = m_channel[k][j]
    BY <1>3, <2>2, Zenon
  <2> TAKE k \in Channels
  <2> TAKE j \in 1 .. Len(m_channel'[k])
  <2>3. CASE k = i
    <3>1. j + 1 \in 2 .. Len(m_channel[k]) /\ m_channel'[k][j] = m_channel[k][j + 1]
      BY <2>1, <2>3, Zenon
    <3>2. Before(k, j) = j + 1 /\ Len(m_channel[k]) \in Nat /\ j \in Nat
      BY <1>1, <1>3, <2>3, SMTT(30)
    <3> HIDE DEF Before
    <3> QED BY <3>1, <3>2, SMTT(30)
  <2>4. CASE k # i
    <3>1. Before(k, j) = j
      BY <2>4, Zenon
    <3> HIDE DEF Before
    <3> QED BY <2>2, <2>4, <3>1, SMTT(30)
  <2> QED BY <2>3, <2>4, Zenon
<1>5. first \in 1 .. emitted /\ 1 \in 1 .. Len(m_channel[i]) /\ emitted \in Nat
  BY <1>1, SMTT(30) DEF OnlyEmitted, Types
<1>6. OnlyEmitted'
  BY <1>2, <1>4, <1>5, SMTT(30) DEF OnlyEmitted
<1>7. OnePlace'
  <2>1. HandsApart'
    BY <1>p, <1>2, <1>5, SMTT(30) DEF HandsApart, HandNotQueued
  <2>2. ASSUME NEW k \in Channels, NEW m \in Channels, NEW j \in 1 .. Len(m_channel'[k]),
               NEW l \in 1 .. Len(m_channel'[m]), m_channel'[k][j] = m_channel'[m][l]
        PROVE  k = m /\ j = l
    <3>1. k = m /\ Before(k, j) = Before(m, l)
      BY <1>p, <1>4, <2>2, SMTT(30) DEF QueuesApart
    <3>2. j \in Int /\ l \in Int
      OBVIOUS
    <3> QED BY ONLY <3>1, <3>2, SMTT(30)
  <2>3. HandNotQueued'
    <3> SUFFICES ASSUME NEW d \in Contexts, NEW k \in Channels,
                        NEW j \in 1 .. Len(m_channel'[k])
                 PROVE  item'[d] # m_channel'[k][j]
      BY Zenon DEF HandNotQueued
    <3>1. CASE d = c
      BY <1>p, <1>2, <1>4, <1>5, <3>1, SMTT(30) DEF QueuesApart
    <3>2. CASE d # c
      BY <1>p, <1>2, <1>4, <3>2, SMTT(30) DEF HandNotQueued
    <3> QED BY <3>1, <3>2, Zenon
  <2>4. HandNotReceived'
    BY <1>p, <1>2, <1>5, SMTT(30) DEF HandNotReceived, QueuedNotReceived
  <2>5. QueuedNotReceived'
    BY <1>p, <1>4, SMTT(30) DEF QueuedNotReceived
  <2>6. QueuesApart'
    BY <2>2, Zenon DEF QueuesApart
  <2> QED BY <2>1, <2>3, <2>4, <2>5, <2>6, Zenon DEF OnePlace, ReceivedApart
<1>8. ASSUME Healthy', NEW k \in 1 .. emitted
      PROVE  InHand(k)' \/ InChannel(k)' \/ Delivered(k)'
  <2>1. CASE k = first
    BY <1>2, <2>1, Zenon DEF InHand
  <2>2. CASE k # first
    <3>1. InHand(k) \/ InChannel(k) \/ Delivered(k)
      BY <1>8, Zenon DEF SomePlace
    <3>2. InHand(k) => InHand(k)'
      BY <1>2, <1>5, SMTT(30) DEF InHand, None
    <3>3. ASSUME InChannel(k) PROVE InChannel(k)'
      <4>1. PICK m \in Channels : \E j \in 1 .. Len(m_channel[m]) : m_channel[m][j] = k
        BY <3>3, Zenon DEF InChannel
      <4>2. PICK j \in 1 .. Len(m_channel[m]) : m_channel[m][j] = k
        BY <4>1, Zenon
      <4>3. CASE m # i
        BY <1>3, <4>2, <4>3, Zenon DEF InChannel
      <4>4. CASE m = i
        <5>1. j # 1 /\ j - 1 \in 1 .. Len(m_channel[i]) - 1
          BY <1>1, <2>2, <4>2, <4>4, SMTT(30)
        <5>2. m_channel'[i][j - 1] = k /\ j - 1 \in 1 .. Len(m_channel'[i])
          BY <1>1, <1>3, <4>2, <4>4, <5>1, SMTT(30)
        <5> QED BY <5>2, Zenon DEF InChannel
      <4> QED BY <4>3, <4>4, Zenon
    <3> QED BY <3>1, <3>2, <3>3, Zenon DEF Delivered
  <2> QED BY <2>1, <2>2, Zenon
<1>9. SomePlace'
  BY <1>8, Zenon DEF SomePlace
<1> QED BY <1>6, <1>7, <1>9, Zenon

(* await_write moves the element in the writer's hand to the end of a        *)
(* channel.                                                                  *)
LEMMA Writes ==
  ASSUME Types, OnlyEmitted, OnePlace, SomePlace, Healthy' => Healthy,
         NEW c \in Contexts, item[c] # None, NEW i \in Channels,
         item' = [item EXCEPT ![c] = None],
         m_channel' = [m_channel EXCEPT ![i] = Append(@, item[c])],
         UNCHANGED <<emitted, received>>
  PROVE  OnlyEmitted' /\ OnePlace' /\ SomePlace'
<1>p. HandsApart /\ QueuesApart /\ ReceivedApart
      /\ HandNotQueued /\ HandNotReceived /\ QueuedNotReceived
  BY Zenon DEF OnePlace
<1> DEFINE len == Len(m_channel[i])
           New(k, j) == k = i /\ j = len + 1 /\ m_channel'[k][j] = item[c]
           Same(k, j) == j \in 1 .. Len(m_channel[k]) /\ m_channel'[k][j] = m_channel[k][j]
<1>1. \A d \in Contexts : item'[d] = IF d = c THEN None ELSE item[d]
  BY Zenon DEF Types
<1>2. item[c] \in 1 .. emitted /\ emitted \in Nat
  BY SMTT(30) DEF Types, OnlyEmitted, None
<1>3. /\ \A k \in Channels : k # i => m_channel'[k] = m_channel[k]
      /\ len \in Nat /\ Len(m_channel'[i]) = len + 1
      /\ \A j \in 1 .. len : m_channel'[i][j] = m_channel[i][j]
      /\ m_channel'[i][len + 1] = item[c]
  <2>1. m_channel'[i] = Append(m_channel[i], item[c])
    BY Zenon DEF Types
  <2>2. \A k \in Channels : k # i => m_channel'[k] = m_channel[k]
    BY Zenon DEF Types
  <2>3. m_channel[i] \in Seq(Nat) /\ item[c] \in Nat
    BY Zenon DEF Types
  <2> QED BY <2>1, <2>2, <2>3, Enqueue, SMTT(30)
<1>4. ASSUME NEW k \in Channels, NEW j \in 1 .. Len(m_channel'[k])
      PROVE  New(k, j) \/ Same(k, j)
  <2>1. CASE k = i
    BY ONLY <1>3, <1>4, <2>1, SMTT(30)
  <2>2. CASE k # i
    BY <1>3, <1>4, <2>2, Zenon
  <2> QED BY <2>1, <2>2, Zenon
<1>5. OnlyEmitted'
  <2>1. \A d \in Contexts : item'[d] <= emitted'
    BY <1>1, <1>2, SMTT(30) DEF OnlyEmitted, None
  <2>2. ASSUME NEW k \in Channels, NEW j \in 1 .. Len(m_channel'[k])
        PROVE  m_channel'[k][j] \in 1 .. emitted'
    BY <1>2, <1>4, Zenon DEF OnlyEmitted
  <2> QED BY <2>1, <2>2, Zenon DEF OnlyEmitted
<1>6. OnePlace'
  <2>1. HandsApart'
    BY <1>p, <1>1, SMTT(30) DEF HandsApart
  <2>2. ASSUME NEW k \in Channels, NEW m \in Channels, NEW j \in 1 .. Len(m_channel'[k]),
               NEW l \in 1 .. Len(m_channel'[m]), m_channel'[k][j] = m_channel'[m][l]
        PROVE  k = m /\ j = l
    <3>1. (New(k, j) \/ Same(k, j)) /\ (New(m, l) \/ Same(m, l))
      BY <1>4, Zenon
    <3>2. CASE New(k, j) /\ New(m, l)
      BY <3>2, Zenon
    <3>3. CASE Same(k, j) /\ Same(m, l)
      BY <1>p, <2>2, <3>3, SMTT(30) DEF QueuesApart
    <3>4. CASE New(k, j) /\ Same(m, l)
      BY <2>2, <3>4, Zenon DEF OnePlace, HandNotQueued
    <3>5. CASE Same(k, j) /\ New(m, l)
      BY <2>2, <3>5, Zenon DEF OnePlace, HandNotQueued
    <3> QED BY <3>1, <3>2, <3>3, <3>4, <3>5, Zenon
  <2>3. ASSUME NEW d \in Contexts, NEW k \in Channels, NEW j \in 1 .. Len(m_channel'[k])
        PROVE  item'[d] # m_channel'[k][j]
    <3>1. CASE d = c
      BY <1>1, <1>5, <3>1, Positive, Zenon DEF OnlyEmitted, None
    <3>2. CASE d # c
      <4>1. item'[d] = item[d] /\ item[d] # item[c]
        BY <1>1, <3>2, Zenon DEF OnePlace, HandsApart
      <4> QED BY <1>p, <1>4, <4>1, SMTT(30) DEF HandNotQueued
    <3> QED BY <3>1, <3>2, Zenon
  <2>4. HandNotReceived'
    BY <1>p, <1>1, Positive, SMTT(30) DEF HandNotReceived, OnlyEmitted, None
  <2>5. ASSUME NEW k \in Channels, NEW j \in 1 .. Len(m_channel'[k]),
               NEW l \in 1 .. Len(received)
        PROVE  m_channel'[k][j] # received[l]
    <3>1. New(k, j) \/ Same(k, j)
      BY <1>4, Zenon
    <3>2. CASE New(k, j)
      BY <3>2, Zenon DEF OnePlace, HandNotReceived
    <3>3. CASE Same(k, j)
      BY <3>3, Zenon DEF OnePlace, QueuedNotReceived
    <3> QED BY <3>1, <3>2, <3>3, Zenon
  <2>6. QueuesApart'
    BY <2>2, Zenon DEF QueuesApart
  <2>7. HandNotQueued'
    BY <2>3, Zenon DEF HandNotQueued
  <2>8. QueuedNotReceived'
    BY <2>5, SMTT(30) DEF QueuedNotReceived
  <2> QED BY <2>1, <2>4, <2>6, <2>7, <2>8, Zenon DEF OnePlace, ReceivedApart
<1>7. ASSUME Healthy', NEW k \in 1 .. emitted
      PROVE  InHand(k)' \/ InChannel(k)' \/ Delivered(k)'
  <2>1. CASE k = item[c]
    <3>1. len + 1 \in 1 .. Len(m_channel'[i])
      BY <1>3, SMTT(30)
    <3> QED BY <1>3, <2>1, <3>1, Zenon DEF InChannel
  <2>2. CASE k # item[c]
    <3>1. InHand(k) \/ InChannel(k) \/ Delivered(k)
      BY <1>7, Zenon DEF SomePlace
    <3>2. InHand(k) => InHand(k)'
      BY <1>1, <2>2, Zenon DEF InHand
    <3>3. ASSUME InChannel(k) PROVE InChannel(k)'
      <4>1. PICK m \in Channels : \E j \in 1 .. Len(m_channel[m]) : m_channel[m][j] = k
        BY <3>3, Zenon DEF InChannel
      <4>2. PICK j \in 1 .. Len(m_channel[m]) : m_channel[m][j] = k
        BY <4>1, Zenon
      <4>3. j \in 1 .. Len(m_channel'[m]) /\ m_channel'[m][j] = k
        BY <1>3, <4>2, SMTT(30)
      <4> QED BY <4>3, Zenon DEF InChannel
    <3> QED BY <3>1, <3>2, <3>3, Zenon DEF Delivered
  <2> QED BY <2>1, <2>2, Zenon
<1>8. SomePlace'
  BY <1>7, Zenon DEF SomePlace
<1> QED BY <1>5, <1>6, <1>8, Zenon

(* The sink's observer gets the element its context has in hand. *)
LEMMA Delivers ==
  ASSUME Types, OnlyEmitted, OnePlace, SomePlace, Healthy' => Healthy,
         NEW c \in Contexts, item[c] # None,
         item' = [item EXCEPT ![c] = None], received' = Append(received, item[c]),
         UNCHANGED <<emitted, m_channel>>
  PROVE  OnlyEmitted' /\ OnePlace' /\ SomePlace'
<1>p. HandsApart /\ QueuesApart /\ ReceivedApart
      /\ HandNotQueued /\ HandNotReceived /\ QueuedNotReceived
  BY Zenon DEF OnePlace
<1> DEFINE len == Len(received)
<1>1. \A d \in Contexts : item'[d] = IF d = c THEN None ELSE item[d]
  BY Zenon DEF Types
<1>2. item[c] \in 1 .. emitted /\ emitted \in Nat
  BY SMTT(30) DEF Types, OnlyEmitted, None
<1>3. /\ len \in Nat /\ Len(received') = len + 1
      /\ \A j \in 1 .. len : received'[j] = received[j]
      /\ received'[len + 1] = item[c]
  <2>1. received \in Seq(Nat) /\ item[c] \in Nat
    BY Zenon DEF Types
  <2> QED BY <2>1, Enqueue, Zenon
<1>4. ASSUME NEW j \in 1 .. Len(received')
      PROVE  \/ j = len + 1 /\ received'[j] = item[c]
             \/ j \in 1 .. len /\ received'[j] = received[j]
  BY ONLY <1>3, <1>4, SMTT(30)
<1>5. OnlyEmitted'
  BY <1>1, <1>2, <1>4, SMTT(30) DEF OnlyEmitted, None
<1>6. OnePlace'
  <2>1. HandsApart'
    BY <1>p, <1>1, SMTT(30) DEF HandsApart
  <2>2. ASSUME NEW j \in 1 .. Len(received'), NEW l \in 1 .. Len(received'),
               received'[j] = received'[l]
        PROVE  j = l
    BY <1>p, <1>4, <2>2, SMTT(30) DEF ReceivedApart, HandNotReceived
  <2>3. HandNotQueued'
    BY <1>p, <1>1, Positive, SMTT(30) DEF HandNotQueued, OnlyEmitted, None
  <2>4. ASSUME NEW d \in Contexts, NEW j \in 1 .. Len(received')
        PROVE  item'[d] # received'[j]
    <3>1. CASE d = c
      BY <1>1, <1>5, <3>1, Positive, Zenon DEF OnlyEmitted, None
    <3>2. CASE d # c
      <4>1. item'[d] = item[d] /\ item[d] # item[c]
        BY <1>1, <3>2, Zenon DEF OnePlace, HandsApart
      <4> QED BY <1>4, <4>1, Zenon DEF OnePlace, HandNotReceived
    <3> QED BY <3>1, <3>2, Zenon
  <2>5. ASSUME NEW k \in Channels, NEW j \in 1 .. Len(m_channel[k]),
               NEW l \in 1 .. Len(received')
        PROVE  m_channel[k][j] # received'[l]
    BY <1>p, <1>4, SMTT(30) DEF HandNotQueued, QueuedNotReceived
  <2>6. ReceivedApart' /\ HandNotReceived' /\ QueuedNotReceived'
    BY <2>2, <2>4, <2>5, Zenon DEF ReceivedApart, HandNotReceived, QueuedNotReceived
  <2>7. QueuesApart'
    BY <1>p, SMTT(30) DEF QueuesApart
  <2> QED BY <2>1, <2>3, <2>6, <2>7, Zenon DEF OnePlace
<1>7. ASSUME Healthy', NEW k \in 1 .. emitted
      PROVE  InHand(k)' \/ InChannel(k)' \/ Delivered(k)'
  <2>1. CASE k = item[c]
    <3>1. len + 1 \in 1 .. Len(received')
      BY <1>3, SMTT(30)
    <3> QED BY <1>3, <2>1, <3>1, Zenon DEF Delivered
  <2>2. CASE k # item[c]
    <3>1. InHand(k) \/ InChannel(k) \/ Delivered(k)
      BY <1>7, Zenon DEF SomePlace
    <3>2. InHand(k) => InHand(k)'
      BY <1>1, <2>2, Zenon DEF InHand
    <3>3. Delivered(k) => Delivered(k)'
      BY <1>3, SMTT(30) DEF Delivered
    <3> QED BY <3>1, <3>2, <3>3, Zenon DEF InChannel
  <2> QED BY <2>1, <2>2, Zenon
<1>8. SomePlace'
  BY <1>7, Zenon DEF SomePlace
<1> QED BY <1>5, <1>6, <1>8, Zenon

(* A context that moves no element: it neither comes by one nor leaves the   *)
(* loop before its channel is drained.                                       *)
LEMMA MovesEmptyHanded ==
  ASSUME Types, Holds, Drained, Healthy' => Healthy,
         NEW c \in Contexts, NEW to \in Places \ {"next", "write"}, Go(c, to),
         pc[c] \notin {"next", "write"}, to = "read" => c[1] # Source,
         UNCHANGED <<item, m_channel, closed>>,
         Healthy' /\ to \in Leaving /\ c[1] # Source
           => pc[c] \in Leaving \/ (m_channel[c[1]] = <<>> /\ closed[c[1]])
  PROVE  Holds' /\ Drained'
<1>1. \A d \in Contexts : pc'[d] = IF d = c THEN to ELSE pc[d]
  BY Zenon DEF Types, Go
<1>2. Holds'
  BY <1>1, Zenon DEF Holds, At
<1>3. Drained'
  BY <1>1, Zenon DEF Drained
<1> QED BY <1>2, <1>3, Zenon

(* Places of main where a context has neither an element nor reads one.     *)
LEMMA EmptyHandedPlaces ==
  {"subscribing", "loop", "shutdown", "critical", "exit", "ended"}
    \subseteq Places \ {"next", "write", "read"}
  BY SMTT(30) DEF Places, Leaving

(* Every step of a context, and each of its moves of an element. *)
LEMMA ContextStep ==
  ASSUME SegmentAssumption, IInv, Healthy' => Healthy, NEW c \in Contexts,
         Step(c) \/ Emit(c) \/ SourceCompletes(c) \/ Throw(c)
  PROVE  Holds' /\ Drained' /\ OnlyEmitted' /\ OnePlace' /\ SomePlace'
<1> USE DEF At, runVars, startVars, flowVars, history
<1>0. /\ Types /\ Holds /\ Drained /\ OnlyEmitted /\ OnePlace /\ SomePlace
      /\ CInv /\ StaySubscribed /\ c[1] \in Nodes /\ pc[c] \in Places
  BY ContextShape, Zenon DEF IInv, CInv, FInv, Types
<1>1. CASE Run(c) \/ Subscribe(c) \/ SourceCompletes(c) \/ Shutdown(c) \/ Exit(c)
  <2>1. UNCHANGED <<item, m_channel, closed, emitted, received>>
    BY <1>0, <1>1, Zenon DEF Run, Subscribe, SourceCompletes, Shutdown, Exit
  <2> DEFINE Moves(to) == /\ Go(c, to) /\ pc[c] \notin {"next", "write"}
                          /\ to \in Leaving /\ c[1] # Source => pc[c] \in Leaving
  <2>2. \E to \in Places \ {"next", "write", "read"} : Moves(to)
    <3>1. CASE Run(c)
      <4>1. Moves("subscribing")
        BY <1>0, <3>1, Zenon DEF Run, Leaving
      <4> QED BY EmptyHandedPlaces, <4>1, Zenon
    <3>2. CASE Subscribe(c)
      <4>1. Moves("loop")
        BY <1>0, <3>2, Zenon DEF Subscribe, Leaving
      <4> QED BY EmptyHandedPlaces, <4>1, Zenon
    <3>3. CASE SourceCompletes(c)
      <4>1. Moves("shutdown")
        BY <1>0, <3>3, Zenon DEF SourceCompletes, Leaving
      <4> QED BY EmptyHandedPlaces, <4>1, Zenon
    <3>4. CASE Shutdown(c)
      <4>1. Moves("critical") \/ Moves("exit")
        BY <1>0, <3>4, Zenon DEF Shutdown, Leaving
      <4> QED BY EmptyHandedPlaces, <4>1, Zenon
    <3>5. CASE Exit(c)
      <4>1. Moves("ended")
        BY <1>0, <3>5, Zenon DEF Exit, Leaving
      <4> QED BY EmptyHandedPlaces, <4>1, Zenon
    <3> QED BY <1>0, <1>1, <3>1, <3>2, <3>3, <3>4, <3>5, Zenon
  <2> QED BY <1>0, <2>1, <2>2, MovesEmptyHanded, NothingMoves, Zenon
<1>2. CASE LoopTest(c)
  <2>1. UNCHANGED <<item, m_channel, closed, emitted, received>> /\ pc[c] = "loop"
        /\ c[1] # Source
    BY <1>0, <1>2, Zenon DEF LoopTest
  <2>2. CASE m_subscription[c[1]]
    BY <1>0, <1>2, <2>1, <2>2, MovesEmptyHanded, NothingMoves, Zenon DEF LoopTest, Places, Leaving
  <2>3. CASE ~m_subscription[c[1]]
    <3>1. ~Healthy'
      BY <1>0, <2>1, <2>3, Zenon DEF StaySubscribed, Channels
    <3> QED BY <1>0, <1>2, <2>1, <2>3, <3>1, MovesEmptyHanded, NothingMoves, Zenon
            DEF LoopTest, Places, Leaving
  <2> QED BY <1>0, <2>2, <2>3, Zenon
<1>3. CASE AwaitRead(c)
  <2>1. pc[c] = "read" /\ item[c] = None /\ c[1] \in Channels
        /\ UNCHANGED <<closed, emitted, received>>
    BY <1>0, <1>3, Zenon DEF AwaitRead, Holds, Channels
  <2>2. CASE m_channel[c[1]] = <<>>
    <3>1. Go(c, "shutdown") /\ closed[c[1]] /\ UNCHANGED <<item, m_channel>>
      BY <1>0, <1>3, <2>2, Zenon DEF AwaitRead
    <3> QED BY <1>0, <2>1, <2>2, <3>1, MovesEmptyHanded, NothingMoves, Zenon DEF Places, Leaving
  <2>3. CASE m_channel[c[1]] # <<>>
    <3>1. /\ item' = [item EXCEPT ![c] = Head(m_channel[c[1]])]
          /\ m_channel' = [m_channel EXCEPT ![c[1]] = Tail(@)]
          /\ pc' = [pc EXCEPT ![c] = "next"]
      BY <1>0, <1>3, <2>3, Zenon DEF AwaitRead, Go
    <3>2. OnlyEmitted' /\ OnePlace' /\ SomePlace'
      BY <1>0, <2>1, <2>3, <3>1, Reads, Zenon
    <3>3. /\ \A d \in Contexts : pc'[d] = IF d = c THEN "next" ELSE pc[d]
          /\ \A d \in Contexts : d # c => item'[d] = item[d]
          /\ \A k \in Channels : k # c[1] => m_channel'[k] = m_channel[k]
      BY <1>0, <3>1, Zenon DEF Types
    <3>4. item'[c] # None
      <4>1. m_channel[c[1]] \in Seq(Nat)
        BY <1>0, <2>1, Zenon DEF Types
      <4>2. Head(m_channel[c[1]]) = m_channel[c[1]][1] /\ Len(m_channel[c[1]]) \in Nat \ {0}
        BY <1>0, <2>3, <4>1, Dequeue, Zenon
      <4>3. m_channel[c[1]][1] \in 1 .. emitted
        BY <1>0, <2>1, <4>2, SMTT(30) DEF OnlyEmitted
      <4>4. item'[c] = Head(m_channel[c[1]])
        BY <1>0, <3>1, Zenon DEF Types
      <4> QED BY <1>0, <4>2, <4>3, <4>4, SMTT(30) DEF None
    <3>5. Holds'
      BY <1>0, <2>1, <3>3, <3>4, SMTT(30) DEF Holds, Channels
    <3>6. Drained'
      <4> SUFFICES ASSUME Healthy', NEW d \in Contexts, d[1] # Source, pc'[d] \in Leaving
                   PROVE  m_channel'[d[1]] = <<>> /\ closed'[d[1]]
        BY <1>0, Zenon DEF Drained
      <4>1. pc[d] \in Leaving /\ d[1] \in Channels
        BY <1>0, <3>3, ContextShape, Zenon DEF Leaving, Channels
      <4>2. m_channel[d[1]] = <<>> /\ closed[d[1]]
        BY <1>0, <4>1, Zenon DEF Drained
      <4> QED BY <1>0, <2>1, <2>3, <3>3, <4>1, <4>2, Zenon
    <3> QED BY <1>0, <3>2, <3>5, <3>6, Zenon
  <2> QED BY <1>0, <2>2, <2>3, Zenon
<1>4. CASE OnNext(c)
  <2>1. pc[c] = "next" /\ item[c] # None /\ c[1] \in Channels
        /\ UNCHANGED <<m_channel, closed, emitted>>
    BY <1>0, <1>4, Zenon DEF OnNext, Holds, Channels
  <2>2. CASE m_subscription[c[1]] /\ c[1] # Sink
    <3>1. pc' = [pc EXCEPT ![c] = "write"] /\ UNCHANGED <<item, received>>
      BY <1>0, <1>4, <2>2, Zenon DEF OnNext, Go
    <3>2. \A d \in Contexts : pc'[d] = IF d = c THEN "write" ELSE pc[d]
      BY <1>0, <3>1, Zenon DEF Types
    <3>3. Holds'
      BY <1>0, <2>1, <2>2, <3>1, <3>2, SMTT(30) DEF Holds
    <3>4. Drained'
      BY <1>0, <2>1, <3>2, Zenon DEF Drained, Leaving
    <3> QED BY <1>0, <2>1, <3>1, <3>3, <3>4, NothingMoves, Zenon
  <2>3. CASE ~(m_subscription[c[1]] /\ c[1] # Sink)
    <3>1. pc' = [pc EXCEPT ![c] = "loop"] /\ item' = [item EXCEPT ![c] = None]
      BY <1>0, <1>4, <2>3, Zenon DEF OnNext, Go
    <3>2. \A d \in Contexts : /\ pc'[d] = IF d = c THEN "loop" ELSE pc[d]
                              /\ item'[d] = IF d = c THEN None ELSE item[d]
      BY <1>0, <3>1, Zenon DEF Types
    <3>3. Holds'
      BY <1>0, <3>2, Zenon DEF Holds
    <3>4. Drained'
      BY <1>0, <2>1, <3>2, Zenon DEF Drained, Leaving
    <3>5. CASE m_subscription[c[1]]
      <4>1. received' = Append(received, item[c])
        BY <1>0, <1>4, <2>3, <3>5, Zenon DEF OnNext
      <4> QED BY <1>0, <2>1, <3>1, <3>3, <3>4, <4>1, Delivers, Zenon
    <3>6. CASE ~m_subscription[c[1]]
      <4>1. ~Healthy' /\ received' = received
        BY <1>0, <1>4, <2>1, <3>6, Zenon DEF OnNext, StaySubscribed
      <4> QED BY <1>0, <2>1, <3>1, <3>3, <3>4, <4>1, LetsGo, Zenon
    <3> QED BY <1>0, <3>5, <3>6, Zenon
  <2> QED BY <1>0, <2>2, <2>3, Zenon
<1>5. CASE AwaitWrite(c)
  <2>1. pc[c] = "write" /\ item[c] # None /\ c[1] # Sink /\ c[1] + 1 \in Channels
        /\ UNCHANGED <<closed, emitted, received>>
    BY <1>0, <1>5, NodeNumbers, Zenon DEF AwaitWrite, Holds
  <2>2. ~closed[c[1] + 1]
    BY <1>0, <2>1, ClosedBehindWriters, Zenon DEF CloseAfterWriters
  <2>3. /\ m_channel' = [m_channel EXCEPT ![c[1] + 1] = Append(@, item[c])]
        /\ item' = [item EXCEPT ![c] = None] /\ pc' = [pc EXCEPT ![c] = "loop"]
    BY <1>0, <1>5, <2>2, Zenon DEF AwaitWrite, Go
  <2>4. OnlyEmitted' /\ OnePlace' /\ SomePlace'
    BY <1>0, <2>1, <2>3, Writes, Zenon
  <2>5. /\ \A d \in Contexts : /\ pc'[d] = IF d = c THEN "loop" ELSE pc[d]
                               /\ item'[d] = IF d = c THEN None ELSE item[d]
        /\ \A k \in Channels : k # c[1] + 1 => m_channel'[k] = m_channel[k]
    BY <1>0, <2>3, Zenon DEF Types
  <2>6. Holds'
    BY <1>0, <2>5, Zenon DEF Holds
  <2>7. Drained'
    <3> SUFFICES ASSUME Healthy', NEW d \in Contexts, d[1] # Source, pc'[d] \in Leaving
                 PROVE  m_channel'[d[1]] = <<>> /\ closed'[d[1]]
      BY <1>0, Zenon DEF Drained
    <3>1. pc[d] \in Leaving /\ d[1] \in Channels
      BY <1>0, <2>5, ContextShape, Zenon DEF Leaving, Channels
    <3>2. m_channel[d[1]] = <<>> /\ closed[d[1]]
      BY <1>0, <3>1, Zenon DEF Drained
    <3> QED BY <1>0, <2>1, <2>2, <2>5, <3>1, <3>2, Zenon
  <2> QED BY <1>0, <2>4, <2>6, <2>7, Zenon
<1>6. CASE CriticalSection(c)
  <2>1. pc' = [pc EXCEPT ![c] = "exit"] /\ pc[c] = "critical"
        /\ UNCHANGED <<item, m_channel, emitted, received>>
    BY <1>0, <1>6, Zenon DEF CriticalSection, Go
  <2>2. \A d \in Contexts : pc'[d] = IF d = c THEN "exit" ELSE pc[d]
    BY <1>0, <2>1, Zenon DEF Types
  <2>3. \A k \in Channels : closed[k] => closed'[k]
    BY <1>0, <1>6, Zenon DEF CriticalSection, Types
  <2>4. Holds'
    BY <1>0, <2>1, <2>2, SMTT(30) DEF Holds
  <2>5. Drained'
    <3> SUFFICES ASSUME Healthy', NEW d \in Contexts, d[1] # Source, pc'[d] \in Leaving
                 PROVE  m_channel'[d[1]] = <<>> /\ closed'[d[1]]
      BY <1>0, Zenon DEF Drained
    <3>1. pc[d] \in Leaving /\ d[1] \in Channels
      BY <1>0, <2>1, <2>2, ContextShape, Zenon DEF Leaving, Channels
    <3> QED BY <1>0, <2>1, <2>3, <3>1, Zenon DEF Drained
  <2> QED BY <1>0, <2>1, <2>4, <2>5, NothingMoves, Zenon
<1>7. CASE Emit(c)
  <2>1. pc[c] = "loop" /\ c[1] = Source /\ item[c] = None
        /\ UNCHANGED <<m_channel, closed, received>>
    BY <1>0, <1>7, Zenon DEF Emit, Holds
  <2>2. /\ emitted' = emitted + 1 /\ item' = [item EXCEPT ![c] = emitted']
        /\ pc' = [pc EXCEPT ![c] = "write"]
    BY <1>0, <1>7, Zenon DEF Emit, Go
  <2>3. OnlyEmitted' /\ OnePlace' /\ SomePlace'
    BY <1>0, <2>1, <2>2, Emits, Zenon
  <2>4. \A d \in Contexts : /\ pc'[d] = IF d = c THEN "write" ELSE pc[d]
                            /\ item'[d] = IF d = c THEN emitted + 1 ELSE item[d]
    BY <1>0, <2>2, Zenon DEF Types
  <2>5. emitted + 1 # None /\ Source # Sink
    BY <1>0, NodeNumbers, SMTT(30) DEF Types, None
  <2>6. Holds'
    BY <1>0, <2>1, <2>4, <2>5, Zenon DEF Holds
  <2>7. Drained'
    BY <1>0, <2>1, <2>4, Zenon DEF Drained, Leaving
  <2> QED BY <1>0, <2>3, <2>6, <2>7, Zenon
<1>8. CASE Throw(c)
  <2>1. ~Healthy' /\ item' = [item EXCEPT ![c] = None] /\ pc' = [pc EXCEPT ![c] = "loop"]
        /\ UNCHANGED <<m_channel, closed, emitted, received>>
    BY <1>0, <1>8, Zenon DEF Throw, Go, Healthy
  <2>2. \A d \in Contexts : /\ pc'[d] = IF d = c THEN "loop" ELSE pc[d]
                            /\ item'[d] = IF d = c THEN None ELSE item[d]
    BY <1>0, <2>1, Zenon DEF Types
  <2>3. Holds'
    BY <1>0, <2>2, Zenon DEF Holds
  <2>4. Drained'
    BY <1>0, <2>1, Zenon DEF Drained
  <2> QED BY <1>0, <2>1, <2>3, <2>4, LetsGo, Zenon
<1> QED BY <1>1, <1>2, <1>3, <1>4, <1>5, <1>6, <1>7, <1>8, Zenon DEF Step

(* The whole invariant is kept by every step ... *)
LEMMA SegmentStep ==
  ASSUME SegmentAssumption, IInv, [Next]_vars
  PROVE  IInv'
<1>1. CInv'
  BY ControlStep, Zenon DEF IInv, FInv
<1>2. KillIsKilling' /\ StaySubscribed'
  BY SubscriptionsKept, Zenon DEF IInv, CInv, FInv
<1>3. Healthy' => Healthy
  BY HealthyBefore, Zenon
<1> DEFINE Flow == Holds /\ Drained /\ OnlyEmitted /\ OnePlace /\ SomePlace
<1>4. ASSUME NEW c \in Contexts, Step(c) \/ Emit(c) \/ SourceCompletes(c) \/ Throw(c)
      PROVE  Flow'
  BY <1>3, <1>4, ContextStep, Zenon
<1>5. ASSUME NEW i \in Nodes, Ignition(i) PROVE Flow'
  <2>1. UNCHANGED <<item, m_channel, closed, emitted, received>>
    BY <1>5, Zenon DEF Ignition, flowVars, history
  <2>2. \A c \in Contexts : pc'[c] = pc[c] \/ (pc[c] = "unlaunched" /\ pc'[c] = "run")
    BY <1>5, NodeNumbers, Zenon DEF Ignition, IInv, CInv, Launched, At
  <2>3. Holds'
    BY <2>1, <2>2, Zenon DEF IInv, FInv, Holds, At
  <2>4. Drained'
    BY <1>3, <2>1, <2>2, Zenon DEF IInv, FInv, Drained, Leaving
  <2> QED BY <1>3, <2>1, <2>3, <2>4, NothingMoves, Zenon DEF IInv, FInv
<1>6. CASE StoreRunner \/ Stop \/ Kill \/ DoServiceKill \/ UNCHANGED vars
  <2>1. UNCHANGED <<pc, item, m_channel, closed, emitted, received>>
    BY <1>6, Zenon DEF StoreRunner, Stop, Kill, DoServiceKill, vars, flowVars, history
  <2>2. Holds' /\ Drained'
    BY <1>3, <2>1, Zenon DEF IInv, FInv, Holds, Drained, At
  <2>3. Flow'
    BY <1>3, <2>1, <2>2, NothingMoves, Zenon DEF IInv, FInv
  <2> QED BY <1>1, <1>2, <2>3, Zenon DEF IInv, FInv
<1> QED BY <1>1, <1>2, <1>4, <1>5, <1>6, Zenon DEF Next, IInv, FInv

(* ... and holds from the start. *)
LEMMA SegmentInvariant == SegmentAssumption => (Spec => []IInv)
<1> SUFFICES ASSUME SegmentAssumption PROVE Spec => []IInv
  BY Zenon
<1>1. Init => IInv
  <2> SUFFICES ASSUME Init PROVE IInv
    BY Zenon
  <2>1. Types
    BY EmptySeq, Zenon DEF Init, Types, Places, Channels, None
  <2>2. Launched /\ Gathered /\ RankZero /\ ClosedByRankZero
    BY ContextShape, NodeNumbers, Zenon
       DEF Init, Launched, Gathered, RankZero, ClosedByRankZero, At, Channels
  <2>3. Holds /\ KillIsKilling /\ StaySubscribed /\ Drained
    BY Zenon DEF Init, Holds, KillIsKilling, StaySubscribed, Drained, At, Channels, Leaving
  <2>4. OnlyEmitted /\ OnePlace /\ SomePlace
    <3>1. /\ \A c \in Contexts : item[c] = None
          /\ \A i \in Channels : m_channel[i] = <<>>
          /\ emitted = 0 /\ received = <<>>
      BY Zenon DEF Init, Channels
    <3>2. 1 .. Len(<<>>) = {} /\ 1 .. 0 = {} /\ 0 <= 0
      BY EmptySeq, SMTT(30)
    <3>3. OnlyEmitted /\ SomePlace
      BY <3>1, <3>2, Zenon DEF OnlyEmitted, SomePlace, None
    <3>4. OnePlace
      BY <3>1, <3>2, Zenon DEF OnePlace, HandsApart, QueuesApart, ReceivedApart,
                               HandNotQueued, HandNotReceived, QueuedNotReceived
    <3> QED BY <3>3, <3>4, Zenon
  <2> QED BY <2>1, <2>2, <2>3, <2>4, Zenon DEF IInv, CInv, FInv
<1>2. IInv /\ [Next]_vars => IInv'
  BY SegmentStep, Zenon
<1> QED BY <1>1, <1>2, PTL DEF Spec
-----------------------------------------------------------------------------
(* The channel downstream of a node is closed only when no context of the    *)
(* node can still write: the first barrier of RxRunnable::shutdown, for      *)
(* every chain and every number of contexts.                                 *)
THEOREM ChannelsCloseLast == SegmentAssumption => (Spec => []CloseAfterWriters)
<1>1. SegmentAssumption /\ IInv => CloseAfterWriters
  BY ClosedBehindWriters, Zenon DEF IInv
<1> SUFFICES ASSUME SegmentAssumption PROVE Spec => []CloseAfterWriters
  BY Zenon
<1>2. IInv => CloseAfterWriters
  BY <1>1, Zenon
<1> QED BY <1>2, SegmentInvariant, PTL

(* When every context of a healthy segment has ended, its elements are all   *)
(* with the sink's observer: nobody holds one and the channels are empty.    *)
LEMMA AllDelivered ==
  ASSUME SegmentAssumption, IInv, Ended, Healthy
  PROVE  \A k \in 1 .. emitted : Delivered(k)
<1>1. \A c \in Contexts : item[c] = None
  BY Zenon DEF Ended, At, IInv, FInv, Holds
<1>2. \A i \in Channels : m_channel[i] = <<>>
  <2> TAKE i \in Channels
  <2>1. PICK c \in Contexts : c[1] = i
    BY ContextShape, Zenon DEF Channels
  <2> QED BY <2>1, Zenon DEF IInv, FInv, Drained, Ended, At, Leaving, Channels
<1> TAKE k \in 1 .. emitted
<1>3. ~InHand(k)
  BY <1>1, SMTT(30) DEF InHand, None
<1>4. ~InChannel(k)
  BY <1>2, EmptySeq, SMTT(30) DEF InChannel
<1> QED BY <1>3, <1>4, Zenon DEF IInv, FInv, SomePlace

(* A segment that ends by itself or by service_stop has delivered every      *)
(* element its source emitted, once: in one place at a time, in some place   *)
(* as long as nobody kills or throws, and at the end in no other place.      *)
THEOREM SegmentLosesNothing == SegmentAssumption => (Spec => []NothingLost)
<1> SUFFICES ASSUME SegmentAssumption PROVE Spec => []NothingLost
  BY Zenon
<1>1. ASSUME IInv PROVE NothingLost
  <2> SUFFICES ASSUME Ended, Healthy
               PROVE  /\ Len(received) = emitted
                      /\ {received[i] : i \in 1 .. Len(received)} = 1 .. emitted
    BY Zenon DEF NothingLost, Healthy
  <2>1. /\ emitted \in Nat /\ Len(received) \in Nat
        /\ received \in [1 .. Len(received) -> Nat]
    BY <1>1, LenProperties, Zenon DEF IInv, CInv, Types
  <2>2. \A k \in 1 .. emitted : \E j \in 1 .. Len(received) : received[j] = k
    BY <1>1, AllDelivered, Zenon DEF Delivered
  <2>3. \A j \in 1 .. Len(received) : received[j] \in 1 .. emitted
    BY <1>1, Zenon DEF IInv, FInv, OnlyEmitted
  <2>4. \A j, l \in 1 .. Len(received) : received[j] = received[l] => j = l
    BY <1>1, Zenon DEF IInv, FInv, OnePlace, ReceivedApart
  <2>5. received \in Bijection(1 .. Len(received), 1 .. emitted)
    <3>1. received \in [1 .. Len(received) -> 1 .. emitted]
      BY <2>1, <2>3, Zenon
    <3> QED BY <2>2, <2>4, <3>1, Zenon DEF Bijection, Injection, Surjection, IsInjective
  <2>6. Cardinality(1 .. Len(received)) = Cardinality(1 .. emitted)
    <3>1. ExistsBijection(1 .. Len(received), 1 .. emitted)
      BY <2>5, Zenon DEF ExistsBijection
    <3>2. IsFiniteSet(1 .. Len(received))
      BY <2>1, FS_Interval, SMTT(30)
    <3> QED BY <3>1, <3>2, FS_Bijection, Zenon
  <2>7. Cardinality(1 .. Len(received)) = Len(received) /\ Cardinality(1 .. emitted) = emitted
    <3>1. \A n \in Nat : Cardinality(1 .. n) = IF 1 > n THEN 0 ELSE n - 1 + 1
      BY FS_Interval, SMTT(30)
    <3>2. \A n \in Nat : Cardinality(1 .. n) = n
      BY <3>1, SMTT(30)
    <3> QED BY <2>1, <3>2, Zenon
  <2> QED BY <2>2, <2>3, <2>6, <2>7, Zenon
<1> QED BY <1>1, SegmentInvariant, PTL
=============================================================================
