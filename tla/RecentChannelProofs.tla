------------------------ MODULE RecentChannelProofs ------------------------
(***************************************************************************)
(* RecentChannel for any number of readers and writes and any room: the    *)
(* deque holds the newest elements in order, readers get them in order,    *)
(* and one notify_one per element wakes enough of the readers that wait.   *)
(***************************************************************************)
EXTENDS RecentChannel, FiniteSetTheorems, SequenceTheorems, TLAPS

(* A channel has room for an element: with m_max_size = 0, do_await_write    *)
(* would pop an empty deque.                                                 *)
ChannelAssumption == MaxSize \in Nat \ {0}

(* The elements still in the deque are the last ones written, and whatever   *)
(* was read came before them.                                                *)
Elements ==
  /\ m_deque \in Seq(Nat) /\ reads \in Seq(Nat) /\ written \in Nat
  /\ Len(m_deque) <= written
  /\ reads # <<>> => reads[Len(reads)] <= written - Len(m_deque)

(* Readers that wait and readers that were notified are different ones, so   *)
(* that a notification adds to those on their way to an element.             *)
WaitingReaders ==
  IsFiniteSet(waiting) /\ IsFiniteSet(woken) /\ waiting \cap woken = {}

ChannelInv == Elements /\ WaitingReaders /\ MostRecent /\ NoLostWakeup

(* A new channel is empty and nobody waits. *)
LEMMA ChannelInit == ASSUME ChannelAssumption, Init PROVE ChannelInv
<1> USE DEF Init
<1>1. Elements /\ MostRecent
  BY EmptySeq, SMTT(30) DEF ChannelAssumption, Elements, MostRecent
<1>2. WaitingReaders /\ NoLostWakeup
  BY FS_EmptySet, Zenon DEF WaitingReaders, NoLostWakeup
<1> QED BY <1>1, <1>2, Zenon DEF ChannelInv

(* notify_one moves a waiting reader, if there is one, to the notified ones. *)
LEMMA Notified ==
  ASSUME WaitingReaders, NotifyOne
  PROVE  /\ WaitingReaders'
         /\ waiting' # {} => Cardinality(woken') = Cardinality(woken) + 1
<1> USE DEF WaitingReaders, NotifyOne
<1>1. CASE waiting = {}
  BY <1>1, Zenon
<1>2. ASSUME NEW r \in waiting, waiting' = waiting \ {r}, woken' = woken \cup {r}
      PROVE  WaitingReaders' /\ Cardinality(woken') = Cardinality(woken) + 1
  BY <1>2, FS_AddElement, FS_RemoveElement, Zenon
<1> QED BY <1>1, <1>2, Zenon

(* do_await_write drops the oldest element of a full deque, appends the new  *)
(* one and tells one reader.                                                 *)
LEMMA ChannelWrite == ASSUME ChannelAssumption, ChannelInv, AwaitWrite PROVE ChannelInv'
<1> USE DEF ChannelAssumption, Elements
<1> DEFINE kept == IF Len(m_deque) >= MaxSize THEN Tail(m_deque) ELSE m_deque
<1>0. Elements /\ WaitingReaders /\ MostRecent /\ NoLostWakeup
  BY Zenon DEF ChannelInv
<1>1. /\ kept \in Seq(Nat) /\ Len(kept) \in Nat
      /\ Len(kept) < MaxSize /\ Len(kept) <= Len(m_deque)
      /\ \A i \in 1 .. Len(kept) : kept[i] = written - Len(kept) + i
  <2>1. CASE Len(m_deque) >= MaxSize
    <3>1. m_deque # <<>> /\ Len(m_deque) \in Nat
      BY <1>0, <2>1, EmptySeq, LenProperties, SMTT(30)
    <3>2. /\ Tail(m_deque) \in Seq(Nat) /\ Len(Tail(m_deque)) = Len(m_deque) - 1
          /\ \A i \in 1 .. Len(Tail(m_deque)) : Tail(m_deque)[i] = m_deque[i + 1]
      BY <1>0, <3>1, HeadTailProperties, Zenon
    <3> HIDE DEF Elements
    <3>3. \A i \in 1 .. Len(m_deque) - 1 : m_deque[i + 1] = written - Len(m_deque) + (i + 1)
      BY <1>0, <3>1, SMTT(30) DEF MostRecent, Elements
    <3> QED BY <1>0, <2>1, <3>1, <3>2, <3>3, SMTT(30) DEF MostRecent, Elements
  <2>2. CASE ~(Len(m_deque) >= MaxSize)
    BY <1>0, <2>2, LenProperties, SMTT(30) DEF MostRecent
  <2> QED BY <2>1, <2>2, Zenon
<1> HIDE DEF kept
<1>2. /\ m_deque' = Append(kept, written + 1) /\ written' = written + 1 /\ reads' = reads
      /\ m_deque' \in Seq(Nat) /\ Len(m_deque') = Len(kept) + 1
      /\ \A i \in 1 .. Len(kept) : m_deque'[i] = kept[i]
      /\ m_deque'[Len(kept) + 1] = written + 1
  <2>1. /\ m_deque' = Append(kept, written + 1) /\ written' = written + 1 /\ reads' = reads
        /\ written + 1 \in Nat
    BY <1>0, SMTT(30) DEF AwaitWrite, kept
  <2> QED BY <1>1, <2>1, AppendProperties, SMTT(30)
<1>3. Elements'
  <2>1. Len(m_deque) \in Nat /\ (reads # <<>> => reads[Len(reads)] \in Nat)
    BY <1>0, LenProperties, EmptySeq, ElementOfSeq, SMTT(30)
  <2> QED BY <1>0, <1>1, <1>2, <2>1, SMTT(30)
<1>4. MostRecent'
  <2>1. \A i \in 1 .. Len(m_deque') : m_deque'[i] = written' - Len(m_deque') + i
    <3>1. \A i \in 1 .. Len(kept) : m_deque'[i] = written + 1 - (Len(kept) + 1) + i
      BY ONLY <1>0, <1>1, <1>2, SMTT(30) DEF Elements
    <3>2. m_deque'[Len(kept) + 1] = written + 1 - (Len(kept) + 1) + (Len(kept) + 1)
      BY ONLY <1>0, <1>1, <1>2, SMTT(30) DEF Elements
    <3> SUFFICES ASSUME NEW i \in 1 .. Len(m_deque')
                 PROVE  m_deque'[i] = written' - Len(m_deque') + i
      BY Zenon
    <3>3. i \in 1 .. Len(kept) \/ i = Len(kept) + 1
      BY ONLY <1>1, <1>2, SMTT(30)
    <3>4. /\ written' = written + 1 /\ Len(m_deque') = Len(kept) + 1
          /\ written \in Nat /\ Len(kept) \in Nat /\ i \in Int
      BY <1>0, <1>1, <1>2, SMTT(30)
    <3>5. m_deque'[i] = written + 1 - (Len(kept) + 1) + i
      BY ONLY <3>1, <3>2, <3>3, Zenon
    <3> QED BY ONLY <3>4, <3>5, SMTT(30)
  <2>2. \A i, j \in 1 .. Len(reads') : i < j => reads'[i] < reads'[j]
    BY <1>0, <1>2, Zenon DEF MostRecent
  <2>3. reads' # <<>> => reads'[Len(reads')] < m_deque'[1]
    <3>1. m_deque'[1] = written' - Len(m_deque') + 1
      BY <1>1, <1>2, <2>1, SMTT(30)
    <3> QED BY <3>1, <1>3, SMTT(30)
  <2> QED BY <1>1, <1>2, <2>1, <2>2, <2>3, SMTT(30) DEF MostRecent
<1>5. /\ WaitingReaders'
      /\ waiting' # {} => waiting # {} /\ Cardinality(woken') = Cardinality(woken) + 1
  BY <1>0, Notified, Zenon DEF AwaitWrite, NotifyOne
<1>6. NoLostWakeup'
  <2>1. Cardinality(woken) \in Nat /\ Len(m_deque) \in Nat
    BY <1>0, FS_CardinalityType, LenProperties, Zenon DEF WaitingReaders
  <2>2. ~m_is_shutdown /\ (waiting' # {} => Len(m_deque) <= Cardinality(woken))
    BY <1>0, <1>5, Zenon DEF NoLostWakeup, AwaitWrite
  <2>3. waiting' # {} => Len(m_deque') <= Cardinality(woken')
    BY ONLY <1>1, <1>2, <1>5, <2>1, <2>2, SMTT(30)
  <2> QED BY ONLY <2>3, Zenon DEF NoLostWakeup
<1> QED BY <1>3, <1>4, <1>5, <1>6, Zenon DEF ChannelInv

(* A reader leaves with the oldest element, or without one because there is  *)
(* none or the channel is closed.                                            *)
LEMMA ChannelReturn ==
  ASSUME ChannelAssumption, ChannelInv, NEW r, NEW status, Return(r, status),
         status = "success" => m_deque # <<>>,
         status # "success" => m_is_shutdown \/ m_deque = <<>>
  PROVE  ChannelInv'
<1>0. Elements /\ WaitingReaders /\ MostRecent /\ NoLostWakeup
  BY Zenon DEF ChannelInv
<1>1. /\ Len(m_deque) \in Nat /\ Len(reads) \in Nat
      /\ \A i \in 1 .. Len(reads) : reads[i] \in Nat
      /\ reads # <<>> => Len(reads) \in 1 .. Len(reads)
  BY <1>0, LenProperties, ElementOfSeq, EmptySeq, SMTT(30) DEF Elements
<1>2. UNCHANGED <<m_is_shutdown, waiting, written>> /\ woken' = woken \ {r}
  BY Zenon DEF Return
<1>3. WaitingReaders' /\ Cardinality(woken) \in Nat
      /\ Cardinality(woken') \in {Cardinality(woken), Cardinality(woken) - 1}
  BY <1>0, <1>2, FS_RemoveElement, FS_CardinalityType, Zenon DEF WaitingReaders
<1>4. CASE status = "success"
  <2>1. /\ m_deque' \in Seq(Nat) /\ Len(m_deque') = Len(m_deque) - 1
        /\ \A i \in 1 .. Len(m_deque) - 1 : m_deque'[i] = m_deque[i + 1]
        /\ Len(m_deque) >= 1
    <3>1. m_deque \in Seq(Nat) /\ m_deque # <<>> /\ m_deque' = Tail(m_deque)
      BY <1>0, <1>4, Zenon DEF Return, Elements
    <3>2. /\ Tail(m_deque) \in Seq(Nat) /\ Len(Tail(m_deque)) = Len(m_deque) - 1
          /\ \A i \in 1 .. Len(Tail(m_deque)) : Tail(m_deque)[i] = m_deque[i + 1]
      BY ONLY <3>1, HeadTailProperties, Zenon
    <3>3. Len(m_deque) # 0
      BY ONLY <3>1, EmptySeq, Zenon
    <3> QED BY ONLY <1>1, <3>1, <3>2, <3>3, SMTT(30)
  <2>2. Head(m_deque) = written - Len(m_deque) + 1 /\ Head(m_deque) \in Nat
    <3>1. Head(m_deque) = m_deque[1]
      BY <1>0, <1>4, SMTT(30) DEF Elements
    <3> QED BY <1>0, <1>1, <2>1, <3>1, SMTT(30) DEF Elements, MostRecent
  <2>3. /\ reads' \in Seq(Nat) /\ Len(reads') = Len(reads) + 1
        /\ \A i \in 1 .. Len(reads) : reads'[i] = reads[i]
        /\ reads'[Len(reads) + 1] = Head(m_deque)
    <3> DEFINE e == Head(m_deque)
    <3>1. reads \in Seq(Nat) /\ reads' = Append(reads, e) /\ e \in Nat
      BY <1>0, <1>4, <2>2, Zenon DEF Return, Elements
    <3> HIDE DEF e
    <3>2. reads' \in Seq(Nat) /\ Len(reads') = Len(reads) + 1
          /\ (\A i \in 1 .. Len(reads) : reads'[i] = reads[i]) /\ reads'[Len(reads) + 1] = e
      BY ONLY <3>1, AppendProperties, SMTT(30)
    <3> QED BY ONLY <3>2, Zenon DEF e
  <2>4. Elements'
    BY <1>0, <1>1, <1>2, <2>1, <2>2, <2>3, SMTT(30) DEF Elements
  <2>5. MostRecent'
    <3>1. \A i \in 1 .. Len(m_deque') : m_deque'[i] = written' - Len(m_deque') + i
      <4>1. \A i \in 1 .. Len(m_deque) - 1 : m_deque[i + 1] = written - Len(m_deque) + (i + 1)
        BY <1>0, <1>1, SMTT(30) DEF MostRecent
      <4> QED BY <1>0, <1>1, <1>2, <2>1, <4>1, SMTT(30) DEF Elements
    <3>2. \A i \in 1 .. Len(reads) : reads[i] < Head(m_deque)
      <4>1. \A i \in 1 .. Len(reads) : i < Len(reads) => reads[i] < reads[Len(reads)]
        BY <1>0, <1>1, SMTT(30) DEF MostRecent
      <4>2. reads # <<>> => reads[Len(reads)] < Head(m_deque)
        BY <1>0, <1>1, <2>2, SMTT(30) DEF Elements
      <4>3. reads = <<>> => Len(reads) = 0
        OBVIOUS
      <4> QED BY <1>1, <2>2, <4>1, <4>2, <4>3, SMTT(30)
    <3>3. \A i, j \in 1 .. Len(reads') : i < j => reads'[i] < reads'[j]
      <4> SUFFICES ASSUME NEW i \in 1 .. Len(reads'), NEW j \in 1 .. Len(reads'), i < j
                   PROVE  reads'[i] < reads'[j]
        BY Zenon
      <4>0. Len(reads) \in Nat /\ Len(reads') = Len(reads) + 1
        BY ONLY <1>1, <2>3, Zenon
      <4>1. i \in 1 .. Len(reads) /\ (j \in 1 .. Len(reads) \/ j = Len(reads) + 1)
        BY ONLY <4>0, i \in 1 .. Len(reads'), j \in 1 .. Len(reads'), i < j, SMTT(30)
      <4> QED BY <1>0, <2>3, <3>2, <4>1, Zenon DEF MostRecent
    <3>4. m_deque' # <<>> => reads'[Len(reads')] < m_deque'[1]
      <4>1. m_deque' # <<>> => Len(m_deque') >= 1
        BY <2>1, EmptySeq, SMTT(30)
      <4>2. m_deque' # <<>> => m_deque'[1] = written' - Len(m_deque') + 1
        BY <2>1, <1>1, <3>1, <4>1, SMTT(30)
      <4>3. reads'[Len(reads')] = Head(m_deque)
        BY ONLY <2>3, Zenon
      <4> QED BY <1>0, <1>1, <1>2, <2>1, <2>2, <4>2, <4>3, SMTT(30) DEF Elements
    <3>5. Len(m_deque') <= MaxSize
      BY <1>0, <1>1, <2>1, SMTT(30) DEF ChannelAssumption, MostRecent
    <3> QED BY <3>1, <3>3, <3>4, <3>5, Zenon DEF MostRecent
  <2>6. NoLostWakeup'
    BY <1>0, <1>1, <1>2, <1>3, <2>1, SMTT(30) DEF NoLostWakeup
  <2> QED BY <1>3, <2>4, <2>5, <2>6, Zenon DEF ChannelInv
<1>5. CASE status # "success"
  <2>1. UNCHANGED <<m_deque, reads>>
    BY <1>5, Zenon DEF Return
  <2>2. Elements' /\ MostRecent'
    BY <1>0, <1>2, <2>1, Zenon DEF Elements, MostRecent
  <2>3. m_is_shutdown' \/ Len(m_deque') = 0
    BY <1>2, <1>5, <2>1, Zenon
  <2>4. NoLostWakeup'
    <3>1. Cardinality(woken') >= 0
      BY <1>3, FS_CardinalityType, SMTT(30) DEF WaitingReaders
    <3> QED BY <2>3, <3>1, Zenon DEF NoLostWakeup
  <2> QED BY <1>3, <2>2, <2>4, Zenon DEF ChannelInv
<1> QED BY <1>4, <1>5, Zenon

(* A reader waits only when there is nothing to read. *)
LEMMA ChannelWait ==
  ASSUME ChannelAssumption, ChannelInv, NEW r, NEW function, Wait(r, function), NothingToRead
  PROVE  ChannelInv'
<1>0. Elements /\ WaitingReaders /\ MostRecent
  BY Zenon DEF ChannelInv
<1>1. WaitingReaders'
  BY <1>0, FS_AddElement, FS_RemoveElement, Zenon DEF WaitingReaders, Wait
<1>2. Elements' /\ MostRecent' /\ Len(m_deque') = 0
  BY <1>0, Zenon DEF Elements, MostRecent, Wait, NothingToRead
<1>3. Cardinality(woken') >= 0
  BY <1>1, FS_CardinalityType, SMTT(30) DEF WaitingReaders
<1> QED BY <1>1, <1>2, <1>3, Zenon DEF ChannelInv, NoLostWakeup

(* The three read functions, called or resumed. *)
LEMMA ChannelRead ==
  ASSUME ChannelAssumption, ChannelInv, NEW r, AwaitRead(r) \/ TryRead(r) \/ AwaitReadUntil(r)
  PROVE  ChannelInv'
<1>1. ASSUME NothingToRead, \E function : Wait(r, function) PROVE ChannelInv'
  BY <1>1, ChannelWait, Zenon
<1>2. ASSUME NEW otherwise \in {"success", "empty", "timeout"},
             otherwise = "success" => ~NothingToRead, Return(r, Outcome(otherwise))
      PROVE  ChannelInv'
  BY <1>2, ChannelReturn, Zenon DEF Outcome, NothingToRead
<1> QED BY <1>1, <1>2, Zenon DEF AwaitRead, TryRead, AwaitReadUntil

(* Every step of the channel and its readers. *)
LEMMA ChannelStep == ASSUME ChannelAssumption, ChannelInv, [Next]_vars PROVE ChannelInv'
<1>0. Elements /\ WaitingReaders /\ MostRecent /\ NoLostWakeup
  BY Zenon DEF ChannelInv
<1>1. CASE CloseChannel
  <2>1. Elements' /\ MostRecent' /\ NoLostWakeup'
    BY <1>0, <1>1, Zenon DEF CloseChannel, Elements, MostRecent, NoLostWakeup
  <2>2. WaitingReaders'
    BY <1>0, <1>1, FS_Union, FS_EmptySet, Zenon DEF CloseChannel, NotifyAll, WaitingReaders
  <2> QED BY <2>1, <2>2, Zenon DEF ChannelInv
<1>2. ASSUME NEW r \in Readers, Call(r) \/ Resume(r) PROVE ChannelInv'
  BY <1>2, ChannelRead, Zenon DEF Call, Resume
<1>3. ASSUME NEW r \in Readers, WakeUp(r) PROVE ChannelInv'
  <2>1. Elements' /\ MostRecent' /\ UNCHANGED <<m_deque, m_is_shutdown>>
    BY <1>0, <1>3, Zenon DEF WakeUp, Elements, MostRecent
  <2>2. WaitingReaders' /\ waiting # {}
        /\ Cardinality(woken) \in Nat /\ Cardinality(woken') = Cardinality(woken) + 1
    BY <1>0, <1>3, FS_AddElement, FS_RemoveElement, FS_CardinalityType, Zenon
       DEF WakeUp, WaitingReaders
  <2>3. NoLostWakeup'
    BY <1>0, <2>1, <2>2, LenProperties, SMTT(30) DEF NoLostWakeup, Elements
  <2> QED BY <2>1, <2>2, <2>3, Zenon DEF ChannelInv
<1>4. ASSUME NEW r \in Readers, Expire(r) PROVE ChannelInv'
  BY <1>0, <1>4, Zenon DEF Expire, ChannelInv, Elements, WaitingReaders, MostRecent,
     NoLostWakeup
<1>5. CASE UNCHANGED vars
  BY <1>0, <1>5, Zenon DEF vars, ChannelInv, Elements, WaitingReaders, MostRecent,
     NoLostWakeup
<1> QED BY <1>1, <1>2, <1>3, <1>4, <1>5, ChannelWrite, Zenon DEF Next

(* RecentChannel keeps the most recent elements, at most m_max_size of them, *)
(* hands them out in order, and has a notified reader under way for every    *)
(* element while a reader waits.                                             *)
THEOREM ChannelSound == ChannelAssumption => (Spec => [](MostRecent /\ NoLostWakeup))
<1> SUFFICES ASSUME ChannelAssumption PROVE Spec => [](MostRecent /\ NoLostWakeup)
  BY Zenon
<1>1. Init => ChannelInv
  BY ChannelInit, Zenon
<1>2. ChannelInv /\ [Next]_vars => ChannelInv'
  BY ChannelStep, Zenon
<1>3. ChannelInv => MostRecent /\ NoLostWakeup
  BY Zenon DEF ChannelInv
<1> QED BY <1>1, <1>2, <1>3, PTL DEF Spec
=============================================================================
