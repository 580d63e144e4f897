---------------------------- MODULE RecentChannel ----------------------------
(***************************************************************************)
(* channel::RecentChannel: writers never block, the oldest element makes   *)
(* way for a new one, readers wait on a condition variable.  Elements are  *)
(* numbered in the order they are written.  What holds m_mutex is one      *)
(* action; a reader that waits on m_cv gives the mutex back and takes it   *)
(* again once it has been notified, or spuriously.                         *)
(***************************************************************************)
EXTENDS Naturals, Sequences, FiniteSets

CONSTANTS Readers,
          MaxSize,     \* m_max_size
          MaxWrites    \* bound on the number of elements written

VARIABLES
  m_deque, m_is_shutdown,
  waiting,    \* readers on m_cv
  woken,      \* readers that have been notified and wait for m_mutex
  reader,     \* per reader: the function it is in, or the status it got
  expired,    \* per reader: the deadline of its await_read_until has passed
  written,    \* number of elements written, the newest element
  reads       \* history: elements read, in order

vars == <<m_deque, m_is_shutdown, waiting, woken, reader, expired, written, reads>>

(* Statuses, and the functions that a reader may be blocked in. *)
Statuses == {"success", "empty", "closed", "timeout"}
Blocking == {"await_read", "await_read_until"}

Init ==
  /\ m_deque = <<>>
  /\ m_is_shutdown = FALSE
  /\ waiting = {} /\ woken = {}
  /\ reader = [r \in Readers |-> "success"]
  /\ expired = [r \in Readers |-> FALSE]
  /\ written = 0
  /\ reads = <<>>
-----------------------------------------------------------------------------
(* m_cv.notify_one: a waiter, if there is one, becomes ready. *)
NotifyOne ==
  IF waiting = {}
  THEN UNCHANGED <<waiting, woken>>
  ELSE \E r \in waiting : waiting' = waiting \ {r} /\ woken' = woken \cup {r}

NotifyAll == waiting' = {} /\ woken' = woken \cup waiting

(* Mutants of AwaitWrite: one element too many is kept, the newest element   *)
(* makes way, or nobody is told unless the deque was empty.                  *)
AwaitWriteOneMore ==
  /\ written < MaxWrites /\ ~m_is_shutdown
  /\ written' = written + 1
  /\ m_deque' = Append(IF Len(m_deque) > MaxSize THEN Tail(m_deque) ELSE m_deque, written')
  /\ NotifyOne
  /\ UNCHANGED <<m_is_shutdown, reader, expired, reads>>

AwaitWriteDropNewest ==
  /\ written < MaxWrites /\ ~m_is_shutdown
  /\ written' = written + 1
  /\ m_deque' = IF Len(m_deque) >= MaxSize THEN m_deque ELSE Append(m_deque, written')
  /\ NotifyOne
  /\ UNCHANGED <<m_is_shutdown, reader, expired, reads>>

AwaitWriteNotifyWhenEmpty ==
  /\ written < MaxWrites /\ ~m_is_shutdown
  /\ written' = written + 1
  /\ m_deque' = Append(IF Len(m_deque) >= MaxSize THEN Tail(m_deque) ELSE m_deque, written')
  /\ IF m_deque = <<>> THEN NotifyOne ELSE UNCHANGED <<waiting, woken>>
  /\ UNCHANGED <<m_is_shutdown, reader, expired, reads>>

(* RecentChannel::do_await_write; on a closed channel it changes nothing. *)
AwaitWrite ==
  /\ written < MaxWrites /\ ~m_is_shutdown
  /\ written' = written + 1
  /\ m_deque' = Append(IF Len(m_deque) >= MaxSize THEN Tail(m_deque) ELSE m_deque, written')
  /\ NotifyOne
  /\ UNCHANGED <<m_is_shutdown, reader, expired, reads>>

(* A reader r leaves the function it is in with a status; on success it has  *)
(* taken the oldest element.                                                 *)
Return(r, status) ==
  /\ reader' = [reader EXCEPT ![r] = status]
  /\ woken' = woken \ {r}
  /\ IF status = "success"
     THEN m_deque' = Tail(m_deque) /\ reads' = Append(reads, Head(m_deque))
     ELSE UNCHANGED <<m_deque, reads>>
  /\ UNCHANGED <<m_is_shutdown, waiting, written>>

(* It waits on m_cv. *)
Wait(r, function) ==
  /\ reader' = [reader EXCEPT ![r] = function]
  /\ woken' = woken \ {r}
  /\ waiting' = waiting \cup {r}
  /\ UNCHANGED <<m_deque, m_is_shutdown, written, reads>>

(* The readers' functions after the wait: closed wins over an element. *)
Outcome(otherwise) ==
  IF m_is_shutdown THEN "closed"
  ELSE IF m_deque # <<>> THEN "success" ELSE otherwise

NothingToRead == m_deque = <<>> /\ ~m_is_shutdown

(* RecentChannel::do_await_read, from its first line or back from m_cv. *)
AwaitRead(r) ==
  /\ IF NothingToRead THEN Wait(r, "await_read") ELSE Return(r, Outcome("success"))
  /\ UNCHANGED expired

(* RecentChannel::do_try_read *)
TryRead(r) ==
  /\ Return(r, Outcome("empty"))
  /\ UNCHANGED expired

(* RecentChannel::do_await_read_until: it enters the loop, and wait_until,   *)
(* only if the deadline is before now; wait_until then returns at once when  *)
(* the channel is empty, and the loop goes round.                            *)
AwaitReadUntil(r) ==
  IF NothingToRead /\ expired[r]
  THEN Wait(r, "await_read_until") /\ UNCHANGED expired
  ELSE Return(r, Outcome("timeout")) /\ UNCHANGED expired

(* A call of one of the three with a deadline that may be over already. *)
Call(r) ==
  /\ reader[r] \notin Blocking
  /\ AwaitRead(r) \/ TryRead(r) \/ AwaitReadUntil(r)

(* A notified reader has the mutex back. *)
Resume(r) ==
  /\ r \in woken
  /\ \/ reader[r] = "await_read" /\ AwaitRead(r)
     \/ reader[r] = "await_read_until" /\ AwaitReadUntil(r)

(* A wait may end without a notification, a wait_until always does. *)
WakeUp(r) ==
  /\ r \in waiting
  /\ waiting' = waiting \ {r} /\ woken' = woken \cup {r}
  /\ UNCHANGED <<m_deque, m_is_shutdown, reader, expired, written, reads>>

(* Time passes the deadline of r's next or current await_read_until. *)
Expire(r) ==
  /\ ~expired[r]
  /\ expired' = [expired EXCEPT ![r] = TRUE]
  /\ UNCHANGED <<m_deque, m_is_shutdown, waiting, woken, reader, written, reads>>

(* Mutant of CloseChannel: only one waiter is told. *)
CloseChannelNotifyOne ==
  /\ ~m_is_shutdown
  /\ m_is_shutdown' = TRUE
  /\ NotifyOne
  /\ UNCHANGED <<m_deque, reader, expired, written, reads>>

(* RecentChannel::do_close_channel *)
CloseChannel ==
  /\ ~m_is_shutdown
  /\ m_is_shutdown' = TRUE
  /\ NotifyAll
  /\ UNCHANGED <<m_deque, reader, expired, written, reads>>

Next ==
  \/ AwaitWrite \/ CloseChannel
  \/ \E r \in Readers : Call(r) \/ Resume(r) \/ WakeUp(r) \/ Expire(r)

Spec == Init /\ [][Next]_vars

(* A notified reader gets the mutex; no wake-up without a notification is    *)
(* counted on, except that of wait_until.                                    *)
Fairness == \A r \in Readers : WF_vars(Resume(r))

FairSpec == Spec /\ Fairness
-----------------------------------------------------------------------------
(* The deque holds the most recent elements, at most m_max_size and all that *)
(* no reader has taken, in the order they were written; and readers get them *)
(* in that order.                                                            *)
MostRecent ==
  /\ Len(m_deque) <= MaxSize
  /\ \A i \in 1 .. Len(m_deque) : m_deque[i] = written - Len(m_deque) + i
  /\ \A i, j \in 1 .. Len(reads) : i < j => reads[i] < reads[j]
  /\ reads # <<>> /\ m_deque # <<>> => reads[Len(reads)] < m_deque[1]

(* notify_one per element is enough: while some reader waits, every element  *)
(* has a notified reader on its way, however readers and elements come and   *)
(* go in between.                                                            *)
NoLostWakeup ==
  ~m_is_shutdown /\ waiting # {} => Len(m_deque) <= Cardinality(woken)

(* After close_channel no reader stays blocked. *)
CloseReleases ==
  m_is_shutdown ~> \A r \in Readers : reader[r] \notin Blocking

(* channel.hpp:52, "The channel interface was designed to mimic              *)
(* boost::fiber::buffered_channel": a timeout is not reported before the     *)
(* deadline given to await_read_until.                                       *)
TimeoutAfterDeadline ==
  \A r \in Readers : reader[r] = "timeout" => expired[r]
=============================================================================
