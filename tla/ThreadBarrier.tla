---------------------------- MODULE ThreadBarrier ----------------------------
(***************************************************************************)
(* srf::thread_barrier, the rendezvous of the ranks of a runnable that run *)
(* on threads.  The same threads meet again and again, so that one may be  *)
(* back for the next cycle while others have not left the last one.  What  *)
(* holds mtx_ is one action; the last thread to arrive notifies after it   *)
(* has unlocked; a waiting thread may also wake up spuriously.             *)
(***************************************************************************)
EXTENDS Naturals, FiniteSets

CONSTANTS Threads,   \* the threads that meet; initial_ is their number
          Rounds     \* bound on the number of calls of wait by a thread

ASSUME BarrierAssumption ==
  IsFiniteSet(Threads) /\ Threads # {} /\ Rounds \in Nat

VARIABLES
  current_, cycle_,
  pc,        \* where every thread is: "out", "notify", "waiting" or "awake"
  cycle,     \* every thread's local copy of cycle_
  arrived,   \* history: calls of wait by every thread
  passed,    \* history: returns from wait of every thread
  met        \* history: number of times cycle_ was flipped

vars == <<current_, cycle_, pc, cycle, arrived, passed, met>>

initial_ == Cardinality(Threads)

Init ==
  /\ current_ = initial_ /\ cycle_ = TRUE
  /\ pc = [t \in Threads |-> "out"]
  /\ cycle = [t \in Threads |-> TRUE]
  /\ arrived = [t \in Threads |-> 0]
  /\ passed = [t \in Threads |-> 0]
  /\ met = 0

Enter(t) ==
  /\ pc[t] = "out" /\ arrived[t] < Rounds
  /\ arrived' = [arrived EXCEPT ![t] = @ + 1]
  /\ cycle' = [cycle EXCEPT ![t] = cycle_]
  /\ UNCHANGED passed

(* wait, of the last thread of the cycle, up to lk.unlock() *)
ArriveLast(t) ==
  /\ Enter(t) /\ current_ = 1
  /\ cycle_' = ~cycle_ /\ met' = met + 1
  /\ current_' = initial_
  /\ pc' = [pc EXCEPT ![t] = "notify"]

(* wait, of a thread before the last, up to the release of mtx_ by cond_.wait *)
ArriveEarly(t) ==
  /\ Enter(t) /\ current_ # 1
  /\ current_' = current_ - 1
  /\ pc' = [pc EXCEPT ![t] = "waiting"]
  /\ UNCHANGED <<cycle_, met>>

Return(t, p) ==
  /\ pc' = [p EXCEPT ![t] = "out"]
  /\ passed' = [passed EXCEPT ![t] = @ + 1]

(* Mutant of NotifyAll: only one waiting thread is notified. *)
NotifyOne(t) ==
  /\ pc[t] = "notify"
  /\ IF \E u \in Threads : pc[u] = "waiting"
     THEN \E u \in Threads : /\ pc[u] = "waiting"
                             /\ Return(t, [pc EXCEPT ![u] = "awake"])
     ELSE Return(t, pc)
  /\ UNCHANGED <<current_, cycle_, cycle, arrived, met>>

(* cond_.notify_all() and the return of the last thread *)
NotifyAll(t) ==
  /\ pc[t] = "notify"
  /\ Return(t, [u \in Threads |-> IF pc[u] = "waiting" THEN "awake" ELSE pc[u]])
  /\ UNCHANGED <<current_, cycle_, cycle, arrived, met>>

(* A spurious wake-up *)
Spurious(t) ==
  /\ pc[t] = "waiting"
  /\ pc' = [pc EXCEPT ![t] = "awake"]
  /\ UNCHANGED <<current_, cycle_, cycle, arrived, passed, met>>

(* Mutant of Recheck: a wake-up is taken for the end of the cycle. *)
RecheckNothing(t) ==
  /\ pc[t] = "awake"
  /\ Return(t, pc)
  /\ UNCHANGED <<current_, cycle_, cycle, arrived, met>>

(* The predicate of cond_.wait, with mtx_ held again *)
Recheck(t) ==
  /\ pc[t] = "awake"
  /\ IF cycle[t] # cycle_
     THEN Return(t, pc)
     ELSE pc' = [pc EXCEPT ![t] = "waiting"] /\ UNCHANGED passed
  /\ UNCHANGED <<current_, cycle_, cycle, arrived, met>>

Next == \E t \in Threads :
  ArriveLast(t) \/ ArriveEarly(t) \/ NotifyAll(t) \/ Spurious(t) \/ Recheck(t)

Spec == Init /\ [][Next]_vars

(* A thread that can run does; nothing makes the spurious wake-ups happen. *)
Fairness == \A t \in Threads :
  /\ WF_vars(ArriveLast(t) \/ ArriveEarly(t))
  /\ WF_vars(NotifyAll(t))
  /\ WF_vars(Recheck(t))

FairSpec == Spec /\ Fairness
-----------------------------------------------------------------------------
(* The members keep their types: the counter of thread_barrier is never zero *)
(* outside the mutex, however the cycles overlap.                            *)
TypeOK ==
  /\ current_ \in 1 .. initial_ /\ cycle_ \in BOOLEAN
  /\ pc \in [Threads -> {"out", "notify", "waiting", "awake"}]
  /\ cycle \in [Threads -> BOOLEAN]
  /\ arrived \in [Threads -> Nat] /\ passed \in [Threads -> Nat]
  /\ met \in Nat

(* No thread returns from its k-th wait before every thread has called wait  *)
(* k times, although thread_barrier tells cycles apart by one bit only.      *)
Together == \A t, u \in Threads : passed[t] <= arrived[u]

(* thread_barrier::wait returns to every thread every time: no notification  *)
(* is lost between the unlock and notify_all, none is taken by the threads   *)
(* of the next cycle from those of the last one.                             *)
AllReturn == <>[](\A t \in Threads : passed[t] = Rounds)
=============================================================================
