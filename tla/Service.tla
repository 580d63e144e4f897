------------------------------- MODULE Service -------------------------------
(***************************************************************************)
(* internal::Service, the life-cycle base class of pipelines, segments,    *)
(* port services and managers.  Clients are the threads that hold the      *)
(* service and call its public functions one at a time; Workers are the    *)
(* tasks the service itself has started, whose completion callback may     *)
(* call service_kill (segment::Instance does) and which do_service_await_  *)
(* join waits for.  What is between a lock and an unlock of m_mutex is one *)
(* action; a do_service_* call outside the mutex is a step of its own.     *)
(***************************************************************************)
EXTENDS Integers, FiniteSets

CONSTANTS Clients, Workers,
          Owner             \* the client that destroys the service

VARIABLES
  m_state,    \* Service::m_state
  pc,         \* the call every client or worker is in
  seen,       \* call_in_destructor's copy of the state
  working,    \* workers that run
  begun,      \* history: number of calls of do_service_start
  stopped,    \* history: do_service_stop was executed
  killed,     \* history: do_service_kill was executed
  joined,     \* history: do_service_await_join has returned
  fatal       \* why the process aborted, if it did

history == <<begun, stopped, killed, joined>>
vars == <<m_state, pc, seen, working, history, fatal>>

Callers == Clients \cup Workers

(* ServiceState, in the order of the enumeration. *)
Initialized == 0
Running     == 1
Awaiting    == 2
Stopping    == 3
Killing     == 4
Completed   == 5

(* Caller c is at one of the labels L of a process that has not aborted. *)
At(c, L)   == fatal = "no" /\ pc[c] \in L
GoTo(c, l) == pc' = [pc EXCEPT ![c] = l]

InDestructor == pc[Owner] \in {"seen", "dkill", "djoin", "djoined", "dcomplete",
                               "dcheck", "dead"}

(* A public function may be called until the owner is in the destructor;     *)
(* afterwards only by a worker that still runs.                              *)
MayCall(c) ==
  /\ At(c, {"idle"})
  /\ c \in Workers => c \in working
  /\ c \in Clients => ~InDestructor

Abort(condition, reason) == fatal' = IF condition THEN reason ELSE fatal

Init ==
  /\ m_state = Initialized
  /\ pc = [c \in Callers |-> "idle"]
  /\ seen = Initialized
  /\ working = {}
  /\ begun = 0 /\ stopped = FALSE /\ killed = FALSE /\ joined = FALSE
  /\ fatal = "no"
-----------------------------------------------------------------------------
(* Service::forward_state: the CHECK, then the assignment. *)
ForwardState(new) ==
  /\ Abort(m_state > new, "advance")
  /\ m_state' = IF m_state < new THEN new ELSE m_state

(* Service::service_start *)
ServiceStart(c) ==
  /\ c \in Clients /\ MayCall(c)
  /\ ForwardState(Running)
  /\ GoTo(c, IF m_state < Running THEN "start" ELSE "idle")
  /\ UNCHANGED <<seen, working, history>>

(* Service::do_service_start, which launches the workers. *)
DoServiceStart(c) ==
  /\ At(c, {"start"})
  /\ working' = Workers
  /\ begun' = begun + 1
  /\ GoTo(c, "idle")
  /\ UNCHANGED <<m_state, seen, stopped, killed, joined, fatal>>

(* Service::service_stop: stops once, unless already stopping or killing. *)
ServiceStop(c) ==
  /\ c \in Clients /\ MayCall(c)
  /\ IF m_state < Stopping
     THEN m_state' = Stopping /\ GoTo(c, "stop")
     ELSE UNCHANGED <<m_state, pc>>
  /\ UNCHANGED <<seen, working, history, fatal>>

DoServiceStop(c) ==
  /\ At(c, {"stop"})
  /\ stopped' = TRUE
  /\ GoTo(c, "idle")
  /\ UNCHANGED <<m_state, seen, working, begun, killed, joined, fatal>>

(* Mutant of KillLocked: a service that is already stopping is not killed. *)
KillLockedUnlessStopping(c, execute, skip) ==
  /\ m_state' = IF m_state < Killing THEN Killing ELSE m_state
  /\ GoTo(c, IF m_state < Stopping THEN execute ELSE skip)

(* Service::service_kill, the part under m_mutex. *)
KillLocked(c, execute, skip) ==
  /\ m_state' = IF m_state < Killing THEN Killing ELSE m_state
  /\ GoTo(c, IF m_state < Killing THEN execute ELSE skip)

ServiceKill(c) ==
  /\ MayCall(c)
  /\ KillLocked(c, "kill", "idle")
  /\ UNCHANGED <<seen, working, history, fatal>>

DoServiceKill(c) ==
  /\ At(c, {"kill", "dkill"})
  /\ killed' = TRUE
  /\ GoTo(c, IF pc[c] = "kill" THEN "idle" ELSE "djoin")
  /\ UNCHANGED <<m_state, seen, working, begun, stopped, joined, fatal>>

(* Mutants of JoinLocked: a Completed service awaits again, or Completed is  *)
(* entered before anything is joined.                                        *)
JoinLockedAgain(c, execute, skip) ==
  /\ m_state' = Awaiting
  /\ GoTo(c, execute)


JoinLockedCompletes(c, execute, skip) ==
  /\ m_state' = Completed
  /\ GoTo(c, IF m_state < Completed THEN execute ELSE skip)

(* Service::service_await_join, the part under m_mutex: any state short of  *)
(* Completed becomes Awaiting, Stopping and Killing included.               *)
JoinLocked(c, execute, skip) ==
  /\ m_state' = IF m_state < Completed THEN Awaiting ELSE m_state
  /\ GoTo(c, IF m_state < Completed THEN execute ELSE skip)

(* Nobody joins a service whose service_start has not returned: the callers  *)
(* (Manager, pipeline::Instance, Executor) start and join in program order.  *)
ServiceAwaitJoin(c) ==
  /\ c \in Clients /\ MayCall(c)
  /\ \A d \in Clients : pc[d] # "start"
  /\ JoinLocked(c, "join", "idle")
  /\ UNCHANGED <<seen, working, history, fatal>>

(* do_service_await_join returns once every worker has finished ... *)
DoServiceAwaitJoin(c) ==
  /\ At(c, {"join", "djoined"})
  /\ working = {}
  /\ joined' = TRUE
  /\ GoTo(c, IF pc[c] = "join" THEN "complete" ELSE "dcomplete")
  /\ UNCHANGED <<m_state, seen, working, begun, stopped, killed, fatal>>

(* ... or rethrows the exception of one of them; Completed is not reached,  *)
(* and in the destructor the process terminates.                            *)
JoinThrows(c) ==
  /\ At(c, {"join", "djoined"})
  /\ working = {} /\ begun > 0
  /\ Abort(pc[c] = "djoined", "terminate")
  /\ GoTo(c, "idle")
  /\ UNCHANGED <<m_state, seen, working, history>>

(* Mutant of ServiceComplete: the state is left as it is. *)
ServiceCompleteForgotten(c) ==
  /\ At(c, {"complete", "dcomplete"})
  /\ GoTo(c, IF pc[c] = "complete" THEN "idle" ELSE "dcheck")
  /\ UNCHANGED <<m_state, seen, working, history, fatal>>

(* forward_state(Completed) at the end of service_await_join. *)
ServiceComplete(c) ==
  /\ At(c, {"complete", "dcomplete"})
  /\ ForwardState(Completed)
  /\ GoTo(c, IF pc[c] = "complete" THEN "idle" ELSE "dcheck")
  /\ UNCHANGED <<seen, working, history>>

(* A worker ends: by itself, or because the service was stopped or killed. *)
WorkerEnds(w) ==
  /\ w \in working
  /\ At(w, {"idle"})
  /\ working' = working \ {w}
  /\ UNCHANGED <<m_state, pc, seen, history, fatal>>
-----------------------------------------------------------------------------
(* call_in_destructor reads the state once; the other clients are done. *)
Destruct ==
  /\ MayCall(Owner)
  /\ \A c \in Clients : pc[c] = "idle"
  /\ seen' = m_state
  /\ GoTo(Owner, "seen")
  /\ UNCHANGED <<m_state, working, history, fatal>>

(* ... issues the kill of a service it saw Running ... *)
DestructKill ==
  /\ At(Owner, {"seen"})
  /\ IF seen = Running
     THEN KillLocked(Owner, "dkill", "djoin")
     ELSE GoTo(Owner, "djoin") /\ UNCHANGED m_state
  /\ UNCHANGED <<seen, working, history, fatal>>

(* ... and the join of a service it saw neither Initialized nor Completed. *)
DestructJoin ==
  /\ At(Owner, {"djoin"})
  /\ IF seen \notin {Initialized, Completed}
     THEN JoinLocked(Owner, "djoined", "dcheck")
     ELSE GoTo(Owner, "dcheck") /\ UNCHANGED m_state
  /\ UNCHANGED <<seen, working, history, fatal>>

(* Service::~Service *)
DestructCheck ==
  /\ At(Owner, {"dcheck"})
  /\ Abort(m_state \notin {Initialized, Completed}, "destructor")
  /\ GoTo(Owner, "dead")
  /\ UNCHANGED <<m_state, seen, working, history>>

Step(c) ==
  \/ DoServiceStart(c) \/ DoServiceStop(c) \/ DoServiceKill(c)
  \/ DoServiceAwaitJoin(c) \/ JoinThrows(c) \/ ServiceComplete(c)

Destructor == Destruct \/ DestructKill \/ DestructJoin \/ DestructCheck

Next ==
  \/ \E c \in Callers :
       \/ ServiceStart(c) \/ ServiceStop(c) \/ ServiceKill(c) \/ ServiceAwaitJoin(c)
       \/ Step(c)
  \/ \E w \in Workers : WorkerEnds(w)
  \/ Destructor

Spec == Init /\ [][Next]_vars

(* Threads that are inside a call go on; a call to the service and the end   *)
(* of a worker are up to the environment.                                    *)
Fairness == \A c \in Callers : WF_vars(Step(c))

FairSpec == Spec /\ Fairness
-----------------------------------------------------------------------------
PCs == {"idle", "start", "stop", "kill", "join", "complete", "seen", "dkill",
        "djoin", "djoined", "dcomplete", "dcheck", "dead"}

(* Types, and do_service_start runs at most once however many clients call   *)
(* service_start at the same time.                                           *)
TypeOK ==
  /\ m_state \in Initialized .. Completed
  /\ pc \in [Callers -> PCs]
  /\ seen \in Initialized .. Completed
  /\ working \in SUBSET Workers
  /\ begun \in 0 .. 1
  /\ stopped \in BOOLEAN /\ killed \in BOOLEAN /\ joined \in BOOLEAN
  /\ fatal \in {"no", "advance", "terminate", "destructor"}

(* Completed tells every caller that do_service_await_join has returned and  *)
(* that nothing the service started still runs, with any number of joiners.  *)
CompletedMeansJoined == m_state = Completed => joined /\ working = {}

(* ~Service never finds a service that is neither Initialized nor Completed  *)
(* (service.cpp:29), although call_in_destructor decides by a copy of the    *)
(* state that a worker's service_kill may have made stale; and no worker     *)
(* outlives the service it calls back into.                                  *)
DestructorCheck ==
  fatal # "destructor" /\ (pc[Owner] = "dead" => working = {})

(* A service in state Killing has been killed or is being killed by someone: *)
(* a service_kill that returns at once relies on another caller's.           *)
KillDelivered ==
  m_state = Killing => killed \/ \E c \in Callers : pc[c] \in {"kill", "dkill"}

(* What a Service promises its callers at every moment: the three above. *)
ServiceSound == CompletedMeansJoined /\ DestructorCheck /\ KillDelivered

(* Completed is final, whatever calls were in flight when it was entered. *)
CompletedIsFinal == [][m_state = Completed => m_state' = Completed]_vars

(* service.cpp:106: "ServiceState is only allowed to advance". *)
OnlyAdvances == [][m_state <= m_state']_vars
=============================================================================
