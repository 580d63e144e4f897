------------------------------ MODULE TaskPool ------------------------------
(***************************************************************************)
(* What a pool of workers promises to the code that enqueues tasks: a task *)
(* is either accepted, and then run once, or refused with an exception,    *)
(* which happens only after shutdown; the destructor returns when every    *)
(* accepted task has run.                                                  *)
(***************************************************************************)
CONSTANT Tasks

VARIABLES task,     \* what has become of every task
          closed,   \* shutdown was requested
          joined    \* the destructor has returned

vars == <<task, closed, joined>>

Init ==
  /\ task = [t \in Tasks |-> "new"]
  /\ closed = FALSE
  /\ joined = FALSE

Become(t, from, to) ==
  /\ task[t] = from
  /\ task' = [task EXCEPT ![t] = to]

Accept(t) == ~closed /\ Become(t, "new", "accepted") /\ UNCHANGED <<closed, joined>>

Refuse(t) == closed /\ Become(t, "new", "refused") /\ UNCHANGED <<closed, joined>>

Execute(t) == Become(t, "accepted", "executed") /\ UNCHANGED <<closed, joined>>

Shutdown == closed' = TRUE /\ UNCHANGED <<task, joined>>

Join ==
  /\ closed
  /\ \A t \in Tasks : task[t] # "accepted"
  /\ joined' = TRUE
  /\ UNCHANGED <<task, closed>>

Next ==
  \/ \E t \in Tasks : Accept(t) \/ Refuse(t) \/ Execute(t)
  \/ Shutdown \/ Join

(* Accepted tasks are executed. *)
Spec ==
  /\ Init /\ [][Next]_vars
  /\ \A t \in Tasks : WF_vars(Execute(t))
=============================================================================
