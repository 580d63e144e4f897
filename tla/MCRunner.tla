------------------------------ MODULE MCRunner ------------------------------
(***************************************************************************)
(* The Runner and its launch: a behaviour is one of the Runner or one of   *)
(* Launch, as "live" says; the other keeps its initial state, in which the *)
(* fairness of the Runner asks for nothing.                                *)
(***************************************************************************)
EXTENDS Runner, TLC

CONSTANTS Requests, Callers

(* LaunchOptions: pe_count and engines_per_pe are unsigned. *)
ASSUME RequestsAssumption ==
  \A q \in Requests : q.pe_count \in Nat /\ q.engines_per_pe \in Nat

Groups == ("default" :> "Fiber") @@ ("thread_pool" :> "Thread")

Request(name, pes, per, kind, wrapped) ==
  [name |-> name, pe_count |-> pes, engines_per_pe |-> per, kind |-> kind,
   wrapped |-> wrapped]

(* Fibers that share threads, threads, one instance alone, and requests that *)
(* LaunchControl refuses.                                                    *)
Launches ==
  { Request("default", 2, 2, "plain", TRUE), Request("default", 1, 1, "plain", FALSE),
    Request("default", 1, 3, "fiber", FALSE), Request("thread_pool", 3, 1, "plain", FALSE),
    Request("thread_pool", 2, 1, "fiber", FALSE), Request("other", 1, 1, "plain", FALSE),
    Request("default", 1, 0, "plain", FALSE), Request("thread_pool", 1, 0, "plain", FALSE) }

(* A FiberRunnable with a wrapped context. *)
WrappedLaunches == { Request("default", 1, 2, "fiber", TRUE) }

Programs == { <<"lock", "get", "unlock", "barrier", "get">>,
              <<"barrier", "lock", "unlock", "barrier">>, <<>> }

VARIABLES
  live,
  request, program, m_runner, released, context, engine, next, instance, at,
  fiber_local, locked, arrived, passed, found, failed, outcome

L == INSTANCE Launch WITH joined <- released, pc <- instance

launchVars == <<request, program, m_runner, released, context, engine, next, instance,
                at, fiber_local, locked, arrived, passed, found, failed, outcome>>

RunnerInit ==
  /\ live \in {"runner", "launch"}
  /\ live = "runner" => program = <<>> /\ request = CHOOSE q \in Requests : TRUE
  /\ live = "launch" => m_completion_callback = FALSE
  /\ Init /\ L!Init

RunnerNext ==
  \/ live = "runner" /\ Next /\ UNCHANGED <<live, launchVars>>
  \/ live = "launch" /\ L!Next /\ UNCHANGED <<live, vars>>

RunnerSpec == RunnerInit /\ [][RunnerNext]_<<live, vars, launchVars>> /\ Fairness
-----------------------------------------------------------------------------
(* The instances of one Runnable see their own Context, hold its lock one at *)
(* a time, meet at its barrier, and their threads end before their engines.  *)
InstancesSynchronised == L!InstancesSynchronised

(* launcher.cpp:41: an unused Launcher is worth a warning, not a crash. *)
UnusedIsHarmless == L!UnusedIsHarmless

(* launch_control.hpp:108-114: a FiberRunnable takes the context made for it.  *)
ContextAccepted == L!ContextAccepted
=============================================================================
