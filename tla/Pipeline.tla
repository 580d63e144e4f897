------------------------------ MODULE Pipeline ------------------------------
(***************************************************************************)
(* The pipeline's control: an Executor registers a pipeline with a         *)
(* Manager, which sends Update, Stop and Kill messages over its update     *)
(* channel to the Controller, a sink that runs on the main fiber queue and *)
(* owns the pipeline::Instance and its segments.  One client thread pushes *)
(* updates and joins; another one may stop and kill.  Segments and their   *)
(* nodes are seen through their Service only: see modules Service and      *)
(* Segment for what is behind it.                                          *)
(***************************************************************************)
EXTENDS Integers, Sequences, FiniteSets

CONSTANTS Addresses,   \* segment addresses
          Updates,     \* the assignments pushed, in order: sets of addresses
          Concurrent,  \* may stop and kill be called while a join is going on?
          MayThrow     \* may a segment's initializer throw?

VARIABLES
  m_state,            \* ServiceState of the Manager (and of the Executor in front of it)
  i_state,            \* ServiceState of the pipeline::Instance
  m_update_channel,   \* messages in the channel
  channel,            \* "open", or "reset" once the Manager has dropped it
  m_segments,         \* ServiceState of every segment in the map
  m_current_segments, \* the assignment the Controller believes in
  controller,         \* what the Controller is doing: its step, the new assignment, work left
  m_joinable,         \* m_joinable_promise has been set
  alive,              \* segments that have been started and still run
  told,               \* segments whose nodes have been stopped or killed
  failed,             \* segments that ended with an exception
  pushed,             \* number of updates pushed
  caller,             \* where the stopping client is
  joiner,             \* where the joining client is: <<step, segments to join, the one it waits for>>
  threw,              \* the join has caught an exception
  asked,              \* history: a stop or a kill has been called
  fatal               \* why the process aborted, or "no"

segVars  == <<m_segments, alive, told, failed>>
ctlVars  == <<controller, m_current_segments, m_joinable>>
userVars == <<pushed, caller, joiner, threw, asked>>
chanVars == <<m_update_channel, channel>>
vars == <<m_state, i_state, chanVars, segVars, ctlVars, userVars, fatal>>

Initialized == 0
Running     == 1
Awaiting    == 2
Stopping    == 3
Killing     == 4
Completed   == 5

Messages == [type : {"Update"}, addresses : SUBSET Addresses]
              \cup [type : {"Stop", "Kill"}, addresses : {{}}]
Existing == DOMAIN m_segments
Do(step, addresses, left) == [step |-> step, addresses |-> addresses, left |-> left]
Idle == Do("idle", {}, {})

Init ==
  /\ m_state = Running        \* the Manager's constructor calls service_start
  /\ i_state = Running        \* and so does the Controller's
  /\ m_update_channel = <<>> /\ channel = "open"
  /\ m_segments = [a \in {} |-> Initialized]
  /\ m_current_segments = {}
  /\ controller = Idle
  /\ m_joinable = FALSE
  /\ alive = {} /\ told = {} /\ failed = {}
  /\ pushed = 0 /\ caller = "idle" /\ joiner = <<"idle", {}, {}>> /\ threw = FALSE /\ asked = FALSE
  /\ fatal = "no"

Up == fatal = "no"
-----------------------------------------------------------------------------
(* Manager::push_updates, which the Executor calls in register_pipeline. *)
PushUpdates ==
  /\ Up /\ pushed < Len(Updates) /\ joiner[1] = "idle"
  /\ pushed' = pushed + 1
  /\ m_update_channel' = Append(m_update_channel,
                                [type |-> "Update", addresses |-> Updates[pushed']])
  /\ UNCHANGED <<m_state, i_state, channel, segVars, ctlVars, caller, joiner, threw, asked, fatal>>

(* Service::service_stop and service_kill of the Manager. *)
ServiceCall(state, send) ==
  /\ Up /\ caller = "idle" /\ pushed = Len(Updates)
  /\ Concurrent \/ joiner[1] = "idle"
  /\ m_state < state
  /\ m_state' = state /\ caller' = send /\ asked' = TRUE
  /\ UNCHANGED <<i_state, chanVars, segVars, ctlVars, pushed, joiner, threw, fatal>>

ServiceStop == ServiceCall(Stopping, "Stop")
ServiceKill == ServiceCall(Killing, "Kill")

(* Manager::do_service_stop and do_service_kill dereference m_update_channel,*)
(* which a join that overlaps has reset.                                     *)
Send ==
  /\ Up /\ caller \in {"Stop", "Kill"}
  /\ caller' = "idle"
  /\ IF channel = "reset"
     THEN fatal' = "null channel" /\ UNCHANGED m_update_channel
     ELSE /\ m_update_channel' = Append(m_update_channel,
                                        [type |-> caller, addresses |-> {}])
          /\ UNCHANGED fatal
  /\ UNCHANGED <<m_state, i_state, channel, segVars, ctlVars, pushed, joiner, threw, asked>>
-----------------------------------------------------------------------------
(* Controller::on_data takes the next message, unless the Controller has     *)
(* been killed by an exception.  For an Update it computes the segments to   *)
(* create ...                                                                *)
OnData ==
  /\ Up /\ controller = Idle /\ m_update_channel # <<>>
  /\ LET m == Head(m_update_channel) IN
     controller' = CASE m.type = "Update" -> Do("create", m.addresses,
                                                 m.addresses \ m_current_segments)
                     [] m.type = "Stop"   -> Do("stop", {}, {})
                     [] m.type = "Kill"   -> Do("kill", {}, {})
  /\ m_update_channel' = Tail(m_update_channel)
  /\ UNCHANGED <<m_state, i_state, channel, segVars, m_current_segments, m_joinable, userVars,
                 fatal>>

(* ... create_segment constructs them one by one on the main task queue ...  *)
CreateSegment(a) ==
  /\ Up /\ controller.step = "create" /\ a \in controller.left
  /\ controller' = [controller EXCEPT !.left = @ \ {a}]
  /\ IF a \in Existing THEN fatal' = "exists" /\ UNCHANGED m_segments
     ELSE /\ m_segments' = [b \in Existing \cup {a} |->
                              IF b = a THEN Initialized ELSE m_segments[b]]
          /\ UNCHANGED fatal
  /\ UNCHANGED <<m_state, i_state, chanVars, alive, told, failed, m_current_segments,
                 m_joinable, userVars>>

(* ... an initializer that throws kills the Controller's own runnable ...    *)
CreateThrows(a) ==
  /\ Up /\ MayThrow
  /\ controller.step = "create" /\ a \in controller.left \ Existing
  /\ controller' = Do("ended", {}, {})
  /\ UNCHANGED <<m_state, i_state, chanVars, segVars, m_current_segments, m_joinable, userVars,
                 fatal>>

(* stop_segment: Service::service_stop of the segments S. *)
Stopped(S) == [a \in Existing |-> IF a \in S /\ m_segments[a] < Stopping
                                  THEN Stopping ELSE m_segments[a]]

(* Mutant of StopRemoved: the pipeline is joinable before it has started. *)
StopRemovedJoinable ==
  /\ Up /\ controller.step = "create" /\ controller.left = {}
  /\ LET removed == m_current_segments \ controller.addresses IN
     /\ m_segments' = Stopped(removed)
     /\ told' = told \cup removed
  /\ controller' = Do("update", controller.addresses, Existing)
  /\ m_joinable' = TRUE
  /\ UNCHANGED <<m_state, i_state, chanVars, alive, failed, m_current_segments, userVars, fatal>>

(* ... then stops the segments that are no longer assigned ... *)
StopRemoved ==
  /\ Up /\ controller.step = "create" /\ controller.left = {}
  /\ LET removed == m_current_segments \ controller.addresses IN
     /\ m_segments' = Stopped(removed)
     /\ told' = told \cup removed
  /\ controller' = Do("update", controller.addresses, Existing)
  /\ UNCHANGED <<m_state, i_state, chanVars, alive, failed, m_current_segments, m_joinable,
                 userVars, fatal>>

(* ... and Instance::update starts every segment of the map: forward_state   *)
(* aborts if the segment is past Running.                                    *)
StartSegment(a) ==
  /\ Up /\ controller.step = "update" /\ a \in controller.left
  /\ controller' = [controller EXCEPT !.left = @ \ {a}]
  /\ fatal' = IF m_segments[a] > Running THEN "advance" ELSE fatal
  /\ IF m_segments[a] = Initialized
     THEN m_segments' = [m_segments EXCEPT ![a] = Running] /\ alive' = alive \cup {a}
     ELSE UNCHANGED <<m_segments, alive>>
  /\ UNCHANGED <<m_state, i_state, chanVars, told, failed, m_current_segments, m_joinable,
                 userVars>>

(* All started: mark_joinable, and m_current_segments is replaced. *)
UpdateDone ==
  /\ Up /\ controller.step = "update" /\ controller.left = {}
  /\ m_joinable' = TRUE
  /\ m_current_segments' = controller.addresses
  /\ controller' = Idle
  /\ UNCHANGED <<m_state, i_state, chanVars, segVars, userVars, fatal>>

(* Mutant of ControllerStop: a pipeline that is being joined is not stopped. *)
ControllerStopUnlessJoined ==
  /\ Up /\ controller.step = "stop"
  /\ controller' = Idle
  /\ IF i_state = Running
     THEN /\ i_state' = Stopping /\ m_joinable' = TRUE
          /\ m_segments' = Stopped(Existing)
          /\ told' = told \cup Existing
     ELSE UNCHANGED <<i_state, m_joinable, m_segments, told>>
  /\ UNCHANGED <<m_state, chanVars, alive, failed, m_current_segments, userVars, fatal>>

(* Controller::stop, Instance::do_service_stop *)
ControllerStop ==
  /\ Up /\ controller.step = "stop"
  /\ controller' = Idle
  /\ IF i_state < Stopping
     THEN /\ i_state' = Stopping /\ m_joinable' = TRUE
          /\ m_segments' = Stopped(Existing)
          /\ told' = told \cup Existing
     ELSE UNCHANGED <<i_state, m_joinable, m_segments, told>>
  /\ UNCHANGED <<m_state, chanVars, alive, failed, m_current_segments, userVars, fatal>>

(* Controller::kill, Instance::do_service_kill: every segment is stopped and *)
(* killed.                                                                   *)
ControllerKill ==
  /\ Up /\ controller.step = "kill"
  /\ controller' = Idle
  /\ IF i_state < Killing
     THEN /\ i_state' = Killing /\ m_joinable' = TRUE
          /\ m_segments' = [a \in Existing |->
                              IF m_segments[a] < Killing THEN Killing ELSE m_segments[a]]
          /\ told' = told \cup Existing
     ELSE UNCHANGED <<i_state, m_joinable, m_segments, told>>
  /\ UNCHANGED <<m_state, chanVars, alive, failed, m_current_segments, userVars, fatal>>

(* The Controller's read loop ends when its channel is closed and drained. *)
ControllerEnds ==
  /\ Up /\ controller = Idle /\ channel = "reset" /\ m_update_channel = <<>>
  /\ controller' = Do("ended", {}, {})
  /\ UNCHANGED <<m_state, i_state, chanVars, segVars, m_current_segments, m_joinable, userVars,
                 fatal>>
-----------------------------------------------------------------------------
(* A segment ends: by itself, because it was told to, or by a failure, whose *)
(* completion callback calls service_kill.                                   *)
SegmentEnds(a) ==
  /\ Up /\ a \in alive
  /\ alive' = alive \ {a}
  /\ UNCHANGED <<m_state, i_state, chanVars, m_segments, told, failed, ctlVars, userVars, fatal>>

SegmentFails(a) ==
  /\ Up /\ a \in alive
  /\ alive' = alive \ {a}
  /\ failed' = failed \cup {a}
  /\ m_segments' = [m_segments EXCEPT ![a] = IF @ < Killing THEN Killing ELSE @]
  /\ UNCHANGED <<m_state, i_state, chanVars, told, ctlVars, userVars, fatal>>
-----------------------------------------------------------------------------
(* Manager::service_await_join: m_state and i_state go to Awaiting ... *)
ServiceAwaitJoin ==
  /\ Up /\ joiner[1] = "idle" /\ pushed = Len(Updates) /\ (Concurrent \/ caller = "idle")
  /\ m_state < Completed
  /\ m_state' = Awaiting /\ i_state' = Awaiting
  /\ joiner' = <<"wait", {}, {}>>
  /\ UNCHANGED <<chanVars, segVars, ctlVars, pushed, caller, threw, asked, fatal>>

(* Mutant of JoinInstance: the update channel is reset before the segments   *)
(* are joined.                                                               *)
JoinInstanceResets ==
  /\ Up /\ joiner[1] = "wait" /\ m_joinable
  /\ joiner' = <<"segments", Existing, {}>>
  /\ channel' = "reset"
  /\ UNCHANGED <<m_state, i_state, m_update_channel, segVars, ctlVars, pushed, caller, threw,
                 asked, fatal>>

(* ... the joinable future ... *)
JoinInstance ==
  /\ Up /\ joiner[1] = "wait" /\ m_joinable
  /\ joiner' = <<"segments", Existing, {}>>
  /\ UNCHANGED <<m_state, i_state, chanVars, segVars, ctlVars, pushed, caller, threw, asked, fatal>>

(* ... service_await_join of the next segment: its state goes to Awaiting ... *)
AwaitSegment(a) ==
  /\ Up /\ joiner[1] = "segments" /\ a \in joiner[2]
  /\ joiner' = <<"segment", joiner[2] \ {a}, {a}>>
  /\ m_segments' = [m_segments EXCEPT ![a] = Awaiting]
  /\ UNCHANGED <<m_state, i_state, chanVars, alive, told, failed, ctlVars, pushed, caller, threw,
                 asked, fatal>>

(* Mutant of JoinSegment: the exception ends the loop over the segments. *)
JoinSegmentLeaves(a) ==
  /\ Up /\ joiner[3] = {a} /\ a \notin alive
  /\ joiner' = <<"segments", IF a \in failed THEN {} ELSE joiner[2], {}>>
  /\ threw' = (threw \/ a \in failed)
  /\ m_segments' = IF a \in failed THEN m_segments ELSE [m_segments EXCEPT ![a] = Completed]
  /\ UNCHANGED <<m_state, i_state, chanVars, alive, told, failed, ctlVars, pushed, caller, asked,
                 fatal>>

(* ... and to Completed once its runners have ended; the first exception is  *)
(* kept and the loop goes on.  A segment whose join rethrows does not reach  *)
(* forward_state.                                                            *)
JoinSegment(a) ==
  /\ Up /\ joiner[3] = {a} /\ a \notin alive
  /\ joiner' = <<"segments", joiner[2], {}>>
  /\ threw' = (threw \/ a \in failed)
  /\ m_segments' = IF a \in failed THEN m_segments ELSE [m_segments EXCEPT ![a] = Completed]
  /\ UNCHANGED <<m_state, i_state, chanVars, alive, told, failed, ctlVars, pushed, caller, asked,
                 fatal>>

(* All joined: i_state is Completed unless an exception is rethrown, and the *)
(* Manager resets m_update_channel, which closes it ...                      *)
ResetChannel ==
  /\ Up /\ joiner = <<"segments", {}, {}>>
  /\ i_state' = IF threw THEN i_state ELSE Completed
  /\ channel' = "reset"
  /\ joiner' = <<"controller", {}, {}>>
  /\ UNCHANGED <<m_state, m_update_channel, segVars, ctlVars, pushed, caller, threw, asked, fatal>>

(* ... and waits for the Controller. *)
JoinController ==
  /\ Up /\ joiner[1] = "controller" /\ controller.step = "ended"
  /\ m_state' = IF threw THEN m_state ELSE Completed
  /\ joiner' = <<"done", {}, {}>>
  /\ UNCHANGED <<i_state, chanVars, segVars, ctlVars, pushed, caller, threw, asked, fatal>>

Control ==
  \/ Send \/ OnData \/ StopRemoved \/ UpdateDone \/ ControllerStop \/ ControllerKill
  \/ ControllerEnds
  \/ \E a \in Addresses : CreateSegment(a) \/ StartSegment(a)

Join ==
  \/ JoinInstance \/ ResetChannel \/ JoinController
  \/ \E a \in Addresses : AwaitSegment(a) \/ JoinSegment(a)

Next ==
  \/ PushUpdates \/ ServiceStop \/ ServiceKill \/ ServiceAwaitJoin
  \/ Control \/ Join
  \/ \E a \in Addresses : CreateThrows(a) \/ SegmentEnds(a) \/ SegmentFails(a)

Spec == Init /\ [][Next]_vars

(* Threads are scheduled; a segment that has been told to stop ends. *)
ToldSegmentEnds(a) == a \in told /\ SegmentEnds(a)
FairSpec ==
  /\ Spec /\ WF_vars(Control) /\ WF_vars(Join)
  /\ \A a \in Addresses : WF_vars(ToldSegmentEnds(a))
-----------------------------------------------------------------------------
(* When the join of the Manager has returned, the Controller and every       *)
(* segment have ended, so that the caller may destroy all of them; and it    *)
(* threw exactly if a segment failed, also if that was not the last one.     *)
JoinedMeansEnded ==
  joiner[1] = "done" => /\ alive = {} /\ controller.step = "ended"
                        /\ threw <=> failed # {}

(* None of the CHECKs fails and no reset channel is written to. *)
ChecksHold == fatal = "no"

(* What does hold when stop, kill and join overlap: no CHECK fails, and the  *)
(* reset channel is only met (manager.cpp:101, 107) when every segment has   *)
(* been joined, so that the abort cuts no segment short.                     *)
AbortsLate == fatal # "no" => fatal = "null channel" /\ alive = {} /\ joiner[3] = {}

(* The segments have ended by themselves and nothing is left to do. *)
EndedNaturally ==
  /\ controller = Idle /\ m_update_channel = <<>>
  /\ m_current_segments # {} /\ alive = {}

(* A join returns once a stop or a kill has been called, before or (with     *)
(* Concurrent) during the join and whatever is queued ahead of its message,  *)
(* and also when the segments end by themselves.  There are two exceptions:  *)
(* a segment's initializer threw, which ends the Controller before it marks  *)
(* the pipeline joinable; or the stop or kill met the channel that the join  *)
(* had already reset, which aborts the process.                              *)
JoinReturns ==
  (joiner[1] # "idle" /\ (asked \/ EndedNaturally))
    ~> (joiner[1] = "done" \/ (controller.step = "ended" /\ ~m_joinable) \/ fatal # "no")

(* The same without the first of them. *)
JoinAlwaysReturns ==
  (asked /\ joiner[1] # "idle") ~> (joiner[1] = "done" \/ fatal # "no")
=============================================================================
