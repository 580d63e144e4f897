---------------------------- MODULE ClientSingle ----------------------------
(***************************************************************************)
(* The clients that send one request: ClientSingleUpMultipleDown with its  *)
(* ClientSUMD (a stream of responses, a future for the status) and the     *)
(* second version of ClientUnary.  They are contexts of the client         *)
(* Executor: gRPC completes the operation they posted, and a progress      *)
(* engine runs the handler m_NextState points to.  The server and gRPC are *)
(* external: Send, Close, and what an operation completes with.            *)
(***************************************************************************)
EXTENDS Integers, Sequences

CONSTANTS
  Kinds,         \* of {"unary", "sumd"}
  MaxMessages,   \* responses of the server
  MayNotStart,   \* can the call fail to start?
  Waits          \* what the owner of each kind waits for before it destroys the
                 \* client: "future", "completer", or "join" of the executor

VARIABLES
  kind,
  m_NextState,
  posted,       \* the operation gRPC has: "none", "start", "read", "finish"
  sent, state,  \* the server: responses so far, and "open" or its status
  received,     \* responses the callback got
  engine,       \* "poll"; in StateFinishDone: "completing" before the completer is
                \* called, "returning" after it; "done"
  shut,         \* cq->Shutdown() of ShutdownAndJoin has been called
  m_Promise, completed,  \* status in the promise, and given to the completer
  deleted       \* the context is gone: "no", or deleted by "executor" or "owner"

vars == <<kind, m_NextState, posted, sent, state, received, engine, shut,
          m_Promise, completed, deleted>>
serverVars == <<sent, state>>

Init ==
  /\ kind \in Kinds
  /\ m_NextState = "StateInvalid" /\ posted = "none"
  /\ sent = 0 /\ state = "open" /\ received = <<>>
  /\ engine = "poll" /\ shut = FALSE /\ m_Promise = "none" /\ completed = "none" /\ deleted = "no"

(* Mutant of ExecutorShouldDeleteContext: as the first ClientUnary has it. *)
ExecutorShouldDeleteContextTrue == TRUE

(* Their user owns the object. *)
ExecutorShouldDeleteContext == FALSE

(* Executor::ProgressEngine after the handler.  StateStreamInitialized and     *)
(* StateReadDone end without a return statement: the value is any.             *)
Returned(values) ==
  \E keep \in values :
    deleted' = IF ~keep /\ ExecutorShouldDeleteContext THEN "executor" ELSE deleted

Alive == deleted = "no"
Handler(next, op) ==
  Alive /\ engine = "poll" /\ m_NextState = next /\ posted = op
-----------------------------------------------------------------------------
(* Write: one request; a second one fails the CHECK of m_Stream. *)
Write ==
  /\ m_NextState = "StateInvalid" /\ completed = "none" /\ engine = "poll"
  /\ IF kind = "unary" THEN m_NextState' = "StateFinishDone" /\ posted' = "finish"
     ELSE m_NextState' = "StateStreamInitialized" /\ posted' = "start"
  /\ UNCHANGED <<kind, serverVars, received, engine, shut, m_Promise, completed,
                 deleted>>

(* A stream that fails to start is given up without a word to its user. *)
StateStreamInitialized ==
  /\ Handler("StateStreamInitialized", "start")
  /\ \/ /\ m_NextState' = "StateReadDone" /\ posted' = "read"
        /\ Returned(BOOLEAN)
     \/ /\ MayNotStart
        /\ posted' = "none" /\ m_NextState' = m_NextState
        /\ Returned({FALSE})
  /\ UNCHANGED <<kind, serverVars, received, engine, shut, m_Promise, completed>>

(* A read brings the next response, or ends the stream. *)
StateReadDone ==
  /\ Handler("StateReadDone", "read")
  /\ \/ /\ Len(received) < sent /\ state # "cancelled"
        /\ received' = Append(received, Len(received) + 1)
        /\ UNCHANGED <<m_NextState, posted>>
        /\ Returned(BOOLEAN)
     \/ /\ (Len(received) = sent /\ state # "open") \/ state = "cancelled"
        /\ m_NextState' = "StateFinishDone" /\ posted' = "finish"
        /\ UNCHANGED received
        /\ Returned({TRUE})
  /\ UNCHANGED <<kind, serverVars, engine, shut, m_Promise, completed>>

(* gRPC completes a client's Finish with ok, so the other branch is not taken. *)
(* ClientUnary hands over the response of a good status first; ClientSUMD      *)
(* fulfils the promise, then calls the completer.                              *)
StateFinishDone ==
  /\ Handler("StateFinishDone", "finish") /\ state # "open"
  /\ posted' = "none"
  /\ engine' = "completing"
  /\ received' = IF kind = "unary" /\ state = "ok" THEN <<1>> ELSE received
  /\ m_Promise' = IF kind = "sumd" THEN state ELSE m_Promise
  /\ m_NextState' = IF kind = "unary" THEN "StateInvalid" ELSE m_NextState
  /\ UNCHANGED <<kind, serverVars, shut, completed, deleted>>

(* The completer is called.  ClientUnary has nothing left to do then but to    *)
(* return ...                                                                  *)
CallbackOnComplete ==
  /\ engine = "completing"
  /\ completed' = state
  /\ engine' = IF kind = "unary" THEN "poll" ELSE "returning"
  /\ IF kind = "unary" THEN Returned({FALSE}) ELSE UNCHANGED deleted
  /\ UNCHANGED <<kind, m_NextState, posted, serverVars, received, shut, m_Promise>>

(* ... and ClientSingleUpMultipleDown writes m_NextState first. *)
FinishReturns ==
  /\ engine = "returning"
  /\ m_NextState' = "StateInvalid"
  /\ engine' = "poll"
  /\ Returned({FALSE})
  /\ UNCHANGED <<kind, posted, serverVars, received, shut, m_Promise, completed>>

(* Cancel: TryCancel on the ClientContext. *)
Cancel ==
  /\ Alive /\ kind = "sumd" /\ posted # "none" /\ state = "open"
  /\ state' = "cancelled"
  /\ UNCHANGED <<kind, m_NextState, posted, sent, received, engine, shut, m_Promise,
                 completed, deleted>>

(* The owner knows the status. *)
Known ==
  completed # "none" \/ (Waits[kind] = "future" /\ m_Promise # "none")

(* ShutdownAndJoin, by an owner that waits for the progress engine: the queue *)
(* is shut down, and the engine leaves once it has drained it.                *)
ShutdownAndJoin ==
  /\ Alive /\ Known /\ Waits[kind] = "join" /\ ~shut
  /\ shut' = TRUE
  /\ UNCHANGED <<kind, m_NextState, posted, serverVars, received, engine, m_Promise,
                 completed, deleted>>

EngineReturns ==
  /\ engine = "poll" /\ shut /\ posted = "none"
  /\ engine' = "done"
  /\ UNCHANGED <<kind, m_NextState, posted, serverVars, received, shut, m_Promise,
                 completed, deleted>>

(* Mutant of Joined: the threads are not waited for. *)
JoinedAtOnce == shut

(* m_ThreadPool.reset(): the progress engine has returned. *)
Joined == shut /\ engine = "done"

(* The owner destroys the client. *)
Destroy ==
  /\ Alive /\ Known /\ (Waits[kind] = "join" => Joined)
  /\ deleted' = "owner"
  /\ UNCHANGED <<kind, m_NextState, posted, serverVars, received, engine, shut, m_Promise,
                 completed>>

(* The server answers (external). *)
Send ==
  /\ posted # "none" /\ state = "open"
  /\ sent < (IF kind = "unary" THEN 1 ELSE MaxMessages)
  /\ sent' = sent + 1
  /\ UNCHANGED <<kind, m_NextState, posted, state, received, engine, shut, m_Promise,
                 completed, deleted>>

Close ==
  /\ posted # "none" /\ state = "open"
  /\ state' \in {"ok", "error"}
  /\ (kind = "unary" /\ state' = "ok") => sent = 1
  /\ UNCHANGED <<kind, m_NextState, posted, sent, received, engine, shut, m_Promise,
                 completed, deleted>>

Handlers ==
  \/ StateStreamInitialized \/ StateReadDone \/ StateFinishDone \/ CallbackOnComplete
  \/ FinishReturns \/ EngineReturns

Next == Write \/ Handlers \/ Cancel \/ ShutdownAndJoin \/ Destroy \/ Send \/ Close

Spec == Init /\ [][Next]_vars
-----------------------------------------------------------------------------
(* What the user of a single-request client sees: the responses in the       *)
(* server's order, all of them when the status is OK; the future and the     *)
(* completer agree; and nobody deletes the client while gRPC or a handler in *)
(* a progress engine still uses it, whatever the handlers without a return   *)
(* give back.                                                                *)
SingleSound ==
  /\ \A i \in DOMAIN received : received[i] = i
  /\ completed = "ok" => Len(received) = sent
  /\ kind = "sumd" /\ completed # "none" => m_Promise = completed
  /\ deleted # "no" => posted = "none" /\ engine \in {"poll", "done"}

(* ClientSUMD::Write returns the future of Status: every request gets a      *)
(* status in the end.                                                        *)
StatusArrives == m_NextState # "StateInvalid" ~> (m_Promise # "none" \/ completed # "none")

FairSpec == Spec /\ WF_vars(Handlers) /\ WF_vars(Close)
=============================================================================
