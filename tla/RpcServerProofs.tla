-------------------------- MODULE RpcServerProofs --------------------------
(***************************************************************************)
(* The single-request clients and the UCX objects of MCRpcServer, for      *)
(* every number of responses and messages.                                 *)
(***************************************************************************)
EXTENDS MCRpcServer, SequenceTheorems, TLAPS

-----------------------------------------------------------------------------
(* ClientSingle.  While gRPC has an operation of the client, its engine      *)
(* polls and its user still waits; the completer gets the status of a call   *)
(* whose responses were all handed over.                                     *)

(* The callback has got the first of the responses sent, in order. *)
HandedOver ==
  /\ sent \in Nat /\ received \in Seq(Nat) /\ Len(received) <= sent
  /\ \A i \in 1 .. Len(received) : received[i] = i

(* The server has said its last word, and all it sent before an OK is here. *)
Concluded == state # "open" /\ (state = "ok" => Len(received) = sent)

PostedInv ==
  posted # "none" =>
    /\ engine = "poll" /\ completed = "none" /\ ~shut /\ deleted = "no"
    /\ (posted = "finish" /\ single # "unary" => Concluded)

CompletingInv ==
  engine = "completing" =>
    /\ posted = "none" /\ completed = "none" /\ ~shut /\ deleted = "no" /\ Concluded
    /\ (single = "sumd" => m_Promise = state)

CompletedInv ==
  completed # "none" =>
    /\ posted = "none" /\ engine # "completing" /\ completed = state /\ Concluded
    /\ (single = "sumd" => m_Promise = state)

(* The handler of a ClientSingleUpMultipleDown still has the client after the *)
(* completer; nobody has deleted it then.                                     *)
ReturningInv ==
  /\ engine \in {"poll", "completing", "returning", "done"}
  /\ (engine = "returning" => single # "unary" /\ completed # "none" /\ deleted = "no")
  /\ (deleted # "no" => completed # "none")
  /\ (shut => completed # "none") /\ (engine = "done" => shut)

SingleInv ==
  /\ HandedOver /\ PostedInv /\ CompletingInv /\ CompletedInv /\ ReturningInv
  /\ single \in Kinds /\ state # "none"
  /\ (single = "unary" /\ state = "ok" => sent = 1)

(* A client that has not been used satisfies the invariant. *)
LEMMA SingleStart == S!Init => SingleInv
<1> SUFFICES ASSUME S!Init PROVE SingleInv
  BY Zenon
<1>1. HandedOver
  BY EmptySeq, SMTT(30) DEF S!Init, HandedOver
<1> QED BY <1>1, Zenon
        DEF S!Init, SingleInv, PostedInv, CompletingInv, CompletedInv, ReturningInv

(* Steps that leave the responses and the status alone. *)
LEMMA SameResponses ==
  ASSUME HandedOver, UNCHANGED <<sent, received, state, single>>
  PROVE  /\ HandedOver' /\ (Concluded <=> Concluded')
         /\ ((single = "unary" /\ state = "ok" => sent = 1)
              => (single = "unary" /\ state = "ok" => sent = 1)')
<1>1. HandedOver'
  BY SMTT(30) DEF HandedOver
<1> QED BY <1>1, Zenon DEF Concluded

(* What the owners must wait for: that of a ClientUnary for the completer at  *)
(* least, that of a ClientSUMD for the executor.                              *)
Patience ==
  \A k \in Kinds : Waits[k] = "join" \/ (k = "unary" /\ Waits[k] = "completer")

(* Every step of the client, its engine, its owner or its server keeps it:   *)
(* the owner waits long enough.                                              *)
LEMMA SingleKept ==
  ASSUME Patience, SingleInv, [S!Next]_singleVars
  PROVE  SingleInv'
<1> USE DEF S!serverVars, S!Handler, S!Alive, S!Returned, S!ExecutorShouldDeleteContext
<1>0. HandedOver /\ PostedInv /\ CompletingInv /\ CompletedInv /\ ReturningInv
  BY Zenon DEF SingleInv
<1>1. CASE S!Write
  BY <1>0, <1>1, SameResponses, Zenon
     DEF SingleInv, S!Write, PostedInv, CompletingInv, CompletedInv, ReturningInv
<1>2. CASE S!StateStreamInitialized
  BY <1>0, <1>2, SameResponses, Zenon
     DEF SingleInv, S!StateStreamInitialized, PostedInv, CompletingInv, CompletedInv, ReturningInv
<1>3. CASE S!StateReadDone
  <2>1. CASE received' = received
    BY <1>0, <1>3, <2>1, SameResponses, Zenon
       DEF SingleInv, S!StateReadDone, PostedInv, CompletingInv, CompletedInv, ReturningInv, Concluded
  <2>2. CASE received' # received
    <3>1. /\ Len(received) < sent /\ received' = Append(received, Len(received) + 1)
          /\ posted = "read"
          /\ UNCHANGED <<m_NextState, posted, single, sent, state, engine, shut, m_Promise,
                          completed, deleted>>
      BY <1>3, <2>2, Zenon DEF S!StateReadDone
    <3>2. HandedOver'
      <4>1. /\ sent \in Nat /\ Len(received) \in Nat /\ received' \in Seq(Nat)
            /\ Len(received') = Len(received) + 1
            /\ \A i \in 1 .. Len(received) : received'[i] = received[i]
            /\ received'[Len(received) + 1] = Len(received) + 1
        BY <1>0, <3>1, SMTT(30) DEF HandedOver
      <4> QED BY <1>0, <3>1, <4>1, SMTT(30) DEF HandedOver
    <3> QED BY <1>0, <3>1, <3>2, Zenon DEF SingleInv, PostedInv, CompletingInv, CompletedInv, ReturningInv
  <2> QED BY <2>1, <2>2, Zenon
<1>4. CASE S!StateFinishDone
  <2>1. /\ posted = "finish" /\ state # "open" /\ posted' = "none" /\ engine' = "completing"
        /\ received' = IF single = "unary" /\ state = "ok" THEN <<1>> ELSE received
        /\ (single = "sumd" => m_Promise' = state)
        /\ UNCHANGED <<single, sent, state, shut, completed, deleted>>
    BY <1>4, Zenon DEF S!StateFinishDone
  <2>2. HandedOver' /\ Concluded'
    <3>1. CASE single = "unary" /\ state = "ok"
      <4>1. sent = 1 /\ received' = <<1>>
        BY <2>1, <3>1, Zenon DEF SingleInv
      <4>2. <<1>> \in Seq(Nat) /\ Len(<<1>>) = 1 /\ <<1>>[1] = 1 /\ \A k \in 1 .. 1 : k = 1
        BY ONLY SMTT(30)
      <4>3. sent' = 1 /\ 1 \in Nat /\ 1 <= 1 /\ Len(received') = 1
        BY <2>1, <4>1, <4>2, SMTT(30)
      <4> QED BY <2>1, <4>1, <4>2, <4>3, Zenon DEF HandedOver, Concluded
    <3>2. CASE ~(single = "unary" /\ state = "ok")
      BY <1>0, <2>1, <3>2, SameResponses, Zenon DEF PostedInv, Concluded
    <3> QED BY <3>1, <3>2, Zenon
  <2> QED BY <1>0, <2>1, <2>2, Zenon
          DEF SingleInv, PostedInv, CompletingInv, CompletedInv, ReturningInv
<1>5. CASE S!CallbackOnComplete
  <2>1. /\ engine = "completing" /\ completed' = state /\ deleted' = deleted
        /\ engine' = IF single = "unary" THEN "poll" ELSE "returning"
        /\ UNCHANGED <<single, posted, sent, state, received, shut, m_Promise>>
    BY <1>5, Zenon DEF S!CallbackOnComplete
  <2>2. completed' # "none" /\ (engine' = "returning" => single # "unary")
    BY <2>1, Zenon DEF SingleInv
  <2>3. /\ posted = "none" /\ completed = "none" /\ ~shut /\ deleted = "no" /\ Concluded
        /\ (single = "sumd" => m_Promise = state)
    BY <1>0, <2>1, Zenon DEF CompletingInv
  <2>4. engine' \in {"poll", "returning"}
    BY <2>1, Zenon
  <2> QED BY <1>0, <2>1, <2>2, <2>3, <2>4, SameResponses, Zenon
          DEF SingleInv, PostedInv, CompletingInv, CompletedInv, ReturningInv
<1>6. CASE S!Cancel \/ S!Send \/ S!Close
  <2>1. /\ posted # "none" /\ state = "open" /\ received' = received
        /\ UNCHANGED <<single, posted, engine, shut, m_Promise, completed, deleted>>
    BY <1>6, Zenon DEF S!Cancel, S!Send, S!Close
  <2>2. (posted = "finish" => single = "unary") /\ engine = "poll" /\ completed = "none"
    BY <1>0, <2>1, Zenon DEF PostedInv, Concluded
  <2>3. sent' \in Nat /\ sent <= sent'
    <3>1. sent \in Nat /\ (sent' = sent \/ sent' = sent + 1)
      BY <1>0, <1>6, Zenon DEF HandedOver, S!Cancel, S!Send, S!Close
    <3> QED BY ONLY <3>1, SMTT(30)
  <2>4. HandedOver'
    BY <1>0, <2>1, <2>3, SMTT(30) DEF HandedOver
  <2>5. (single = "unary" /\ state = "ok" => sent = 1)' /\ state' # "none"
    BY <1>6, Zenon DEF S!Cancel, S!Send, S!Close
  <2> QED BY <1>0, <2>1, <2>2, <2>4, <2>5, Zenon
          DEF SingleInv, PostedInv, CompletingInv, CompletedInv, ReturningInv
<1>7. CASE S!Destroy
  <2>1. /\ completed # "none" /\ engine # "returning"
        /\ deleted' = "owner" /\ UNCHANGED <<posted, engine, shut, completed, m_Promise>>
        /\ UNCHANGED <<single, sent, state, received>>
    <3>1. Waits[single] # "future" /\ (Waits[single] # "join" => single = "unary")
      BY Zenon DEF Patience, SingleInv
    <3> QED BY <1>0, <1>7, <3>1, Zenon DEF S!Destroy, S!Joined, S!Known, ReturningInv
  <2> QED BY <1>0, <2>1, SameResponses, Zenon
          DEF SingleInv, PostedInv, CompletingInv, CompletedInv, ReturningInv
<1>9. CASE S!FinishReturns
  BY <1>0, <1>9, SameResponses, Zenon
     DEF SingleInv, S!FinishReturns, PostedInv, CompletingInv, CompletedInv, ReturningInv
<1>10. CASE S!ShutdownAndJoin
  <2>1. completed # "none"
    BY <1>10, Zenon DEF S!ShutdownAndJoin, S!Known
  <2> QED BY <1>0, <1>10, <2>1, SameResponses, Zenon
          DEF SingleInv, S!ShutdownAndJoin, PostedInv, CompletingInv, CompletedInv, ReturningInv
<1>11. CASE S!EngineReturns
  BY <1>0, <1>11, SameResponses, Zenon
     DEF SingleInv, S!EngineReturns, PostedInv, CompletingInv, CompletedInv, ReturningInv
<1>8. CASE UNCHANGED singleVars
  BY <1>0, <1>8, SameResponses, Zenon
     DEF singleVars, SingleInv, PostedInv, CompletingInv, CompletedInv, ReturningInv
<1> QED BY <1>1, <1>2, <1>3, <1>4, <1>5, <1>6, <1>7, <1>8, <1>9, <1>10, <1>11, Zenon
        DEF S!Next, S!Handlers

(* A single-request client hands over the responses in order, all of them    *)
(* when the status is OK, its future and its completer agree, and nobody     *)
(* deletes it while gRPC or a handler has it, for every number of responses, *)
(* if the owner of a ClientUnary waits for the completer and the owner of a  *)
(* ClientSUMD, whose handler goes on after the completer, for the executor.  *)
THEOREM SingleIsSound == Patience => (RpcSpec => []SingleSound)
<1> SUFFICES ASSUME Patience PROVE RpcSpec => []SingleSound
  BY Zenon
<1>1. RpcInit => SingleInv
  BY SingleStart, Zenon DEF RpcInit
<1>2. SingleInv /\ [RpcNext]_allVars => SingleInv'
  <2>1. [RpcNext]_allVars => [S!Next]_singleVars
    BY Zenon DEF RpcNext, ServerStep, SingleStep, UcxStep, allVars
  <2> QED BY <2>1, SingleKept, Zenon
<1>3. SingleInv => SingleSound
  <2> SUFFICES ASSUME SingleInv PROVE SingleSound
    BY Zenon
  <2>1. \A i \in DOMAIN received : received[i] = i
    <3>1. DOMAIN received = 1 .. Len(received)
      BY LenProperties, Zenon DEF SingleInv, HandedOver
    <3> QED BY <3>1, Zenon DEF SingleInv, HandedOver
  <2>2. deleted # "no" => posted = "none" /\ engine \in {"poll", "done"}
    BY Zenon DEF SingleInv, PostedInv, CompletingInv, ReturningInv
  <2> QED BY <2>1, <2>2, Zenon DEF SingleSound, S!SingleSound, SingleInv, CompletedInv, Concluded
<1> QED BY <1>1, <1>2, <1>3, PTL DEF RpcSpec
-----------------------------------------------------------------------------
(* UcxTransport: the handles.  alive are the native handles of a state in    *)
(* which h says who holds what.                                              *)

(* An object is held by its user and by the objects made from it. *)
Shape(h) ==
  /\ DOMAIN h = U!Objects
  /\ h["context"] \subseteq {"user", "tx", "rx"}
  /\ h["tx"] \subseteq {"user", "endpoint"} /\ h["rx"] \subseteq {"user", "manager"}
  /\ h["manager"] \subseteq {"user"}

(* What is held exists, and so does what holds. *)
Kept(h, alive) ==
  /\ Shape(h)
  /\ \A w \in U!Workers : /\ (h[w] # {} => w \in alive)
                          /\ (w \in alive <=> w \in h["context"])
  /\ (h["context"] # {} => "context" \in alive)
  /\ ("endpoint" \in alive <=> "endpoint" \in h["tx"])
  /\ ("manager" \in h["rx"] <=> h["manager"] # {})

(* What exists is held, too. *)
Settled(h, alive) ==
  /\ Kept(h, alive)
  /\ \A o \in {"tx", "rx", "context"} : o \in alive => h[o] # {}

(* The same, object by object. *)
LEMMA SettledIs ==
  ASSUME NEW h, NEW alive
  PROVE  Settled(h, alive) <=>
           /\ Shape(h) /\ ("context" \in alive <=> h["context"] # {})
           /\ ("tx" \in alive <=> h["tx"] # {}) /\ ("tx" \in alive <=> "tx" \in h["context"])
           /\ ("rx" \in alive <=> h["rx"] # {}) /\ ("rx" \in alive <=> "rx" \in h["context"])
           /\ ("endpoint" \in alive <=> "endpoint" \in h["tx"])
           /\ ("manager" \in h["rx"] <=> h["manager"] # {})
BY Zenon DEF Settled, Kept, U!Workers

(* The fiber of a manager polls as long as somebody holds the manager. *)
HandlesInv ==
  /\ Settled(holders, native)
  /\ (fiber \notin {"none", "done"} => holders["manager"] # {})

(* ~Worker and ~Context run for what nobody holds, and for nothing else. *)
LEMMA ReleaseSettles ==
  ASSUME NEW h, NEW alive, Kept(h, alive)
  PROVE  /\ Settled(U!Released(h, alive).holders, U!Released(h, alive).native)
         /\ U!Released(h, alive).holders["manager"] = h["manager"]
<1> DEFINE gone == U!Unheld(h, alive \cap U!Workers)
           left == [x \in U!Objects |-> h[x] \ gone]
           rest == (alive \ gone) \ U!Unheld(left, alive \cap {"context"})
<1>1. U!Released(h, alive).holders = left /\ U!Released(h, alive).native = rest
  BY SMTT(30) DEF U!Released
<1>2. \A o : o \in gone <=> o \in {"tx", "rx"} /\ o \in alive /\ h[o] = {}
  BY Zenon DEF U!Unheld, U!Workers
<1> HIDE DEF gone
<1>3. /\ DOMAIN left = U!Objects /\ left["context"] = h["context"] \ gone
      /\ left["tx"] = h["tx"] \ gone /\ left["rx"] = h["rx"] \ gone
      /\ left["manager"] = h["manager"] \ gone
  BY SMTT(30) DEF U!Objects
<1>4. left["tx"] = h["tx"] /\ left["rx"] = h["rx"] /\ left["manager"] = h["manager"]
  <2>1. \A x \in {"user", "endpoint", "manager"} : x \notin gone
    BY <1>2, Zenon
  <2>2. /\ h["tx"] \subseteq {"user", "endpoint"} /\ h["rx"] \subseteq {"user", "manager"}
        /\ h["manager"] \subseteq {"user"}
    BY Zenon DEF Kept, Shape
  <2> HIDE DEF left
  <2> QED BY <1>3, <2>1, <2>2, SMTT(30)
<1>5. /\ \A w \in {"tx", "rx"} : w \in rest <=> w \in alive /\ h[w] # {}
      /\ ("context" \in rest <=> "context" \in alive /\ left["context"] # {})
      /\ ("endpoint" \in rest <=> "endpoint" \in alive)
  <2> HIDE DEF left
  <2>1. \A o : o \in rest <=> o \in alive /\ o \notin gone /\ ~ (o = "context" /\ left[o] = {})
    BY Zenon DEF U!Unheld
  <2> HIDE DEF rest
  <2>2. ASSUME NEW w \in {"tx", "rx"} PROVE w \in rest <=> w \in alive /\ h[w] # {}
    BY <1>2, <2>1, Zenon
  <2>3. "context" \in rest <=> "context" \in alive /\ left["context"] # {}
    <3>1. "context" \notin gone
      BY <1>2, SMTT(30)
    <3> QED BY <2>1, <3>1, Zenon
  <2>4. "endpoint" \in rest <=> "endpoint" \in alive
    <3>1. "endpoint" \notin gone /\ "endpoint" # "context"
      BY <1>2, SMTT(30)
    <3> QED BY <2>1, <3>1, Zenon
  <2> QED BY <2>2, <2>3, <2>4, Zenon
<1> HIDE DEF left, rest
<1>6. \A w \in {"tx", "rx"} : w \in left["context"] <=> w \in alive /\ h[w] # {}
  BY <1>2, <1>3, Zenon DEF Kept, U!Workers
<1>7. Shape(left)
  BY <1>3, <1>4, SMTT(30) DEF Kept, Shape
<1>8. \A w \in U!Workers : /\ (left[w] # {} => w \in rest)
                          /\ (w \in rest <=> w \in left["context"])
  BY <1>4, <1>5, <1>6, SMTT(30) DEF Kept, U!Workers
<1>9. /\ (left["context"] # {} => "context" \in rest)
      /\ \A o \in {"tx", "rx", "context"} : o \in rest => left[o] # {}
  <2>1. left["context"] # {} => h["context"] # {}
    BY <1>3, Zenon
  <2> QED BY <1>4, <1>5, <2>1, SMTT(30) DEF Kept
<1>10. Kept(left, rest)
  BY <1>4, <1>5, <1>7, <1>8, <1>9, Zenon DEF Kept
<1> QED BY <1>1, <1>4, <1>9, <1>10, Zenon DEF Settled

(* No object, no handle. *)
LEMMA HandlesStart == U!Init => HandlesInv
<1> SUFFICES ASSUME U!Init PROVE HandlesInv
  BY Zenon
<1>1. DOMAIN holders = U!Objects /\ \A o \in U!Objects : holders[o] = {}
  BY Zenon DEF U!Init
<1>2. \A o \in {"context", "tx", "rx", "manager"} : holders[o] = {}
  BY <1>1, Zenon DEF U!Objects
<1>3. native = {} /\ fiber = "none"
  BY Zenon DEF U!Init
<1> QED BY <1>1, <1>2, <1>3, SMTT(30) DEF HandlesInv, Settled, Kept, Shape, U!Workers

(* What the engine's test of m_running does, but for its backoff. *)
LEMMA CheckIs ==
  ASSUME U!Check
  PROVE  /\ fiber = "check" /\ (m_running => fiber' = "probe") /\ (~m_running => fiber' = "done")
         /\ UNCHANGED <<holders, native, closing, posts, wire, inbox, unexpected, handled,
                         m_running, joined, atStop>>
BY SMTT(30) DEF U!Check, U!objects, U!messages

(* Every step keeps the handles settled, if the manager is joined before it  *)
(* is dropped.                                                               *)
LEMMA HandlesKept ==
  ASSUME Joins, HandlesInv, [U!Next]_ucxVars
  PROVE  HandlesInv'
<1> USE DEF U!objects, U!manager, U!messages, U!Held
<1>0. Settled(holders, native) /\ Kept(holders, native) /\ Shape(holders)
  BY Zenon DEF HandlesInv, Settled, Kept
<1>00. DOMAIN holders = U!Objects /\ {"context", "tx", "rx", "manager", "endpoint"} = U!Objects
  BY <1>0, SMTT(30) DEF Shape, U!Objects
<1>1. CASE U!MakeContext
  <2>1. holders' = [holders EXCEPT !["context"] = {"user"}] /\ native = {}
        /\ native' = {"context"} /\ fiber' = fiber
    BY <1>1, Zenon DEF U!MakeContext
  <2>2. /\ DOMAIN holders' = U!Objects /\ holders'["context"] = {"user"}
        /\ \A o \in {"tx", "rx", "manager"} : holders'[o] = holders[o]
    BY <1>00, <2>1, SMTT(30)
  <2>3. holders["tx"] = {} /\ holders["rx"] = {}
    BY <1>0, <2>1, Zenon DEF Kept, U!Workers
  <2> QED BY <1>0, <2>1, <2>2, <2>3, SMTT(30) DEF HandlesInv, Settled, Kept, Shape, U!Workers
<1>2. ASSUME NEW w \in U!Workers, U!MakeWorker(w) PROVE HandlesInv'
  <2>1. /\ holders' = [holders EXCEPT ![w] = {"user"}, !["context"] = @ \cup {w}]
        /\ native' = native \cup {w} /\ fiber' = fiber
        /\ "user" \in holders["context"] /\ holders[w] = {} /\ w \notin native
    BY <1>2, Zenon DEF U!MakeWorker
  <2>2. /\ DOMAIN holders' = U!Objects /\ w \in {"tx", "rx"}
        /\ holders'["context"] = holders["context"] \cup {w} /\ holders'[w] = {"user"}
        /\ \A o \in {"tx", "rx", "manager"} : o # w => holders'[o] = holders[o]
    BY <1>00, <2>1, SMTT(30) DEF U!Workers
  <2>u. "user" \in {"user"} /\ {"user"} \subseteq {"user", "endpoint"}
        /\ {"user"} \subseteq {"user", "manager"}
    BY Zenon
  <2>s. Shape(holders)'
    BY <1>0, <2>2, SMTT(30) DEF Shape, U!Workers
  <2>c. holders'["context"] # {} /\ holders["context"] # {} /\ w \in holders'["context"]
        /\ \A v \in {"tx", "rx"} : v # w =>
             /\ (v \in native' <=> v \in native)
             /\ (v \in holders'["context"] <=> v \in holders["context"])
    BY <2>1, <2>2, Zenon
  <2>3. CASE w = "tx"
    <3>1. /\ holders'["tx"] = {"user"} /\ holders'["rx"] = holders["rx"]
          /\ holders'["manager"] = holders["manager"]
      BY <2>2, <2>3, Zenon
    <3>2. "endpoint" \notin native /\ "endpoint" \notin native' /\ "endpoint" \notin holders'["tx"]
      BY <1>0, <2>1, <2>3, <3>1, Zenon DEF Kept
    <3>3. "tx" \in native' /\ ("rx" \in native' <=> "rx" \in native) /\ "context" \in native'
          /\ ("rx" \in holders'["context"] <=> "rx" \in holders["context"])
          /\ "tx" \in holders'["context"] /\ holders'["tx"] # {}
      BY <1>0, <2>1, <2>3, <2>c, <3>1, <2>u, Zenon DEF Kept
    <3>4. Settled(holders, native)'
      BY <1>0, <2>s, <2>c, <3>1, <3>2, <3>3, SettledIs, Zenon
    <3> QED BY <2>1, <3>1, <3>4, Zenon DEF HandlesInv
  <2>4. CASE w = "rx"
    <3>1. /\ holders'["rx"] = {"user"} /\ holders'["tx"] = holders["tx"]
          /\ holders'["manager"] = holders["manager"]
      BY <2>2, <2>4, Zenon
    <3>2. holders["manager"] = {}
      BY <1>0, <2>1, <2>4, Zenon DEF Kept
    <3>3. "rx" \in native' /\ ("tx" \in native' <=> "tx" \in native) /\ "context" \in native'
          /\ ("tx" \in holders'["context"] <=> "tx" \in holders["context"])
          /\ "rx" \in holders'["context"] /\ holders'["rx"] # {} /\ "manager" \notin holders'["rx"]
          /\ ("endpoint" \in native' <=> "endpoint" \in native)
      BY <1>0, <2>1, <2>4, <2>c, <3>1, <2>u, Zenon DEF Kept
    <3>4. Settled(holders, native)'
      BY <1>0, <2>s, <2>c, <3>1, <3>2, <3>3, SettledIs, Zenon
    <3> QED BY <2>1, <3>1, <3>4, Zenon DEF HandlesInv
  <2> QED BY <2>2, <2>3, <2>4, Zenon
<1>3. CASE U!MakeEndpoint
  <2>1. /\ holders' = [holders EXCEPT !["endpoint"] = {"user"}, !["tx"] = @ \cup {"endpoint"}]
        /\ native' = native \cup {"endpoint"} /\ fiber' = fiber /\ "user" \in holders["tx"]
    BY <1>3, Zenon DEF U!MakeEndpoint
  <2>2. /\ DOMAIN holders' = U!Objects /\ holders'["tx"] = holders["tx"] \cup {"endpoint"}
        /\ \A o \in {"context", "rx", "manager"} : holders'[o] = holders[o]
    BY <1>00, <2>1, SMTT(30)
  <2>3. /\ holders'["context"] = holders["context"] /\ holders'["rx"] = holders["rx"]
        /\ holders'["manager"] = holders["manager"]
    BY <2>2, Zenon
  <2>4. /\ holders["tx"] # {} /\ holders'["tx"] # {} /\ "endpoint" \in holders'["tx"]
        /\ "endpoint" \in native' /\ \A o \in {"context", "tx", "rx"} : o \in native' <=> o \in native
    BY <2>1, <2>2, Zenon
  <2>5. Shape(holders)'
    BY <1>0, <2>2, <2>3, SMTT(30) DEF Shape
  <2>6. Settled(holders, native)'
    BY <1>0, <2>3, <2>4, <2>5, SettledIs, Zenon
  <2> QED BY <2>1, <2>3, <2>6, Zenon DEF HandlesInv
<1>4. CASE U!MakeManager
  <2>1. /\ holders' = [holders EXCEPT !["manager"] = {"user"}, !["rx"] = @ \cup {"manager"}]
        /\ native' = native /\ fiber' = fiber /\ "user" \in holders["rx"]
    BY <1>4, Zenon DEF U!MakeManager
  <2>2. /\ DOMAIN holders' = U!Objects /\ holders'["rx"] = holders["rx"] \cup {"manager"}
        /\ holders'["manager"] = {"user"}
        /\ \A o \in {"context", "tx"} : holders'[o] = holders[o]
    BY <1>00, <2>1, SMTT(30)
  <2>3. holders'["context"] = holders["context"] /\ holders'["tx"] = holders["tx"]
    BY <2>2, Zenon
  <2>4. /\ holders["rx"] # {} /\ holders'["rx"] # {} /\ "manager" \in holders'["rx"]
        /\ holders'["manager"] # {}
    BY <2>1, <2>2, Zenon
  <2>5. Shape(holders)'
    BY <1>0, <2>2, <2>3, SMTT(30) DEF Shape
  <2>6. Settled(holders, native)'
    BY <1>0, <2>1, <2>3, <2>4, <2>5, SettledIs, Zenon
  <2> QED BY <2>4, <2>6, Zenon DEF HandlesInv
<1>5. ASSUME NEW o \in U!Objects, U!Drop(o) PROVE HandlesInv'
  <2> DEFINE dropped == [holders EXCEPT ![o] = @ \ {"user"}]
  <2>1. PICK h : h = IF o = "manager" THEN U!Without(dropped, o) ELSE dropped
    BY Zenon
  <2>2. /\ o \in {"context", "tx", "rx", "manager"} /\ fiber' = fiber
        /\ (o = "manager" => fiber \in {"none", "done"})
        /\ holders' = U!Released(h, native).holders /\ native' = U!Released(h, native).native
    BY <1>5, <2>1, SMTT(30) DEF U!Drop, U!Release, U!Objects
  <2>3. /\ DOMAIN dropped = U!Objects /\ dropped[o] = holders[o] \ {"user"}
        /\ \A x \in U!Objects : x # o => dropped[x] = holders[x]
    BY <1>00, Zenon
  <2> HIDE DEF dropped
  <2>4. Kept(h, native) /\ (o # "manager" => h["manager"] = holders["manager"])
    <3>1. CASE o = "manager"
      <4>1. DOMAIN h = U!Objects /\ \A x \in U!Objects : h[x] = dropped[x] \ {"manager"}
        BY <2>1, <3>1, Zenon DEF U!Without
      <4>2. /\ h["manager"] = (holders["manager"] \ {"user"}) \ {"manager"}
            /\ \A x \in {"context", "tx", "rx"} : h[x] = holders[x] \ {"manager"}
        BY <1>00, <2>3, <3>1, <4>1, SMTT(30)
      <4>3. h["manager"] = {} /\ h["context"] = holders["context"] /\ h["tx"] = holders["tx"]
        BY <1>0, <4>2, SMTT(30) DEF Shape
      <4> QED BY <1>0, <3>1, <4>1, <4>2, <4>3, SMTT(30) DEF Kept, Shape, U!Workers
    <3>2. CASE o # "manager"
      <4>1. h = dropped
        BY <2>1, <3>2, Zenon
      <4>2. /\ \A x \in {"context", "tx", "rx", "manager"} :
                 h[x] = IF x = o THEN holders[x] \ {"user"} ELSE holders[x]
            /\ DOMAIN h = U!Objects
        BY <1>00, <2>3, <4>1, Zenon
      <4> QED BY <1>0, <3>2, <4>2, SMTT(30) DEF Kept, Shape, U!Workers
    <3> QED BY <3>1, <3>2, Zenon
  <2> QED BY <2>2, <2>4, ReleaseSettles, Zenon DEF HandlesInv
<1>6. ASSUME NEW how, U!EndpointGone(how), fiber' = fiber PROVE HandlesInv'
  <2>1. PICK g : g = [holders EXCEPT !["endpoint"] = {}]
    BY Zenon
  <2>2. PICK h : h = U!Without(g, "endpoint")
    BY Zenon
  <2>3. PICK alive : alive = native \ {"endpoint"}
    BY Zenon
  <2>4. holders' = U!Released(h, alive).holders /\ native' = U!Released(h, alive).native
    BY <1>6, <2>1, <2>2, <2>3, Zenon DEF U!EndpointGone, U!Release
  <2>5. DOMAIN h = U!Objects /\ \A x \in U!Objects : h[x] = g[x] \ {"endpoint"}
    BY <2>2, Zenon DEF U!Without
  <2>6. /\ h["context"] = holders["context"] /\ h["rx"] = holders["rx"]
        /\ h["manager"] = holders["manager"] /\ h["tx"] = holders["tx"] \ {"endpoint"}
    BY <1>0, <1>00, <2>1, <2>5, SMTT(30) DEF Shape
  <2>7. Kept(h, alive)
    BY <1>0, <2>3, <2>5, <2>6, SMTT(30) DEF Kept, Shape, U!Workers
  <2> QED BY <1>6, <2>4, <2>6, <2>7, ReleaseSettles, Zenon DEF HandlesInv
<1>7. CASE U!DropEndpoint \/ U!CloseEndpoint
  <2>1. \/ fiber' = fiber /\ \E how : U!EndpointGone(how)
        \/ /\ holders' = [holders EXCEPT !["endpoint"] = {}]
           /\ native' = native /\ fiber' = fiber
    BY <1>7, Zenon DEF U!DropEndpoint, U!CloseEndpoint
  <2>2. CASE holders' = [holders EXCEPT !["endpoint"] = {}] /\ native' = native /\ fiber' = fiber
    <3>1. /\ DOMAIN holders' = U!Objects
          /\ \A o \in {"context", "tx", "rx", "manager"} : holders'[o] = holders[o]
      BY <1>00, <2>2, SMTT(30)
    <3> QED BY <1>0, <2>2, <3>1, SMTT(30) DEF HandlesInv, Settled, Kept, Shape, U!Workers
  <2> QED BY <1>6, <2>1, <2>2, Zenon
<1>8. CASE U!start
  BY <1>8, Zenon DEF U!start, HandlesInv
<1>9. CASE U!Send \/ U!Transmit \/ U!stop \/ U!join \/ U!Engine \/ UNCHANGED ucxVars
  <2>1. UNCHANGED <<holders, native>>
    BY <1>9, CheckIs, Zenon DEF U!Send, U!Transmit, U!stop, U!join, U!Engine, U!Begin,
       U!Probe, U!Progress, ucxVars
  <2>2. fiber \in {"none", "done"} => fiber' = fiber
    BY <1>9, CheckIs, Zenon DEF U!Send, U!Transmit, U!stop, U!join, U!Engine, U!Begin,
       U!Probe, U!Progress, ucxVars
  <2> QED BY <2>1, <2>2, Zenon DEF HandlesInv
<1> QED BY <1>1, <1>2, <1>3, <1>4, <1>5, <1>7, <1>8, <1>9, Zenon DEF U!Next
-----------------------------------------------------------------------------
(* UcxTransport: the messages.  Once ~Endpoint has begun, nobody sends.       *)
EndpointInv == closing # "no" => "user" \notin holders["endpoint"]

(* One endpoint is made, so the one that goes is not made again. *)
LEMMA EndpointKept ==
  ASSUME HandlesInv, EndpointInv, [U!Next]_ucxVars
  PROVE  EndpointInv'
<1> USE DEF U!objects, U!manager, U!messages, U!Held
<1>0. /\ DOMAIN holders = U!Objects /\ "endpoint" \in U!Objects
      /\ "context" # "endpoint" /\ "manager" # "endpoint" /\ "rx" # "endpoint"
      /\ \A w \in U!Workers : w # "endpoint"
  BY SMTT(30) DEF HandlesInv, Settled, Kept, Shape, U!Objects, U!Workers
<1>1. ASSUME NEW h, NEW alive, U!Release(h, alive), "user" \notin h["endpoint"]
      PROVE  "user" \notin holders'["endpoint"]
  <2>1. holders' = U!Released(h, alive).holders
    BY <1>1, Zenon DEF U!Release
  <2>2. holders'["endpoint"] = h["endpoint"] \ U!Unheld(h, alive \cap U!Workers)
    BY <1>0, <2>1, SMTT(30) DEF U!Released
  <2> QED BY <1>1, <2>2, Zenon
<1>2. ASSUME NEW o \in U!Objects, U!Drop(o) PROVE EndpointInv'
  <2> DEFINE dropped == [holders EXCEPT ![o] = @ \ {"user"}]
  <2>1. PICK h : h = IF o = "manager" THEN U!Without(dropped, o) ELSE dropped
    BY Zenon
  <2>2. closing' = closing /\ o # "endpoint" /\ U!Release(h, native)
    BY <1>2, <2>1, SMTT(30) DEF U!Drop
  <2>3. dropped["endpoint"] = holders["endpoint"]
    BY <1>0, <2>2, SMTT(30)
  <2> HIDE DEF dropped
  <2>4. h["endpoint"] \subseteq holders["endpoint"]
    BY <1>0, <2>1, <2>3, SMTT(30) DEF U!Without
  <2> QED BY <1>1, <2>2, <2>4, Zenon DEF EndpointInv
<1>3. ASSUME NEW how, U!EndpointGone(how) PROVE EndpointInv'
  <2>1. PICK g : g = [holders EXCEPT !["endpoint"] = {}]
    BY Zenon
  <2>2. PICK h : h = U!Without(g, "endpoint")
    BY Zenon
  <2>3. g["endpoint"] = {}
    BY <1>0, <2>1, SMTT(30)
  <2>4. "user" \notin h["endpoint"]
    BY <1>0, <2>2, <2>3, SMTT(30) DEF U!Without
  <2> QED BY <1>1, <1>3, <2>1, <2>2, <2>4, Zenon DEF U!EndpointGone, EndpointInv
<1>4. CASE holders' = [holders EXCEPT !["endpoint"] = {}]
  <2>1. holders'["endpoint"] = {}
    BY <1>0, <1>4, SMTT(30)
  <2> QED BY <2>1, Zenon DEF EndpointInv
<1>5. CASE UNCHANGED <<holders, closing>>
  BY <1>5, Zenon DEF EndpointInv
<1>6. CASE closing' = "no"
  BY <1>6, Zenon DEF EndpointInv
<1>7. CASE U!MakeContext \/ U!MakeManager \/ \E w \in U!Workers : U!MakeWorker(w)
  <2>1. holders'["endpoint"] = holders["endpoint"]
    BY <1>0, <1>7, SMTT(30) DEF U!MakeContext, U!MakeManager, U!MakeWorker
  <2>2. closing' = closing
    BY <1>7, Zenon DEF U!MakeContext, U!MakeManager, U!MakeWorker
  <2> QED BY <2>1, <2>2, Zenon DEF EndpointInv
<1>8. CASE U!MakeEndpoint
  BY <1>6, <1>8, Zenon DEF U!MakeEndpoint
<1>9. CASE U!DropEndpoint \/ U!CloseEndpoint
  BY <1>3, <1>4, <1>9, Zenon DEF U!DropEndpoint, U!CloseEndpoint
<1>10. CASE U!Send \/ U!Transmit \/ U!start \/ U!stop \/ U!join \/ U!Engine \/ UNCHANGED ucxVars
  <2>1. UNCHANGED <<holders, closing>>
    BY <1>10, CheckIs, Zenon DEF U!Send, U!Transmit, U!start, U!stop, U!join, U!Engine,
       U!Begin, U!Probe, U!Progress, ucxVars
  <2> QED BY <1>5, <2>1
<1> QED BY <1>2, <1>7, <1>8, <1>9, <1>10, Zenon DEF U!Next
-----------------------------------------------------------------------------
(* Each of the places a message goes through holds consecutive ones; all the  *)
(* messages sent are in one of them, unless ~Endpoint failed to flush.        *)
Consecutive(q, n) == q \in Seq(Nat) /\ \A i \in 1 .. Len(q) : q[i] = n + i

MessagesInv ==
  /\ posts \in Nat /\ Consecutive(handled, 0)
  /\ Consecutive(unexpected, Len(handled))
  /\ Consecutive(inbox, Len(handled) + Len(unexpected))
  /\ Consecutive(wire, Len(handled) + Len(unexpected) + Len(inbox))
  /\ Len(handled) + Len(unexpected) + Len(inbox) + Len(wire) <= posts
  /\ (closing # "failed" => Len(handled) + Len(unexpected) + Len(inbox) + Len(wire) = posts)

(* An engine that leaves its probe after stop has handled what was there. *)
StopInv ==
  /\ atStop \in Nat /\ atStop <= Len(handled) + Len(unexpected)
  /\ (~m_running /\ fiber \in {"progress", "check", "done"} => atStop <= Len(handled))
  /\ (m_running => fiber \notin {"none", "done"})
  /\ (joined => fiber = "done" /\ ~m_running)

(* Queues of consecutive messages: a message is added at the end, ... *)
LEMMA ConsecutiveAppend ==
  ASSUME NEW n \in Nat, NEW q, Consecutive(q, n)
  PROVE  /\ Consecutive(Append(q, n + Len(q) + 1), n)
         /\ Len(Append(q, n + Len(q) + 1)) = Len(q) + 1 /\ Len(q) \in Nat
<1>1. q \in Seq(Nat) /\ Len(q) \in Nat
  BY LenProperties, Zenon DEF Consecutive
<1>2. PICK p : p = Append(q, n + Len(q) + 1)
  BY Zenon
<1>3. /\ p \in Seq(Nat) /\ Len(p) = Len(q) + 1
      /\ \A i \in 1 .. Len(q) : p[i] = q[i]
      /\ p[Len(q) + 1] = n + Len(q) + 1
  BY <1>1, <1>2, AppendProperties, SMTT(30)
<1>4. \A i \in 1 .. Len(p) : i \in 1 .. Len(q) \/ i = Len(q) + 1
  BY ONLY <1>1, <1>3, SMTT(30)
<1>5. ASSUME NEW i \in 1 .. Len(p) PROVE p[i] = n + i
  <2>1. CASE i \in 1 .. Len(q)
    BY <1>3, <2>1, Zenon DEF Consecutive
  <2>2. CASE i = Len(q) + 1
    BY ONLY <1>1, <1>3, <2>2, n \in Nat, SMTT(30)
  <2> QED BY <1>4, <2>1, <2>2, Zenon
<1> QED BY <1>1, <1>2, <1>3, <1>5, Zenon DEF Consecutive

(* ... or taken from the front, ... *)
LEMMA ConsecutiveTail ==
  ASSUME NEW n \in Nat, NEW q, Consecutive(q, n), q # <<>>
  PROVE  /\ Head(q) = n + 1 /\ Consecutive(Tail(q), n + 1)
         /\ Len(Tail(q)) = Len(q) - 1 /\ Len(q) \in Nat \ {0}
<1>1. q \in Seq(Nat)
  BY Zenon DEF Consecutive
<1>2. Len(q) \in Nat \ {0}
  BY <1>1, EmptySeq, Zenon
<1>3. /\ Tail(q) \in Seq(Nat) /\ Len(Tail(q)) = Len(q) - 1
      /\ \A i \in 1 .. Len(Tail(q)) : Tail(q)[i] = q[i + 1]
  BY <1>1, HeadTailProperties, Zenon
<1>4. Head(q) = q[1] /\ 1 \in 1 .. Len(q)
  BY <1>1, <1>2, SMTT(30)
<1>5. \A i \in 1 .. Len(q) - 1 : i + 1 \in 1 .. Len(q) /\ n + (i + 1) = (n + 1) + i
  BY <1>2, SMTT(30)
<1>6. Head(q) = n + 1
  BY <1>4, Zenon DEF Consecutive
<1>7. Consecutive(Tail(q), n + 1)
  BY <1>3, <1>5, Zenon DEF Consecutive
<1> QED BY <1>2, <1>3, <1>6, <1>7, Zenon

(* ... or the last ones are lost, ... *)
LEMMA ConsecutivePrefix ==
  ASSUME NEW n \in Nat, NEW q, Consecutive(q, n), NEW k \in 0 .. Len(q)
  PROVE  Consecutive(SubSeq(q, 1, k), n) /\ Len(SubSeq(q, 1, k)) = k
<1>1. q \in Seq(Nat) /\ Len(q) \in Nat /\ \A i \in 1 .. Len(q) : q[i] = n + i
  BY LenProperties, Zenon DEF Consecutive
<1>2. k \in Nat /\ \A i \in 1 .. k : i \in 1 .. Len(q) /\ n + i \in Nat
  BY ONLY <1>1, n \in Nat, k \in 0 .. Len(q), SMTT(30)
<1>3. \A i \in 1 .. k : q[i] = n + i /\ q[i] \in Nat
  BY <1>1, <1>2, Zenon
<1>4. PICK p : p = SubSeq(q, 1, k)
  BY Zenon
<1>5. 1 \in Int /\ k \in Int /\ \A i \in 1 .. k : q[i] \in Nat
  BY <1>2, <1>3, SMTT(30)
<1>6. /\ p \in Seq(Nat) /\ Len(p) = IF 1 <= k THEN k - 1 + 1 ELSE 0
      /\ \A i \in 1 .. k - 1 + 1 : p[i] = q[1 + i - 1]
  BY ONLY <1>4, <1>5, SubSeqProperties, SMTT(30)
<1>7. Len(p) = k /\ \A i \in 1 .. k : i \in 1 .. k - 1 + 1 /\ 1 + i - 1 = i
  BY ONLY <1>2, <1>6, SMTT(30)
<1>8. \A i \in 1 .. Len(p) : p[i] = n + i
  BY <1>3, <1>6, <1>7, Zenon
<1> QED BY <1>4, <1>6, <1>7, <1>8, Zenon DEF Consecutive

(* ... and a whole queue follows another. *)
LEMMA ConsecutiveConcat ==
  ASSUME NEW n \in Nat, NEW p, NEW q, Consecutive(p, n), Consecutive(q, n + Len(p))
  PROVE  Consecutive(p \o q, n) /\ Len(p \o q) = Len(p) + Len(q)
<1>1. p \in Seq(Nat) /\ q \in Seq(Nat) /\ Len(p) \in Nat /\ Len(q) \in Nat
  BY LenProperties, Zenon DEF Consecutive
<1>2. /\ p \o q \in Seq(Nat) /\ Len(p \o q) = Len(p) + Len(q)
      /\ \A i \in 1 .. Len(p) + Len(q) :
           (p \o q)[i] = IF i <= Len(p) THEN p[i] ELSE q[i - Len(p)]
  BY <1>1, ConcatProperties, Zenon
<1>3. ASSUME NEW i \in 1 .. Len(p) + Len(q) PROVE (p \o q)[i] = n + i
  <2>1. CASE i <= Len(p)
    <3>1. i \in 1 .. Len(p)
      BY ONLY <1>1, <1>3, <2>1, SMTT(30)
    <3> QED BY <1>2, <2>1, <3>1, Zenon DEF Consecutive
  <2>2. CASE ~ (i <= Len(p))
    <3>1. i - Len(p) \in 1 .. Len(q) /\ n + Len(p) + (i - Len(p)) = n + i
      BY ONLY <1>1, <1>3, <2>2, n \in Nat, SMTT(30)
    <3>2. q[i - Len(p)] = n + Len(p) + (i - Len(p))
      BY <3>1, Zenon DEF Consecutive
    <3> QED BY <1>2, <2>2, <3>1, <3>2, Zenon
  <2> QED BY <2>1, <2>2, Zenon
<1> QED BY <1>2, <1>3, Zenon DEF Consecutive

(* Before the first send there is no message. *)
LEMMA MessagesStart == U!Init => MessagesInv /\ StopInv
<1> SUFFICES ASSUME U!Init PROVE MessagesInv /\ StopInv
  BY Zenon
<1>1. /\ posts = 0 /\ wire = <<>> /\ inbox = <<>> /\ unexpected = <<>> /\ handled = <<>>
      /\ m_running = FALSE /\ fiber = "none" /\ joined = FALSE /\ atStop = 0
  BY Zenon DEF U!Init
<1>2. <<>> \in Seq(Nat) /\ Len(<<>>) = 0
  BY EmptySeq, Zenon
<1>3. \A n : Consecutive(<<>>, n)
  BY <1>2, SMTT(30) DEF Consecutive
<1>4. MessagesInv
  BY <1>1, <1>2, <1>3, SMTT(30) DEF MessagesInv
<1> QED BY <1>1, <1>2, <1>4, SMTT(30) DEF StopInv

(* Every step keeps the messages in order. *)
LEMMA MessagesKept ==
  ASSUME MessagesInv, EndpointInv, [U!Next]_ucxVars
  PROVE  MessagesInv'
<1> USE DEF U!objects, U!manager, U!messages
<1>0. /\ Consecutive(handled, 0) /\ Consecutive(unexpected, Len(handled))
      /\ Consecutive(inbox, Len(handled) + Len(unexpected))
      /\ Consecutive(wire, Len(handled) + Len(unexpected) + Len(inbox)) /\ posts \in Nat
      /\ Len(handled) + Len(unexpected) + Len(inbox) + Len(wire) <= posts
      /\ (closing # "failed" => Len(handled) + Len(unexpected) + Len(inbox) + Len(wire) = posts)
  BY Zenon DEF MessagesInv
<1>00. /\ Len(handled) \in Nat /\ Len(unexpected) \in Nat /\ Len(inbox) \in Nat
       /\ Len(wire) \in Nat
  BY <1>0, LenProperties, Zenon DEF Consecutive
<1>01. Len(handled) + Len(unexpected) \in Nat /\ Len(handled) + Len(unexpected) + Len(inbox) \in Nat
  BY <1>00, SMTT(30)
<1>1. CASE U!Send
  <2>1. /\ posts' = posts + 1 /\ wire' = Append(wire, posts + 1)
        /\ UNCHANGED <<closing, inbox, unexpected, handled>>
    BY <1>1, Zenon DEF U!Send
  <2>4. Len(handled) + Len(unexpected) + Len(inbox) + Len(wire) = posts
    BY <1>0, <1>1, Zenon DEF U!Send, U!Held, EndpointInv
  <2>2. /\ Consecutive(wire', Len(handled) + Len(unexpected) + Len(inbox))
        /\ Len(wire') = Len(wire) + 1
    BY <1>0, <1>01, <2>1, <2>4, ConsecutiveAppend, Zenon
  <2>3. posts' \in Nat /\ Len(handled) + Len(unexpected) + Len(inbox) + Len(wire') = posts'
        /\ Len(handled) + Len(unexpected) + Len(inbox) + Len(wire') <= posts'
    BY ONLY <1>0, <1>00, <2>1, <2>2, <2>4, SMTT(30)
  <2> QED BY <1>0, <2>1, <2>2, <2>3, Zenon DEF MessagesInv
<1>2. CASE U!Transmit
  <2>1. /\ wire # <<>> /\ inbox' = Append(inbox, Head(wire)) /\ wire' = Tail(wire)
        /\ UNCHANGED <<closing, posts, unexpected, handled>>
    BY <1>2, Zenon DEF U!Transmit
  <2>2. /\ Head(wire) = Len(handled) + Len(unexpected) + Len(inbox) + 1
        /\ Consecutive(wire', Len(handled) + Len(unexpected) + Len(inbox) + 1)
        /\ Len(wire') = Len(wire) - 1
    BY <1>0, <1>01, <2>1, ConsecutiveTail, Zenon
  <2>3. /\ Consecutive(inbox', Len(handled) + Len(unexpected)) /\ Len(inbox') = Len(inbox) + 1
    BY <1>0, <1>01, <2>1, <2>2, ConsecutiveAppend, Zenon
  <2>4. /\ Len(handled) + Len(unexpected) + Len(inbox) + 1
             = Len(handled) + Len(unexpected) + Len(inbox')
        /\ Len(handled) + Len(unexpected) + Len(inbox') + Len(wire')
             = Len(handled) + Len(unexpected) + Len(inbox) + Len(wire)
    BY ONLY <1>00, <2>2, <2>3, SMTT(30)
  <2> QED BY <1>0, <2>1, <2>2, <2>3, <2>4, Zenon DEF MessagesInv
<1>3. CASE U!Probe
  <2>1. CASE unexpected # <<>>
    <3>1. /\ handled' = Append(handled, Head(unexpected)) /\ unexpected' = Tail(unexpected)
          /\ UNCHANGED <<closing, posts, inbox, wire>>
      BY <1>3, <2>1, Zenon DEF U!Probe
    <3>2. /\ Head(unexpected) = Len(handled) + 1 /\ Consecutive(unexpected', Len(handled) + 1)
          /\ Len(unexpected') = Len(unexpected) - 1
      BY <1>0, <1>00, <2>1, <3>1, ConsecutiveTail, Zenon
    <3>3. 0 + Len(handled) + 1 = Len(handled) + 1 /\ 0 \in Nat
      BY <1>00, SMTT(30)
    <3>4. Consecutive(handled', 0) /\ Len(handled') = Len(handled) + 1
      BY <1>0, <3>1, <3>2, <3>3, ConsecutiveAppend, Zenon
    <3>5. Len(handled') + Len(unexpected') = Len(handled) + Len(unexpected)
      BY ONLY <1>00, <3>2, <3>4, SMTT(30)
    <3> QED BY <1>0, <3>1, <3>2, <3>4, <3>5, Zenon DEF MessagesInv
  <2>2. CASE unexpected = <<>>
    <3>1. UNCHANGED <<closing, posts, wire, inbox, unexpected, handled>>
      BY <1>3, <2>2, Zenon DEF U!Probe
    <3> QED BY <1>0, <3>1, Zenon DEF MessagesInv
  <2> QED BY <2>1, <2>2, Zenon
<1>4. CASE U!Progress
  <2>1. CASE inbox # <<>>
    <3>1. /\ unexpected' = unexpected \o inbox /\ inbox' = <<>>
          /\ UNCHANGED <<closing, posts, wire, handled>>
      BY <1>4, <2>1, Zenon DEF U!Progress
    <3>2. /\ Consecutive(unexpected', Len(handled))
          /\ Len(unexpected') = Len(unexpected) + Len(inbox)
      BY <1>0, <1>00, <3>1, ConsecutiveConcat, SMTT(30)
    <3>3. inbox' \in Seq(Nat) /\ Len(inbox') = 0
      BY <3>1, EmptySeq, Zenon
    <3>4. Consecutive(inbox', Len(handled') + Len(unexpected'))
      BY <3>3, SMTT(30) DEF Consecutive
    <3>5. /\ Len(handled) + Len(unexpected') + Len(inbox')
               = Len(handled) + Len(unexpected) + Len(inbox)
      BY ONLY <1>00, <3>2, <3>3, SMTT(30)
    <3> QED BY <1>0, <3>1, <3>2, <3>4, <3>5, Zenon DEF MessagesInv
  <2>2. CASE inbox = <<>>
    <3>1. UNCHANGED <<closing, posts, wire, inbox, unexpected, handled>>
      BY <1>4, <2>2, Zenon DEF U!Progress
    <3> QED BY <1>0, <3>1, Zenon DEF MessagesInv
  <2> QED BY <2>1, <2>2, Zenon
<1>5. CASE UNCHANGED <<posts, wire, inbox, unexpected, handled>> /\ (closing = "failed" => closing' = "failed")
  BY <1>0, <1>5, Zenon DEF MessagesInv
<1>6. CASE closing' = "failed" /\ U!DropEndpoint
  <2>1. PICK k \in 0 .. Len(wire) : wire' = SubSeq(wire, 1, k) \/ wire' = wire
    BY <1>00, <1>6, SMTT(30) DEF U!DropEndpoint
  <2>2. UNCHANGED <<posts, inbox, unexpected, handled>>
    BY <1>6, Zenon DEF U!DropEndpoint
  <2>3. /\ Consecutive(wire', Len(handled) + Len(unexpected) + Len(inbox))
        /\ (Len(wire') = k \/ Len(wire') = Len(wire))
    <3>1. CASE wire' = SubSeq(wire, 1, k)
      <4>1. PICK n \in Nat : n = Len(handled) + Len(unexpected) + Len(inbox)
        BY <1>01, Zenon
      <4>2. Consecutive(wire, n) /\ k \in 0 .. Len(wire)
        BY <1>0, <4>1, Zenon
      <4>3. Consecutive(SubSeq(wire, 1, k), n) /\ Len(SubSeq(wire, 1, k)) = k
        BY ONLY n \in Nat, <4>2, ConsecutivePrefix, Zenon
      <4> QED BY <3>1, <4>1, <4>3, Zenon
    <3>2. CASE wire' = wire
      BY <1>0, <3>2, Zenon
    <3> QED BY <2>1, <3>1, <3>2, Zenon
  <2>4. Len(handled) + Len(unexpected) + Len(inbox) + Len(wire') <= posts
    BY ONLY <1>0, <1>00, <2>3, k \in 0 .. Len(wire), SMTT(30)
  <2> QED BY <1>0, <1>6, <2>2, <2>3, <2>4, Zenon DEF MessagesInv
<1>7. U!DropEndpoint =>
        \/ closing' = "failed"
        \/ UNCHANGED <<posts, wire, inbox, unexpected, handled>> /\ closing = "no"
  BY Zenon DEF U!DropEndpoint, U!EndpointGone, U!Held, EndpointInv
<1>8. U!Next => \/ U!Send \/ U!Transmit \/ U!Probe \/ U!Progress \/ U!DropEndpoint
                \/ /\ UNCHANGED <<posts, wire, inbox, unexpected, handled>>
                   /\ (closing = "failed" => closing' = "failed")
  BY CheckIs, Zenon DEF U!Next, U!Engine, U!MakeContext, U!MakeWorker, U!MakeEndpoint, U!MakeManager,
     U!Drop, U!CloseEndpoint, U!EndpointGone, U!start, U!stop, U!join, U!Begin
<1> QED BY <1>1, <1>2, <1>3, <1>4, <1>5, <1>6, <1>7, <1>8, Zenon DEF ucxVars

(* What has reached the worker stays with it, and what is handled stays so. *)
LEMMA ReachedGrows ==
  ASSUME MessagesInv, [U!Next]_ucxVars
  PROVE  /\ Len(handled) \in Nat /\ Len(unexpected) \in Nat
         /\ Len(handled') \in Nat /\ Len(unexpected') \in Nat /\ Len(handled) <= Len(handled')
         /\ Len(handled) + Len(unexpected) <= Len(handled') + Len(unexpected')
<1> USE DEF U!objects, U!manager, U!messages
<1>0. /\ Consecutive(handled, 0) /\ Consecutive(unexpected, Len(handled))
      /\ Consecutive(inbox, Len(handled) + Len(unexpected))
  BY Zenon DEF MessagesInv
<1>1. /\ Len(handled) \in Nat /\ Len(unexpected) \in Nat /\ Len(inbox) \in Nat
      /\ handled \in Seq(Nat) /\ unexpected \in Seq(Nat) /\ inbox \in Seq(Nat)
  BY <1>0, LenProperties, Zenon DEF Consecutive
<1>2. \/ UNCHANGED <<handled, unexpected>>
      \/ /\ unexpected # <<>> /\ handled' = Append(handled, Head(unexpected))
         /\ unexpected' = Tail(unexpected)
      \/ unexpected' = unexpected \o inbox /\ handled' = handled
  BY CheckIs, Zenon DEF U!Next, U!Engine, U!MakeContext, U!MakeWorker, U!MakeEndpoint, U!MakeManager,
     U!Drop, U!DropEndpoint, U!CloseEndpoint, U!Send, U!Transmit, U!start, U!stop, U!join,
     U!Begin, U!Probe, U!Progress, ucxVars
<1> QED BY <1>1, <1>2, SMTT(30)

(* Every step keeps what stop promises, if the engine's fiber runs on the     *)
(* thread of the user.                                                       *)
LEMMA StopKept ==
  ASSUME SameThread, MessagesInv, StopInv, [U!Next]_ucxVars
  PROVE  StopInv'
<1> USE DEF U!objects, U!manager, U!messages
<1>0. /\ Len(handled) \in Nat /\ Len(unexpected) \in Nat
      /\ Len(handled') \in Nat /\ Len(unexpected') \in Nat /\ Len(handled) <= Len(handled')
      /\ Len(handled) + Len(unexpected) <= Len(handled') + Len(unexpected')
  BY ReachedGrows
<1>1. CASE U!stop
  <2>1. /\ m_running /\ ~ m_running' /\ fiber \notin {"progress", "check"}
        /\ atStop' = Len(handled) + Len(unexpected)
        /\ UNCHANGED <<handled, unexpected, fiber, joined>>
    BY <1>1, Zenon DEF U!stop, U!UserRuns
  <2>2. fiber \notin {"progress", "check", "done"} /\ ~joined
    BY <2>1, Zenon DEF StopInv
  <2>3. atStop' \in Nat /\ atStop' <= Len(handled') + Len(unexpected')
    BY ONLY <1>0, <2>1, SMTT(30)
  <2> QED BY <2>1, <2>2, <2>3, Zenon DEF StopInv
<1>2. CASE UNCHANGED atStop
  <2>1. atStop' \in Nat /\ atStop' <= Len(handled') + Len(unexpected')
    BY <1>0, <1>2, SMTT(30) DEF StopInv
  <2>2. atStop <= Len(handled) => atStop' <= Len(handled')
    BY <1>0, <1>2, SMTT(30) DEF StopInv
  <2>3. CASE U!start
    BY <2>1, <2>3, Zenon DEF U!start, StopInv
  <2>4. CASE U!join
    BY <2>1, <2>2, <2>4, Zenon DEF U!join, StopInv
  <2>5. CASE U!Probe
    <3>1. CASE unexpected # <<>>
      <4>1. fiber' = "probe" /\ fiber = "probe" /\ UNCHANGED <<m_running, joined>>
        BY <2>5, <3>1, Zenon DEF U!Probe
      <4> QED BY <2>1, <4>1, Zenon DEF StopInv
    <3>2. CASE unexpected = <<>>
      <4>1. fiber' = "progress" /\ fiber = "probe" /\ UNCHANGED <<m_running, joined, handled>>
        BY <2>5, <3>2, Zenon DEF U!Probe
      <4>2. Len(unexpected) = 0
        BY <3>2, EmptySeq, Zenon
      <4>3. atStop <= Len(handled)
        BY <1>0, <4>2, SMTT(30) DEF StopInv
      <4> QED BY <2>1, <2>2, <4>1, <4>3, Zenon DEF StopInv
    <3> QED BY <3>1, <3>2, Zenon
  <2>6. CASE U!Begin
    BY <2>1, <2>6, Zenon DEF U!Begin, StopInv
  <2>7. CASE U!Progress
    <3>1. /\ fiber = "progress" /\ fiber' \in {"progress", "check"}
          /\ UNCHANGED <<m_running, joined>>
      BY <2>7, Zenon DEF U!Progress
    <3> QED BY <2>1, <2>2, <3>1, Zenon DEF StopInv
  <2>8. CASE U!Check
    <3>1. /\ fiber = "check" /\ UNCHANGED <<m_running, joined>>
          /\ (m_running => fiber' = "probe") /\ (~m_running => fiber' = "done")
      BY <2>8, CheckIs, Zenon
    <3> QED BY <2>1, <2>2, <3>1, Zenon DEF StopInv
  <2>9. CASE UNCHANGED <<m_running, fiber, joined>>
    BY <2>1, <2>2, <2>9, Zenon DEF StopInv
  <2>10. U!Next => \/ U!start \/ U!stop \/ U!join \/ U!Begin \/ U!Probe \/ U!Progress
                   \/ U!Check \/ UNCHANGED <<m_running, fiber, joined>>
    BY Zenon DEF U!Next, U!Engine, U!MakeContext, U!MakeWorker, U!MakeEndpoint,
       U!MakeManager, U!Drop, U!DropEndpoint, U!CloseEndpoint, U!Send, U!Transmit
  <2> QED BY <1>1, <2>3, <2>4, <2>5, <2>6, <2>7, <2>8, <2>9, <2>10, Zenon DEF ucxVars
<1>3. U!Next => U!stop \/ UNCHANGED atStop
  BY CheckIs, Zenon DEF U!Next, U!Engine, U!MakeContext, U!MakeWorker, U!MakeEndpoint, U!MakeManager,
     U!Drop, U!DropEndpoint, U!CloseEndpoint, U!Send, U!Transmit, U!start, U!join, U!Begin,
     U!Probe, U!Progress
<1> QED BY <1>1, <1>2, <1>3, Zenon DEF ucxVars

(* All the messages there are, from the oldest, are the first of those sent. *)
LEMMA AllInOrder ==
  ASSUME MessagesInv, NEW n, n = Len(handled) + Len(unexpected) + Len(inbox) + Len(wire)
  PROVE  /\ handled \o unexpected \o inbox \o wire = [k \in 1 .. n |-> k]
         /\ n \in 0 .. posts /\ (closing # "failed" => n = posts)
<1>0. /\ Consecutive(handled, 0) /\ Consecutive(unexpected, Len(handled))
      /\ Consecutive(inbox, Len(handled) + Len(unexpected))
      /\ Consecutive(wire, Len(handled) + Len(unexpected) + Len(inbox)) /\ posts \in Nat
      /\ Len(handled) + Len(unexpected) + Len(inbox) + Len(wire) <= posts
      /\ (closing # "failed" => Len(handled) + Len(unexpected) + Len(inbox) + Len(wire) = posts)
  BY Zenon DEF MessagesInv
<1>1. /\ Len(handled) \in Nat /\ Len(unexpected) \in Nat /\ Len(inbox) \in Nat
      /\ Len(wire) \in Nat
  BY <1>0, LenProperties, Zenon DEF Consecutive
<1>2. n \in Nat /\ n \in 0 .. posts /\ (closing # "failed" => n = posts)
      /\ \A m \in Nat : 0 + m = m
  BY <1>0, <1>1, SMTT(30)
<1>3. Len(handled) + Len(unexpected) \in Nat /\ Len(handled) + Len(unexpected) + Len(inbox) \in Nat
  BY <1>1, SMTT(30)
<1> DEFINE hu == handled \o unexpected
           hui == hu \o inbox
           all == hui \o wire
<1>4. Consecutive(hu, 0) /\ Len(hu) = Len(handled) + Len(unexpected)
  BY <1>0, <1>1, <1>2, ConsecutiveConcat, SMTT(30)
<1> HIDE DEF hu
<1>5. Consecutive(hui, 0) /\ Len(hui) = Len(handled) + Len(unexpected) + Len(inbox)
  BY <1>0, <1>1, <1>2, <1>3, <1>4, ConsecutiveConcat, SMTT(30)
<1> HIDE DEF hui
<1>6. Consecutive(all, 0) /\ Len(all) = n
  BY <1>0, <1>1, <1>2, <1>3, <1>5, ConsecutiveConcat, SMTT(30)
<1> HIDE DEF all
<1>7. all = [k \in 1 .. n |-> k]
  <2>1. /\ all \in Seq(Nat) /\ \A i \in 1 .. n : all[i] = i
    BY <1>2, <1>6, SMTT(30) DEF Consecutive
  <2>2. all = [i \in 1 .. n |-> all[i]]
    BY <1>2, <1>6, <2>1, SMTT(30)
  <2> QED BY <2>1, <2>2, Zenon
<1> QED BY <1>2, <1>7, Zenon DEF all, hui, hu

(* UCX handles go in the order UCX asks for, messages are handled once and in *)
(* order, all of them unless ~Endpoint fails to flush, and those that had     *)
(* reached the worker when stop was called have been handled when join        *)
(* returns, for every number of messages and every order in which the user    *)
(* drops the objects, if the manager is joined before it is dropped and its   *)
(* fiber runs on the thread that calls stop.                                  *)
THEOREM TransportIsSound == Joins /\ SameThread => (RpcSpec => []TransportSound)
<1> SUFFICES ASSUME Joins, SameThread PROVE RpcSpec => []TransportSound
  BY Zenon
<1>1. RpcInit => HandlesInv /\ EndpointInv /\ MessagesInv /\ StopInv
  BY HandlesStart, MessagesStart, Zenon DEF RpcInit, U!Init, EndpointInv
<1>2. HandlesInv /\ EndpointInv /\ MessagesInv /\ StopInv /\ [RpcNext]_allVars
        => HandlesInv' /\ EndpointInv' /\ MessagesInv' /\ StopInv'
  <2>1. [RpcNext]_allVars => [U!Next]_ucxVars
    BY Zenon DEF RpcNext, ServerStep, SingleStep, UcxStep, allVars
  <2> QED BY <2>1, HandlesKept, EndpointKept, MessagesKept, StopKept, Zenon
<1>3. HandlesInv /\ MessagesInv /\ StopInv => TransportSound
  <2> SUFFICES ASSUME HandlesInv, MessagesInv, StopInv PROVE TransportSound
    BY Zenon
  <2>1. U!HandlesInOrder
    <3>1. Kept(holders, native) /\ (fiber \notin {"none", "done"} => holders["manager"] # {})
      BY Zenon DEF HandlesInv, Settled
    <3> QED BY <3>1, SMTT(30) DEF Kept, U!HandlesInOrder, U!Workers
  <2>2. joined => Len(handled) >= atStop
    <3>1. Len(handled) \in Nat /\ atStop \in Nat
      BY LenProperties, Zenon DEF MessagesInv, Consecutive, StopInv
    <3>2. joined => atStop <= Len(handled)
      BY Zenon DEF StopInv
    <3> QED BY <3>1, <3>2, SMTT(30)
  <2>3. \E n \in 0 .. posts :
          /\ handled \o unexpected \o inbox \o wire = [k \in 1 .. n |-> k]
          /\ (closing # "failed" => n = posts)
    BY AllInOrder, Zenon
  <2> QED BY <2>1, <2>2, <2>3, Zenon DEF TransportSound, U!TransportSound, U!StopDrains
<1> QED BY <1>1, <1>2, <1>3, PTL DEF RpcSpec
=============================================================================
