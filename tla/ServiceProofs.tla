--------------------------- MODULE ServiceProofs ---------------------------
(***************************************************************************)
(* The promises of Service for any number of clients and workers: the      *)
(* owner is a client, and no client is a worker.                           *)
(***************************************************************************)
EXTENDS Service, TLAPS

ServiceAssumption == Owner \in Clients /\ Clients \cap Workers = {}

Joining   == {"join", "complete", "djoined", "dcomplete"}
Destroying == {"seen", "dkill", "djoin", "djoined", "dcomplete", "dcheck", "dead"}

(* Where clients and workers can be: a worker only ever calls service_kill,  *)
(* and the owner alone is in the destructor.                                 *)
Places ==
  /\ \A w \in Workers : pc[w] \in {"idle", "kill"}
  /\ \A c \in Clients : c # Owner => pc[c] \notin Destroying
  /\ InDestructor => \A c \in Clients : c # Owner => pc[c] = "idle"

(* One caller starts the service, and nothing runs before. *)
StartsOnce ==
  /\ \A c, d \in Callers : pc[c] = "start" /\ pc[d] = "start" => c = d
  /\ \A c \in Callers : pc[c] = "start" => begun = 0
  /\ m_state = Initialized => working = {} /\ begun = 0 /\ \A c \in Callers : pc[c] # "start"

(* A join is entered after the start, so that nothing runs once it is over. *)
JoinsLast ==
  /\ \A c \in Callers : pc[c] \in Joining
                          => m_state >= Awaiting /\ \A d \in Callers : pc[d] # "start"
  /\ \A c \in Callers : pc[c] \in {"complete", "dcomplete"} => joined /\ working = {}
  /\ m_state = Completed => joined /\ working = {} /\ \A c \in Callers : pc[c] # "start"

(* The copy call_in_destructor made of Initialized or Completed stays true,  *)
(* and at the end of the destructor the state is one of the two.             *)
CopyHolds ==
  /\ pc[Owner] \in {"seen", "dkill", "djoin"} /\ seen \in {Initialized, Completed}
       => m_state = seen
  /\ pc[Owner] \in {"dcheck", "dead"} => m_state \in {Initialized, Completed}
  /\ fatal # "destructor"

IInv == TypeOK /\ Places /\ StartsOnce /\ JoinsLast /\ CopyHolds /\ KillDelivered
-----------------------------------------------------------------------------
(* A service that has just been constructed satisfies the invariant: it is
   Initialized and no caller is between the mutex and a do_ hook. *)
LEMMA ServiceInit == ASSUME ServiceAssumption, Init PROVE IInv
<1> USE DEF Initialized, Running, Awaiting, Stopping, Killing, Completed
<1>1. \A c \in Callers : pc[c] = "idle"
  BY Zenon DEF Init
<1>2. Owner \in Callers /\ Clients \subseteq Callers /\ Workers \subseteq Callers
  BY Zenon DEF ServiceAssumption, Callers
<1>3. TypeOK
  <2>1. pc \in [Callers -> PCs] /\ m_state \in 0 .. 5 /\ seen \in 0 .. 5 /\ begun \in 0 .. 1
    BY SMTT(30) DEF Init, PCs
  <2> QED BY <2>1, Zenon DEF Init, TypeOK
<1>4. Places /\ StartsOnce /\ JoinsLast /\ CopyHolds /\ KillDelivered
  BY <1>1, <1>2, SMTT(30) DEF Init, Places, StartsOnce, JoinsLast, CopyHolds, KillDelivered, InDestructor,
     Joining, Destroying
<1> QED BY <1>3, <1>4, Zenon DEF IInv

(* service_start, and do_service_start, which only the first caller reaches. *)
LEMMA StartKeeps ==
  ASSUME ServiceAssumption, IInv, NEW c \in Callers, ServiceStart(c) \/ DoServiceStart(c)
  PROVE  IInv'
<1> USE DEF Initialized, Running, Awaiting, Stopping, Killing, Completed
<1>1. CASE ServiceStart(c)
  <2> USE <1>1 DEF ServiceStart, ForwardState, Abort, MayCall, At, GoTo
  <2>1. TypeOK'
    BY SMTT(30) DEF IInv, TypeOK, PCs, history
  <2>2. Places'
    BY Zenon DEF IInv, TypeOK, Places, InDestructor, Destroying, Callers, ServiceAssumption
  <2>3. StartsOnce'
    BY SMTT(30) DEF IInv, TypeOK, StartsOnce, history
  <2>4. JoinsLast'
    BY SMTT(30) DEF IInv, TypeOK, JoinsLast, Joining, history
  <2>5. CopyHolds'
    BY Zenon DEF IInv, TypeOK, CopyHolds, InDestructor, ServiceAssumption, Callers
  <2>6. KillDelivered'
    BY SMTT(30) DEF IInv, TypeOK, KillDelivered, history
  <2> QED BY <2>1, <2>2, <2>3, <2>4, <2>5, <2>6, Zenon DEF IInv
<1>2. CASE DoServiceStart(c)
  <2> USE <1>2 DEF DoServiceStart, At, GoTo
  <2>1. TypeOK'
    BY SMTT(30) DEF IInv, TypeOK, PCs, StartsOnce
  <2>2. Places'
    BY Zenon DEF IInv, TypeOK, Places, InDestructor, Destroying, Callers, ServiceAssumption
  <2>3. StartsOnce'
    BY Zenon DEF IInv, TypeOK, StartsOnce
  <2>4. JoinsLast'
    BY Zenon DEF IInv, TypeOK, JoinsLast, Joining
  <2>5. CopyHolds'
    BY Zenon DEF IInv, TypeOK, CopyHolds, ServiceAssumption, Callers
  <2>6. KillDelivered'
    BY Zenon DEF IInv, TypeOK, KillDelivered
  <2> QED BY <2>1, <2>2, <2>3, <2>4, <2>5, <2>6, Zenon DEF IInv
<1> QED BY <1>1, <1>2, Zenon

(* service_stop and do_service_stop. *)
LEMMA StopKeeps ==
  ASSUME ServiceAssumption, IInv, NEW c \in Callers, ServiceStop(c) \/ DoServiceStop(c)
  PROVE  IInv'
<1> USE DEF Initialized, Running, Awaiting, Stopping, Killing, Completed
<1>1. CASE ServiceStop(c)
  <2> USE <1>1 DEF ServiceStop, MayCall, At, GoTo
  <2>1. TypeOK'
    BY SMTT(30) DEF IInv, TypeOK, PCs, history
  <2>2. Places'
    BY SMTT(30) DEF IInv, TypeOK, Places, InDestructor, Destroying, Callers, ServiceAssumption
  <2>3. StartsOnce'
    BY SMTT(30) DEF IInv, TypeOK, StartsOnce, JoinsLast, Places, Callers, history
  <2>4. JoinsLast'
    BY SMTT(30) DEF IInv, TypeOK, JoinsLast, Joining, Places, Callers, ServiceAssumption, history
  <2>5. CopyHolds'
    BY Zenon DEF IInv, TypeOK, CopyHolds, JoinsLast, StartsOnce, InDestructor, ServiceAssumption, Callers
  <2>6. KillDelivered'
    BY SMTT(30) DEF IInv, TypeOK, KillDelivered, Callers, ServiceAssumption, history
  <2> QED BY <2>1, <2>2, <2>3, <2>4, <2>5, <2>6, Zenon DEF IInv
<1>2. CASE DoServiceStop(c)
  <2> USE <1>2 DEF DoServiceStop, At, GoTo
  <2>1. TypeOK'
    BY Zenon DEF IInv, TypeOK, PCs, history
  <2>2. Places'
    BY Zenon DEF IInv, TypeOK, Places, InDestructor, Destroying, Callers, ServiceAssumption
  <2>3. StartsOnce'
    BY Zenon DEF IInv, TypeOK, StartsOnce, JoinsLast, Places, Callers, history
  <2>4. JoinsLast'
    BY Zenon DEF IInv, TypeOK, JoinsLast, Joining, Places, Callers, ServiceAssumption, history
  <2>5. CopyHolds'
    BY Zenon DEF IInv, TypeOK, CopyHolds, JoinsLast, StartsOnce, InDestructor, ServiceAssumption, Callers
  <2>6. KillDelivered'
    BY Zenon DEF IInv, TypeOK, KillDelivered, Callers, ServiceAssumption, history
  <2> QED BY <2>1, <2>2, <2>3, <2>4, <2>5, <2>6, Zenon DEF IInv
<1> QED BY <1>1, <1>2, Zenon

(* service_kill, called by clients and by running workers, and do_service_kill. *)
LEMMA KillKeeps ==
  ASSUME ServiceAssumption, IInv, NEW c \in Callers, ServiceKill(c) \/ DoServiceKill(c)
  PROVE  IInv'
<1> USE DEF Initialized, Running, Awaiting, Stopping, Killing, Completed
<1>1. CASE ServiceKill(c)
  <2> USE <1>1 DEF ServiceKill, KillLocked, MayCall, At, GoTo
  <2>1. TypeOK'
    BY SMTT(30) DEF IInv, TypeOK, PCs, history
  <2>2. Places'
    BY Zenon DEF IInv, TypeOK, Places, InDestructor, Destroying, Callers, ServiceAssumption
  <2>3. StartsOnce'
    BY SMTT(30) DEF IInv, TypeOK, StartsOnce, JoinsLast, Places, Callers, history
  <2>4. JoinsLast'
    BY SMTT(30) DEF IInv, TypeOK, JoinsLast, Joining, Places, Callers, ServiceAssumption, history
  <2>5. CopyHolds'
    BY Zenon DEF IInv, TypeOK, CopyHolds, JoinsLast, StartsOnce, InDestructor, ServiceAssumption, Callers
  <2>6. KillDelivered'
    BY Zenon DEF IInv, TypeOK, KillDelivered, Callers, ServiceAssumption, history
  <2> QED BY <2>1, <2>2, <2>3, <2>4, <2>5, <2>6, Zenon DEF IInv
<1>2. CASE DoServiceKill(c)
  <2> USE <1>2 DEF DoServiceKill, At, GoTo
  <2>1. TypeOK'
    BY Zenon DEF IInv, TypeOK, PCs, history
  <2>2. Places'
    BY Zenon DEF IInv, TypeOK, Places, InDestructor, Destroying, Callers, ServiceAssumption
  <2>3. StartsOnce'
    BY Zenon DEF IInv, TypeOK, StartsOnce, JoinsLast, Places, Callers, history
  <2>4. JoinsLast'
    BY SMTT(30) DEF IInv, TypeOK, JoinsLast, Joining, Places, Callers, ServiceAssumption, history
  <2>5. CopyHolds'
    BY Zenon DEF IInv, TypeOK, CopyHolds, JoinsLast, StartsOnce, InDestructor, ServiceAssumption, Callers
  <2>6. KillDelivered'
    BY Zenon DEF IInv, TypeOK, KillDelivered, Callers, ServiceAssumption, history
  <2> QED BY <2>1, <2>2, <2>3, <2>4, <2>5, <2>6, Zenon DEF IInv
<1> QED BY <1>1, <1>2, Zenon

(* service_await_join with its three parts, and a join that throws. *)
LEMMA JoinKeeps ==
  ASSUME ServiceAssumption, IInv, NEW c \in Callers, ServiceAwaitJoin(c) \/ DoServiceAwaitJoin(c) \/ JoinThrows(c) \/ ServiceComplete(c)
  PROVE  IInv'
<1> USE DEF Initialized, Running, Awaiting, Stopping, Killing, Completed
<1>1. CASE ServiceAwaitJoin(c)
  <2> USE <1>1 DEF ServiceAwaitJoin, JoinLocked, MayCall, At, GoTo
  <2>1. TypeOK'
    BY SMTT(30) DEF IInv, TypeOK, PCs, history
  <2>2. Places'
    BY Zenon DEF IInv, TypeOK, Places, InDestructor, Destroying, Callers, ServiceAssumption
  <2>3. StartsOnce'
    BY SMTT(30) DEF IInv, TypeOK, StartsOnce, JoinsLast, Places, Callers, history
  <2>4. JoinsLast'
    BY SMTT(30) DEF IInv, TypeOK, JoinsLast, Joining, Places, Callers, ServiceAssumption, history
  <2>5. CopyHolds'
    BY Zenon DEF IInv, TypeOK, CopyHolds, JoinsLast, StartsOnce, InDestructor, ServiceAssumption, Callers
  <2>6. KillDelivered'
    BY SMTT(30) DEF IInv, TypeOK, KillDelivered, Callers, ServiceAssumption, history
  <2> QED BY <2>1, <2>2, <2>3, <2>4, <2>5, <2>6, Zenon DEF IInv
<1>2. CASE DoServiceAwaitJoin(c)
  <2> USE <1>2 DEF DoServiceAwaitJoin, At, GoTo
  <2>1. TypeOK'
    BY Zenon DEF IInv, TypeOK, PCs, history
  <2>2. Places'
    BY Zenon DEF IInv, TypeOK, Places, InDestructor, Destroying, Callers, ServiceAssumption
  <2>3. StartsOnce'
    BY Zenon DEF IInv, TypeOK, StartsOnce, JoinsLast, Places, Callers, history
  <2>4. JoinsLast'
    BY SMTT(30) DEF IInv, TypeOK, JoinsLast, Joining, Places, Callers, ServiceAssumption, history
  <2>5. CopyHolds'
    BY Zenon DEF IInv, TypeOK, CopyHolds, JoinsLast, StartsOnce, InDestructor, ServiceAssumption, Callers
  <2>6. KillDelivered'
    BY Zenon DEF IInv, TypeOK, KillDelivered, Callers, ServiceAssumption, history
  <2> QED BY <2>1, <2>2, <2>3, <2>4, <2>5, <2>6, Zenon DEF IInv
<1>3. CASE JoinThrows(c)
  <2> USE <1>3 DEF JoinThrows, Abort, At, GoTo
  <2>1. TypeOK'
    BY Zenon DEF IInv, TypeOK, PCs, history
  <2>2. Places'
    BY Zenon DEF IInv, TypeOK, Places, InDestructor, Destroying, Callers, ServiceAssumption
  <2>3. StartsOnce'
    BY Zenon DEF IInv, TypeOK, StartsOnce, JoinsLast, Places, Callers, history
  <2>4. JoinsLast'
    BY Zenon DEF IInv, TypeOK, JoinsLast, Joining, Places, Callers, ServiceAssumption, history
  <2>5. CopyHolds'
    BY Zenon DEF IInv, TypeOK, CopyHolds, JoinsLast, StartsOnce, InDestructor, ServiceAssumption, Callers
  <2>6. KillDelivered'
    BY Zenon DEF IInv, TypeOK, KillDelivered, Callers, ServiceAssumption, history
  <2> QED BY <2>1, <2>2, <2>3, <2>4, <2>5, <2>6, Zenon DEF IInv
<1>4. CASE ServiceComplete(c)
  <2> USE <1>4 DEF ServiceComplete, ForwardState, Abort, At, GoTo
  <2>1. TypeOK'
    BY SMTT(30) DEF IInv, TypeOK, PCs, history
  <2>2. Places'
    BY Zenon DEF IInv, TypeOK, Places, InDestructor, Destroying, Callers, ServiceAssumption
  <2>3. StartsOnce'
    BY SMTT(30) DEF IInv, TypeOK, StartsOnce, JoinsLast, Places, Callers, history
  <2>4. JoinsLast'
    BY SMTT(30) DEF IInv, TypeOK, JoinsLast, Joining, Places, Callers, ServiceAssumption, history
  <2>5. CopyHolds'
    BY SMTT(30) DEF IInv, TypeOK, CopyHolds, Places, InDestructor, ServiceAssumption, Callers
  <2>6. KillDelivered'
    BY SMTT(30) DEF IInv, TypeOK, KillDelivered, Callers, ServiceAssumption, history
  <2> QED BY <2>1, <2>2, <2>3, <2>4, <2>5, <2>6, Zenon DEF IInv
<1> QED BY <1>1, <1>2, <1>3, <1>4, Zenon

(* The end of a worker, and a step that changes nothing. *)
LEMMA WorkerKeeps ==
  ASSUME ServiceAssumption, IInv, (\E w \in Workers : WorkerEnds(w)) \/ UNCHANGED vars
  PROVE  IInv'
<1> USE DEF Initialized, Running, Awaiting, Stopping, Killing, Completed
<1>1. CASE (\E w \in Workers : WorkerEnds(w))
  <2> USE <1>1 DEF WorkerEnds, At
  <2>1. TypeOK'
    BY Zenon DEF IInv, TypeOK, PCs, history
  <2>2. Places'
    BY Zenon DEF IInv, TypeOK, Places, InDestructor, Destroying, Callers, ServiceAssumption
  <2>3. StartsOnce'
    BY Zenon DEF IInv, TypeOK, StartsOnce, JoinsLast, Places, Callers, history
  <2>4. JoinsLast'
    BY Zenon DEF IInv, TypeOK, JoinsLast, Joining, Places, Callers, ServiceAssumption, history
  <2>5. CopyHolds'
    BY Zenon DEF IInv, TypeOK, CopyHolds, JoinsLast, StartsOnce, InDestructor, ServiceAssumption, Callers
  <2>6. KillDelivered'
    BY SMTT(30) DEF IInv, TypeOK, KillDelivered, Callers, ServiceAssumption, history
  <2> QED BY <2>1, <2>2, <2>3, <2>4, <2>5, <2>6, Zenon DEF IInv
<1>2. CASE UNCHANGED vars
  <2> USE <1>2 DEF vars
  <2>1. TypeOK'
    BY Zenon DEF IInv, TypeOK, PCs, history
  <2>2. Places'
    BY Zenon DEF IInv, TypeOK, Places, InDestructor, Destroying, Callers, ServiceAssumption
  <2>3. StartsOnce'
    BY Zenon DEF IInv, TypeOK, StartsOnce, JoinsLast, Places, Callers, history
  <2>4. JoinsLast'
    BY Zenon DEF IInv, TypeOK, JoinsLast, Joining, Places, Callers, ServiceAssumption, history
  <2>5. CopyHolds'
    BY Zenon DEF IInv, TypeOK, CopyHolds, JoinsLast, StartsOnce, InDestructor, ServiceAssumption, Callers
  <2>6. KillDelivered'
    BY Zenon DEF IInv, TypeOK, KillDelivered, Callers, ServiceAssumption, history
  <2> QED BY <2>1, <2>2, <2>3, <2>4, <2>5, <2>6, Zenon DEF IInv
<1> QED BY <1>1, <1>2, Zenon

(* call_in_destructor and ~Service. *)
LEMMA DestructorKeeps ==
  ASSUME ServiceAssumption, IInv, Destruct \/ DestructKill \/ DestructJoin \/ DestructCheck
  PROVE  IInv'
<1> USE DEF Initialized, Running, Awaiting, Stopping, Killing, Completed
<1>1. CASE Destruct
  <2> USE <1>1 DEF Destruct, MayCall, At, GoTo
  <2>1. TypeOK'
    BY Zenon DEF IInv, TypeOK, PCs, history
  <2>2. Places'
    BY Zenon DEF IInv, TypeOK, Places, InDestructor, Destroying, Callers, ServiceAssumption
  <2>3. StartsOnce'
    BY Zenon DEF IInv, TypeOK, StartsOnce, JoinsLast, Places, Callers, history
  <2>4. JoinsLast'
    BY Zenon DEF IInv, TypeOK, JoinsLast, Joining, Places, Callers, ServiceAssumption, history
  <2>5. CopyHolds'
    BY Zenon DEF IInv, TypeOK, CopyHolds, JoinsLast, StartsOnce, InDestructor, ServiceAssumption, Callers
  <2>6. KillDelivered'
    BY Zenon DEF IInv, TypeOK, KillDelivered, Callers, ServiceAssumption, history
  <2> QED BY <2>1, <2>2, <2>3, <2>4, <2>5, <2>6, Zenon DEF IInv
<1>2. CASE DestructKill
  <2> USE <1>2 DEF DestructKill, KillLocked, At, GoTo
  <2>1. TypeOK'
    BY SMTT(30) DEF IInv, TypeOK, PCs, history
  <2>2. Places'
    BY Zenon DEF IInv, TypeOK, Places, InDestructor, Destroying, Callers, ServiceAssumption
  <2>3. StartsOnce'
    BY SMTT(30) DEF IInv, TypeOK, StartsOnce, JoinsLast, Places, Callers, history
  <2>4. JoinsLast'
    BY SMTT(30) DEF IInv, TypeOK, JoinsLast, Joining, Places, Callers, ServiceAssumption, history
  <2>5. CopyHolds'
    BY SMTT(30) DEF IInv, TypeOK, CopyHolds, JoinsLast, StartsOnce, InDestructor, ServiceAssumption, Callers
  <2>6. KillDelivered'
    BY Zenon DEF IInv, TypeOK, KillDelivered, Callers, ServiceAssumption, history
  <2> QED BY <2>1, <2>2, <2>3, <2>4, <2>5, <2>6, Zenon DEF IInv
<1>3. CASE DestructJoin
  <2> USE <1>3 DEF DestructJoin, JoinLocked, At, GoTo
  <2>1. TypeOK'
    BY SMTT(30) DEF IInv, TypeOK, PCs, history
  <2>2. Places'
    BY SMTT(30) DEF IInv, TypeOK, Places, InDestructor, Destroying, Callers, ServiceAssumption
  <2>3. StartsOnce'
    BY SMTT(30) DEF IInv, TypeOK, StartsOnce, JoinsLast, Places, Callers, history
  <2>4. JoinsLast'
    <3>1. \A d \in Callers : pc[d] # "start"
      BY Zenon DEF IInv, Places, InDestructor, Callers
    <3> QED BY <3>1, SMTT(30) DEF IInv, TypeOK, JoinsLast, Joining, ServiceAssumption, Callers, history
  <2>5. CopyHolds'
    BY SMTT(30) DEF IInv, TypeOK, CopyHolds, JoinsLast, StartsOnce, InDestructor, ServiceAssumption, Callers
  <2>6. KillDelivered'
    BY SMTT(30) DEF IInv, TypeOK, KillDelivered, Callers, ServiceAssumption, history
  <2> QED BY <2>1, <2>2, <2>3, <2>4, <2>5, <2>6, Zenon DEF IInv
<1>4. CASE DestructCheck
  <2> USE <1>4 DEF DestructCheck, Abort, At, GoTo
  <2>1. TypeOK'
    BY Zenon DEF IInv, TypeOK, PCs, history
  <2>2. Places'
    BY Zenon DEF IInv, TypeOK, Places, InDestructor, Destroying, Callers, ServiceAssumption
  <2>3. StartsOnce'
    BY Zenon DEF IInv, TypeOK, StartsOnce, JoinsLast, Places, Callers, history
  <2>4. JoinsLast'
    BY Zenon DEF IInv, TypeOK, JoinsLast, Joining, Places, Callers, ServiceAssumption, history
  <2>5. CopyHolds'
    BY Zenon DEF IInv, TypeOK, CopyHolds, JoinsLast, StartsOnce, InDestructor, ServiceAssumption, Callers
  <2>6. KillDelivered'
    BY Zenon DEF IInv, TypeOK, KillDelivered, Callers, ServiceAssumption, history
  <2> QED BY <2>1, <2>2, <2>3, <2>4, <2>5, <2>6, Zenon DEF IInv
<1> QED BY <1>1, <1>2, <1>3, <1>4, Zenon
-----------------------------------------------------------------------------
(* Every step keeps the invariant ... *)
LEMMA ServiceStep == ASSUME ServiceAssumption, IInv, [Next]_vars PROVE IInv'
BY StartKeeps, StopKeeps, KillKeeps, JoinKeeps, WorkerKeeps, DestructorKeeps, Zenon
   DEF Next, Step, Destructor

(* ... and so it holds of every Service, whoever calls it. *)
LEMMA ServiceInvariant == ServiceAssumption => (Spec => []IInv)
<1> SUFFICES ASSUME ServiceAssumption PROVE Spec => []IInv
  BY Zenon
<1>1. Init => IInv
  BY ServiceInit, Zenon
<1>2. IInv /\ [Next]_vars => IInv'
  BY ServiceStep, Zenon
<1> QED BY <1>1, <1>2, PTL DEF Spec

(* The members keep their types, and do_service_start runs at most once,     *)
(* however many clients call service_start at the same time.                 *)
THEOREM ServiceTypes == ServiceAssumption => (Spec => []TypeOK)
<1>1. IInv => TypeOK
  BY Zenon DEF IInv
<1> QED BY <1>1, ServiceInvariant, PTL

(* The invariant contains what a Service promises. *)
LEMMA InvariantSound == ASSUME IInv PROVE ServiceSound
<1>1. CompletedMeansJoined
  BY Zenon DEF IInv, JoinsLast, CompletedMeansJoined
<1>2. DestructorCheck
  BY Zenon DEF IInv, JoinsLast, StartsOnce, CopyHolds, DestructorCheck
<1> QED BY <1>1, <1>2, Zenon DEF IInv, ServiceSound

(* Completed tells every caller that do_service_await_join has returned and  *)
(* that nothing the service started still runs; a service in state Killing   *)
(* has been killed or somebody is about to call do_service_kill; and         *)
(* ~Service finds a service that is Initialized or Completed, and no worker  *)
(* that could still call it, although call_in_destructor decides by a copy   *)
(* of the state that a worker's service_kill may have made stale.            *)
THEOREM ServiceIsSound == ServiceAssumption => (Spec => []ServiceSound)
<1>1. IInv => ServiceSound
  BY InvariantSound, Zenon
<1> QED BY <1>1, ServiceInvariant, PTL

(* No step leaves Completed, whatever calls were in flight. *)
LEMMA CompletedStep == ASSUME [Next]_vars, m_state = Completed PROVE m_state' = Completed
BY SMTT(30) DEF Next, vars, Step, Destructor, ServiceStart, ForwardState, DoServiceStart, ServiceStop,
   DoServiceStop, ServiceKill, KillLocked, DoServiceKill, ServiceAwaitJoin, JoinLocked,
   DoServiceAwaitJoin, JoinThrows, ServiceComplete, WorkerEnds, Destruct, DestructKill,
   DestructJoin, DestructCheck, Initialized, Running, Awaiting, Stopping, Killing, Completed

(* A service that is Completed stays so. *)
THEOREM CompletedStays == Spec => CompletedIsFinal
<1>1. [Next]_vars => [m_state = Completed => m_state' = Completed]_vars
  BY CompletedStep, Zenon
<1> QED BY <1>1, PTL DEF Spec, CompletedIsFinal
=============================================================================
