------------------------- MODULE ClusterStateProofs -------------------------
(***************************************************************************)
(* Theorems of ClusterState, for every set of replicas, services, nodes    *)
(* and data planes, and every bound.                                       *)
(***************************************************************************)
EXTENDS ClusterState, TLAPS

-----------------------------------------------------------------------------
(* Type correctness *)

(* A replica has a control plane object, an object a replica, and the locks a
   call takes and releases stay functions of the objects.  *)
LEMMA ObjectTypes ==
  ASSUME TypeOK
  PROVE  /\ \A r \in Replica : Current(r) \in Object
         /\ \A o \in Object : Home(o) \in Replica
         /\ \A k \in Key : LocksOf(k) \in SUBSET Lock
         /\ \A k \in Key : Locked(k) \in [Object -> [Lock -> Holder]]
         /\ \A k \in Key : Unlocked(k) \in [Object -> [Lock -> Holder]]
<1>1. \A r \in Replica : Current(r) \in Object
  BY DEF TypeOK, Current, Object
<1>2. \A o \in Object : Home(o) \in Replica
  BY DEF Object, Home
<1>3. \A k \in Key : LocksOf(k) \in SUBSET Lock
  BY DEF Key, LocksOf, Lock
<1>4. ASSUME NEW k \in Key PROVE Locked(k) \in [Object -> [Lock -> Holder]]
  BY DEF Locked, TypeOK, Holder
<1>5. ASSUME NEW k \in Key PROVE Unlocked(k) \in [Object -> [Lock -> Holder]]
  BY DEF Unlocked, TypeOK, Holder
<1> QED BY <1>1, <1>2, <1>3, <1>4, <1>5

(* What the answer to a call may do to the phases of the data planes.  *)
LEMMA PhaseType ==
  ASSUME TypeOK, NEW k, NEW error, DataPlaneAnswered(k, error)
  PROVE  phase' \in [DataPlane -> {"down", "register", "list", "add", "up"}]
BY DEF TypeOK, DataPlaneAnswered

(* A call that succeeds keeps the types of what it changes.  *)
LEMMA SucceedTypes ==
  ASSUME TypeOK, NEW k \in Key, NEW M \in SUBSET Key, Succeed(k, M)
  PROVE  /\ pc' \in [Key -> {"idle", "locking", "waiting", "unblocked", "stuck"}]
         /\ members' \in [Object -> SUBSET Key]
         /\ lock' \in [Object -> [Lock -> Holder]]
         /\ answered' \in [Key -> {"unknown", "registered", "deregistered"}]
         /\ phase' \in [DataPlane -> {"down", "register", "list", "add", "up"}]
<1>1. /\ pc' \in [Key -> {"idle", "locking", "waiting", "unblocked", "stuck"}]
      /\ members' \in [Object -> SUBSET Key]
      /\ answered' \in [Key -> {"unknown", "registered", "deregistered"}]
  BY DEF Succeed, TypeOK
<1> QED BY <1>1, ObjectTypes, PhaseType DEF Succeed

(* So does telling data planes of services.  *)
LEMMA AddDeploymentsTypes ==
  ASSUME TypeOK, NEW o, NEW R, NEW S \in SUBSET Service, AddDeployments(o, R, S)
  PROVE  /\ deployed' \in [DataPlane -> SUBSET Service]
         /\ missed' \in [DataPlane -> SUBSET Service]
BY DEF TypeOK, AddDeployments, AddDeployment

(* A deregistered service is deleted from some of the data planes.  *)
LEMMA DeletedFrom ==
  ASSUME TypeOK, NEW k, DeregisterService(k)
  PROVE  deployed' \in [DataPlane -> SUBSET Service] /\ missed' \in [DataPlane -> SUBSET Service]
<1>1. PICK D : deployed' = [d \in DataPlane |-> IF d \in D THEN DeleteDeployment(d, k) ELSE deployed[d]]
  BY DEF DeregisterService
<1>2. PICK E : missed' = [d \in DataPlane |-> IF d \in E THEN missed[d] \cup {k} ELSE missed[d]] \/ missed' = missed
  BY DEF DeregisterService
<1>3. k \in Service
  BY DEF DeregisterService
<1> QED BY <1>1, <1>2, <1>3 DEF TypeOK, DeleteDeployment

(* Every step of a registration or a deregistration keeps the types.  *)
LEMMA CallTypes ==
  ASSUME TypeOK, NEW k \in Key, Call(k) PROVE TypeOK'
<1> USE DEF leadership, memory, redis, dataplanes, history, TypeOK
<1>0. obj[k] \in Object /\ Home(obj[k]) \in Replica
  BY ObjectTypes
<1>1. CASE AlreadyDone(k)
  BY <1>1, ObjectTypes, PhaseType DEF AlreadyDone, Return
<1>2. CASE Persist(k)
  <2>1. db' \in [Replica -> SUBSET Key]
    BY <1>0, <1>2 DEF Persist
  <2>2. pc' = [pc EXCEPT ![k] = "waiting"] /\ answered' = [answered EXCEPT ![k] = "unknown"]
        /\ lock' = Locked(k)
    BY <1>2 DEF Persist
  <2> QED BY <1>2, <2>1, <2>2, ObjectTypes DEF Persist
<1>3. CASE PersistFails(k)
  <2>1. CASE pc' = [pc EXCEPT ![k] = "stuck"] /\ lock' = Locked(k) /\ UNCHANGED phase
    BY <1>3, <2>1, ObjectTypes DEF PersistFails
  <2>2. CASE Return(k, TRUE)
    BY <1>3, <2>2, ObjectTypes, PhaseType DEF PersistFails, Return
  <2> QED BY <1>3, <2>1, <2>2 DEF PersistFails
<1>4. CASE RegisterService(k)
  <2>1. {k} \in SUBSET Service /\ members[obj[k]] \cup {k} \in SUBSET Key
    BY <1>0, <1>4 DEF RegisterService, Key
  <2>2. deployed' \in [DataPlane -> SUBSET Service] /\ missed' \in [DataPlane -> SUBSET Service]
    BY <1>4, <2>1, AddDeploymentsTypes DEF RegisterService
  <2>3. CASE precreateSnapshots(k)
    <3>1. members' \in [Object -> SUBSET Key]
      BY <1>0, <2>1, <2>3 DEF precreateSnapshots
    <3>2. pc' = [pc EXCEPT ![k] = "stuck"] /\ UNCHANGED <<lock, answered, phase>>
      BY <2>3 DEF precreateSnapshots
    <3> QED BY <1>4, <2>2, <3>1, <3>2 DEF RegisterService
  <2>4. CASE Succeed(k, members[obj[k]] \cup {k})
    BY <1>4, <2>1, <2>2, <2>4, SucceedTypes DEF RegisterService
  <2> QED BY <1>4, <2>3, <2>4 DEF RegisterService
<1>5. CASE DeregisterService(k)
  <2>1. deployed' \in [DataPlane -> SUBSET Service] /\ missed' \in [DataPlane -> SUBSET Service]
    BY <1>5, DeletedFrom
  <2>2. CASE Succeed(k, members[obj[k]] \ {k})
    <3>1. members[obj[k]] \ {k} \in SUBSET Key
      BY <1>0
    <3> QED BY <1>5, <2>1, <2>2, <3>1, SucceedTypes DEF DeregisterService
  <2>3. CASE /\ lock' = [Unlocked(k) EXCEPT ![obj[k]]["DataPlaneConnections"] = "leaked"]
             /\ pc' = [pc EXCEPT ![k] = "idle"]
             /\ UNCHANGED <<members, answered, phase>>
    <3>1. lock' \in [Object -> [Lock -> Holder]]
      BY <1>0, <2>3, ObjectTypes DEF Holder, Lock
    <3> QED BY <1>5, <2>1, <2>3, <3>1 DEF DeregisterService
  <2> QED BY <1>5, <2>2, <2>3 DEF DeregisterService
<1>6. CASE RegisterNode(k)
  <2>1. members[obj[k]] \cup {k} \in SUBSET Key
    BY <1>0
  <2> QED BY <1>6, <2>1, SucceedTypes DEF RegisterNode
<1>7. CASE DeregisterNode(k)
  <2>1. members[obj[k]] \ {k} \in SUBSET Key
    BY <1>0
  <2> QED BY <1>7, <2>1, SucceedTypes DEF DeregisterNode
<1>8. CASE RegisterDataplane(k)
  <2>1. deployed' \in [DataPlane -> SUBSET Service] /\ missed' \in [DataPlane -> SUBSET Service]
    <3>1. PICK S \in SUBSET Service : deployed' = [deployed EXCEPT ![k] = deployed[k] \cup S]
      <4>1. members[obj[k]] \cap Service \in SUBSET Service
        OBVIOUS
      <4> QED BY <1>8, <4>1 DEF RegisterDataplane, AddDeployment
    <3>2. \/ missed' = [missed EXCEPT ![k] = @ \ (members[obj[k]] \cap Service)]
          \/ missed' = missed
      BY <1>8 DEF RegisterDataplane
    <3>3. k \in DataPlane
      BY <1>8 DEF RegisterDataplane
    <3> QED BY <3>1, <3>2, <3>3
  <2>2. CASE Succeed(k, members[obj[k]] \cup {k})
    <3>1. members[obj[k]] \cup {k} \in SUBSET Key
      BY <1>0
    <3> QED BY <1>8, <2>1, <2>2, <3>1, SucceedTypes DEF RegisterDataplane
  <2>3. CASE /\ pc' = [pc EXCEPT ![k] = "idle"]
             /\ lock' = Unlocked(k)
             /\ DataPlaneAnswered(k, TRUE)
             /\ UNCHANGED <<members, answered, missed>>
    BY <1>8, <2>1, <2>3, ObjectTypes, PhaseType DEF RegisterDataplane
  <2> QED BY <1>8, <2>2, <2>3 DEF RegisterDataplane
<1>9. CASE DeregisterDataplane(k)
  <2>1. members[obj[k]] \ {k} \in SUBSET Key
    BY <1>0
  <2> QED BY <1>9, <2>1, SucceedTypes DEF DeregisterDataplane
<1> QED BY <1>1, <1>2, <1>3, <1>4, <1>5, <1>6, <1>7, <1>8, <1>9 DEF Call

(* So does every step of a replica: its leadership, its database and its
   main loop.  *)
LEMMA ReplicaTypes ==
  ASSUME TypeOK, NEW r \in Replica, Elect(r) \/ Depose(r) \/ Main(r) \/ Crash(r) \/ Replicate(r)
  PROVE  TypeOK'
<1> USE BoundsAreNaturals DEF leadership, memory, redis, calls, dataplanes, history, TypeOK
<1>0. Current(r) \in Object
  BY ObjectTypes
<1>1. CASE Elect(r)
  BY <1>1 DEF Elect
<1>2. CASE Depose(r)
  BY <1>2 DEF Depose
<1>3. CASE StopNodeMonitoring(r)
  BY <1>0, <1>3 DEF StopNodeMonitoring
<1>4. CASE CleanControlPlaneInMemoryData(r)
  <2>1. generation' \in [Replica -> Generation]
    BY <1>4 DEF CleanControlPlaneInMemoryData, Generation
  <2> QED BY <1>4, <2>1 DEF CleanControlPlaneInMemoryData
<1>5. CASE ReconstructDataplaneState(r)
  <2>1. members' \in [Object -> SUBSET Key]
    BY <1>0, <1>5 DEF ReconstructDataplaneState, GetDataPlaneInformation
  <2> QED BY <1>5, <2>1 DEF ReconstructDataplaneState, Reconstructing
<1>6. CASE ReconstructWorkersState(r)
  <2>1. listed' \in [Replica -> SUBSET Key]
    BY <1>6 DEF ReconstructWorkersState, GetWorkerNodeInformation
  <2> QED BY <1>6, <2>1 DEF ReconstructWorkersState, Reconstructing
<1>7. CASE ReconstructServiceState(r)
  <2>1. listed' \in [Replica -> SUBSET Key]
    BY <1>7 DEF ReconstructServiceState, GetServiceInformation
  <2> QED BY <1>7, <2>1 DEF ReconstructServiceState, Reconstructing
<1>8. CASE SetLeader(r)
  <2>1. slaveOf' \in [Replica -> Replica]
    BY <1>8 DEF SetLeader
  <2>2. pc' \in [Key -> {"idle", "locking", "waiting", "unblocked", "stuck"}]
    BY <1>8 DEF SetLeader
  <2>3. monitor' \in [Object -> {"off", "on", "stuck"}]
    BY <1>0, <1>8 DEF SetLeader, StartNodeMonitoringLoop
  <2> QED BY <1>8, <2>1, <2>2, <2>3 DEF SetLeader
<1>9. ASSUME NEW n \in Node, ConnectToWorker(r, n) PROVE TypeOK'
  <2>1. n \in Key
    BY DEF Key
  <2> QED BY <1>0, <1>9, <2>1 DEF ConnectToWorker
<1>10. ASSUME NEW s \in Service, StartReconstructedService(r, s) PROVE TypeOK'
  <2>1. s \in Key /\ {s} \in SUBSET Service
    BY DEF Key
  <2>2. deployed' \in [DataPlane -> SUBSET Service] /\ missed' \in [DataPlane -> SUBSET Service]
    BY <1>10, <2>1, AddDeploymentsTypes DEF StartReconstructedService
  <2>3. members' \in [Object -> SUBSET Key] /\ listed' \in [Replica -> SUBSET Key]
    BY <1>0, <1>10, <2>1 DEF StartReconstructedService
  <2> QED BY <1>10, <2>2, <2>3 DEF StartReconstructedService
<1>11. CASE Crash(r)
  <2>1. lock' \in [Object -> [Lock -> Holder]]
    BY <1>11 DEF Crash, Holder
  <2>2. /\ members' \in [Object -> SUBSET Key]
        /\ monitor' \in [Object -> {"off", "on", "stuck"}]
        /\ pc' \in [Key -> {"idle", "locking", "waiting", "unblocked", "stuck"}]
        /\ phase' \in [DataPlane -> {"down", "register", "list", "add", "up"}]
    BY <1>11 DEF Crash
  <2> QED BY <1>11, <2>1, <2>2 DEF Crash
<1>12. CASE Replicate(r)
  BY <1>12 DEF Replicate
<1> QED BY <1>1, <1>2, <1>3, <1>4, <1>5, <1>6, <1>7, <1>8, <1>9, <1>10, <1>11, <1>12 DEF Main

(* So does every step of a data plane that starts, stops or synchronises.  *)
LEMMA DataPlaneTypes ==
  ASSUME TypeOK, NEW d \in DataPlane, StartDataPlane(d) \/ CrashDataPlane(d) \/ StartingDataPlane(d)
  PROVE  TypeOK'
<1> USE BoundsAreNaturals DEF leadership, memory, redis, calls, dataplanes, history, TypeOK
<1>1. CASE StartDataPlane(d)
  BY <1>1 DEF StartDataPlane
<1>2. CASE CrashDataPlane(d)
  BY <1>2 DEF CrashDataPlane
<1>3. CASE ListServices(d)
  <2>1. synced' \in [DataPlane -> SUBSET Service] /\ missed' \in [DataPlane -> SUBSET Service]
    BY <1>3 DEF ListServices
  <2> QED BY <1>3, <2>1 DEF ListServices
<1>4. CASE SyncDeploymentCache(d)
  BY <1>4 DEF SyncDeploymentCache, AddDeployment
<1> QED BY <1>1, <1>2, <1>3, <1>4 DEF StartingDataPlane

(* Every state that the handlers, the main loops of the replicas, their
   databases and the data planes reach is of the declared types: in
   particular the main loops make no more objects than leaderships.  *)
THEOREM TypeCorrect == Spec => []TypeOK
<1>1. Init => TypeOK
  <2> SUFFICES ASSUME Init PROVE TypeOK
    OBVIOUS
  <2>1. 0 \in Generation
    BY BoundsAreNaturals DEF Generation
  <2> QED BY <2>1, BoundsAreNaturals DEF Init, TypeOK, Object, Holder
<1>2. TypeOK /\ [Next]_vars => TypeOK'
  <2> SUFFICES ASSUME TypeOK, [Next]_vars PROVE TypeOK'
    OBVIOUS
  <2>1. ASSUME NEW k \in Key, NEW x \in {"register", "deregister"}, StartCall(k, x) PROVE TypeOK'
    <3>1. obj' \in [Key -> Object]
      BY <2>1, ObjectTypes DEF StartCall, TypeOK
    <3> QED BY <2>1, <3>1 DEF StartCall, TypeOK, leadership, memory, redis, dataplanes
  <2>2. ASSUME NEW o \in Object, CheckPeriodicallyWorkerNodes(o) PROVE TypeOK'
    <3>1. lock' \in [Object -> [Lock -> Holder]]
      BY <2>2 DEF CheckPeriodicallyWorkerNodes, createWorkerNodeFailureEvents, TypeOK, Holder
    <3> QED BY <2>2, <3>1 DEF CheckPeriodicallyWorkerNodes, TypeOK, leadership, redis, calls,
                              dataplanes, history
  <2>3. CASE UNCHANGED vars
    BY <2>3 DEF TypeOK, vars, leadership, memory, redis, calls, dataplanes, history
  <2> QED BY <2>1, <2>2, <2>3, CallTypes, ReplicaTypes, DataPlaneTypes DEF Next
<1> QED BY <1>1, <1>2, PTL DEF Spec

-----------------------------------------------------------------------------
(* The handlers implement the abstract registry *)

(* A call answers k once its write is on every instance.  *)
AnsweredAfterWait(k) ==
  /\ pc[k] = "waiting" /\ WaitForQuorumWrite(Home(obj[k]), k)
  /\ answered' = [answered EXCEPT ![k] = IF op[k] = "register" THEN "registered" ELSE "deregistered"]

(* But for Persist, the steps of a handler leave the database alone, end the
   wait, and answer, if at all, after it.  *)
LEMMA CallEffect ==
  ASSUME TypeOK, NEW k \in Key, Call(k), ~Persist(k)
  PROVE  /\ db' = db /\ slaveOf' = slaveOf /\ op' = op /\ obj' = obj
         /\ \E p \in {"idle", "stuck"} : pc' = [pc EXCEPT ![k] = p]
         /\ answered' = answered \/ AnsweredAfterWait(k)
<1> USE DEF redis
<1>1. CASE AlreadyDone(k)
  BY <1>1 DEF AlreadyDone, Return, history
<1>2. CASE PersistFails(k)
  BY <1>2 DEF PersistFails, Return, history
<1>3. CASE RegisterService(k)
  BY <1>3 DEF RegisterService, Persisted, precreateSnapshots, Succeed, AnsweredAfterWait
<1>4. CASE DeregisterService(k)
  <2>1. \/ Succeed(k, members[obj[k]] \ {k})
        \/ pc' = [pc EXCEPT ![k] = "idle"] /\ UNCHANGED answered
    BY <1>4 DEF DeregisterService
  <2> QED BY <1>4, <2>1 DEF DeregisterService, Persisted, Succeed, AnsweredAfterWait
<1>5. CASE RegisterNode(k)
  BY <1>5 DEF RegisterNode, Persisted, Succeed, AnsweredAfterWait
<1>6. CASE DeregisterNode(k)
  BY <1>6 DEF DeregisterNode, Persisted, Succeed, AnsweredAfterWait
<1>7. CASE RegisterDataplane(k)
  <2>1. \/ Succeed(k, members[obj[k]] \cup {k})
        \/ pc' = [pc EXCEPT ![k] = "idle"] /\ UNCHANGED answered
    BY <1>7 DEF RegisterDataplane
  <2> QED BY <1>7, <2>1 DEF RegisterDataplane, Persisted, Succeed, AnsweredAfterWait
<1>8. CASE DeregisterDataplane(k)
  BY <1>8 DEF DeregisterDataplane, Persisted, Succeed, AnsweredAfterWait
<1> QED BY <1>1, <1>2, <1>3, <1>4, <1>5, <1>6, <1>7, <1>8 DEF Call

(* The steps of which the registry takes no notice: no database and no call
   changes.  *)
LEMMA UnseenSteps ==
  ASSUME [Next]_vars, \A k \in Key : ~Call(k) /\ \A x \in {"register", "deregister"} : ~StartCall(k, x),
         \A r \in Replica : ~SetLeader(r) /\ ~Crash(r) /\ ~Replicate(r)
  PROVE  UNCHANGED <<redis, calls, answered>>
<1>1. ASSUME NEW r \in Replica, Elect(r) \/ Depose(r) \/ Main(r)
      PROVE  UNCHANGED <<redis, calls, answered>>
  BY <1>1 DEF Elect, Depose, Main, StopNodeMonitoring, CleanControlPlaneInMemoryData,
     ReconstructDataplaneState, ReconstructWorkersState, ReconstructServiceState, Reconstructing,
     ConnectToWorker, StartReconstructedService, history
<1>2. ASSUME NEW o \in Object, CheckPeriodicallyWorkerNodes(o)
      PROVE  UNCHANGED <<redis, calls, answered>>
  BY <1>2 DEF CheckPeriodicallyWorkerNodes, history
<1>3. ASSUME NEW d \in DataPlane, StartDataPlane(d) \/ CrashDataPlane(d) \/ StartingDataPlane(d)
      PROVE  UNCHANGED <<redis, calls, answered>>
  BY <1>3 DEF StartDataPlane, CrashDataPlane, StartingDataPlane, ListServices,
     SyncDeploymentCache, history
<1> QED BY <1>1, <1>2, <1>3 DEF Next, vars, history

(* Every step keeps WritesArePending: a master turns into a slave only by
   SetLeader, which ends the waits at it.  *)
LEMMA WritesArePendingStep ==
  ASSUME TypeOK, WritesArePending, [Next]_vars PROVE WritesArePending'
<1> USE DEF WritesArePending, TypeOK
<1>0. \A k \in Key : Home(obj[k]) \in Replica
  BY ObjectTypes
<1>1. ASSUME NEW k \in Key, NEW x, StartCall(k, x) PROVE WritesArePending'
  BY <1>1 DEF StartCall, redis, Writable, Home
<1>2. ASSUME NEW k \in Key, Call(k) PROVE WritesArePending'
  <2>1. CASE Persist(k)
    <3>1. /\ slaveOf' = slaveOf /\ op' = op /\ obj' = obj
          /\ pc' = [pc EXCEPT ![k] = "waiting"]
          /\ slaveOf[Home(obj[k])] = Home(obj[k])
          /\ db' = [db EXCEPT ![Home(obj[k])] =
                      IF op[k] = "register" THEN @ \cup {k} ELSE @ \ {k}]
      BY <2>1 DEF Persist, Writable
    <3>2. \A m \in Key \ {k} : \A r \in Replica : m \in db'[r] <=> m \in db[r]
      BY <1>0, <3>1
    <3>3. k \in db'[Home(obj[k])] <=> op[k] = "register"
      BY <1>0, <3>1
    <3> QED BY <1>0, <3>1, <3>2, <3>3 DEF Writable
  <2>2. CASE ~Persist(k)
    BY <1>2, <2>2, CallEffect DEF Writable
  <2> QED BY <2>1, <2>2
<1>3. ASSUME NEW r \in Replica, SetLeader(r) PROVE WritesArePending'
  <2>1. PICK Q \in SUBSET (Replica \ {r}) :
          /\ RedisMayFail \/ Q = Replica \ {r}
          /\ slaveOf' = [q \in Replica |-> IF q \in Q \cup {r} THEN r ELSE slaveOf[q]]
          /\ pc' = [k \in Key |-> IF pc[k] = "waiting" /\ Home(obj[k]) \in Q
                                  THEN "unblocked" ELSE pc[k]]
    BY <1>3 DEF SetLeader
  <2> QED BY <1>0, <1>3, <2>1 DEF SetLeader, Writable
<1>4. ASSUME NEW r \in Replica, Crash(r) PROVE WritesArePending'
  BY <1>4 DEF Crash, redis, Writable
<1>5. ASSUME NEW r \in Replica, Replicate(r) PROVE WritesArePending'
  BY <1>0, <1>5 DEF Replicate, calls, Writable
<1>6. CASE UNCHANGED <<redis, calls, answered>>
  BY <1>6 DEF redis, calls, Writable
<1> QED BY <1>1, <1>2, <1>3, <1>4, <1>5, <1>6, UnseenSteps

(* While a handler waits for its write to reach the other instances, the
   write is in the Redis of its replica, and that one is a master: a new
   leader that makes it a slave (SetLeader) has ended the wait before the
   write can be overwritten.  *)
THEOREM PendingWrites == Spec => []WritesArePending
<1>1. Init => WritesArePending
  BY DEF Init, WritesArePending
<1>2. TypeOK /\ WritesArePending /\ [Next]_vars => WritesArePending'
  BY WritesArePendingStep
<1> QED BY <1>1, <1>2, TypeCorrect, PTL DEF Spec

(* What the registry sees of a state.  *)
view == [r \in Replica |-> db[r] \cap Lasting]
told == [k \in Lasting |-> answered[k]]

(* Every step of the control plane is one step of the registry or none.  *)
LEMMA RegistryStep ==
  ASSUME TypeOK, WritesArePending, [Next]_vars PROVE [Reg!Next]_(Reg!vars)
<1> USE DEF TypeOK
<1>0. \A k \in Key : Home(obj[k]) \in Replica
  BY ObjectTypes
<1>s. ASSUME view' = view, told' = told PROVE [Reg!Next]_(Reg!vars)
  BY <1>s DEF view, told, Reg!vars
<1>1. ASSUME NEW k \in Key, Persist(k) PROVE [Reg!Next]_(Reg!vars)
  <2> DEFINE r == Home(obj[k])
             v == IF op[k] = "register" THEN view[r] \cup {k} ELSE view[r] \ {k}
  <2>1. /\ db' = [db EXCEPT ![r] = IF op[k] = "register" THEN @ \cup {k} ELSE @ \ {k}]
        /\ answered' = [answered EXCEPT ![k] = "unknown"]
    BY <1>1 DEF Persist
  <2>2. CASE k \in Lasting
    <3>1. view' = [view EXCEPT ![r] = v]
      <4>1. \A q \in Replica : q # r => db'[q] = db[q]
        BY <1>0, <2>1
      <4>2. db'[r] \cap Lasting = v
        BY <1>0, <2>1, <2>2 DEF view
      <4> HIDE DEF v, r
      <4> QED BY <4>1, <4>2 DEF view
    <3>2. told' = [told EXCEPT ![k] = "unknown"]
      BY <2>1, <2>2 DEF told, Lasting, Key
    <3>3. v \in {view[r] \cup {k}, view[r] \ {k}}
      OBVIOUS
    <3>4. Reg!Write(r, k)
      BY <3>1, <3>2, <3>3 DEF Reg!Write, view, told
    <3> QED BY <1>0, <2>2, <3>4 DEF Reg!Next
  <2>3. CASE k \notin Lasting
    <3>1. view' = view
      BY <1>0, <2>1, <2>3 DEF view
    <3>2. told' = told
      BY <2>1, <2>3 DEF told, Lasting, Key
    <3> QED BY <3>1, <3>2, <1>s
  <2> QED BY <2>2, <2>3
<1>2. ASSUME NEW k \in Key, Call(k), ~Persist(k) PROVE [Reg!Next]_(Reg!vars)
  <2>1. view' = view
    BY <1>2, CallEffect DEF view
  <2>2. CASE answered' = answered
    BY <2>1, <2>2, <1>s DEF told
  <2>3. CASE AnsweredAfterWait(k) /\ k \notin Lasting
    BY <2>1, <2>3, <1>s DEF told, AnsweredAfterWait, Lasting, Key
  <2>4. CASE AnsweredAfterWait(k) /\ k \in Lasting
    <3>1. \A q \in Replica : k \in view[q] <=> op[k] = "register"
      BY <1>0, <2>4 DEF AnsweredAfterWait, WaitForQuorumWrite, WritesArePending, view
    <3>2. told' = [told EXCEPT ![k] = IF op[k] = "register" THEN "registered" ELSE "deregistered"]
      BY <2>4 DEF AnsweredAfterWait, told, Lasting, Key
    <3>3. Reg!Answer(k)
      BY <2>1, <3>1, <3>2 DEF Reg!Answer, view, told
    <3> QED BY <2>4, <3>3 DEF Reg!Next
  <2> QED BY <1>2, <2>2, <2>3, <2>4, CallEffect
<1>3. ASSUME NEW r \in Replica, Replicate(r) PROVE [Reg!Next]_(Reg!vars)
  <2>1. slaveOf[r] \in Replica /\ db' = [db EXCEPT ![r] = db[slaveOf[r]]] /\ answered' = answered
    BY <1>3 DEF Replicate, history
  <2>2. view' = [view EXCEPT ![r] = view[slaveOf[r]]]
    BY <2>1 DEF view
  <2>3. told' = told
    BY <2>1 DEF told
  <2>4. Reg!Sync(r)
    BY <2>1, <2>2, <2>3 DEF Reg!Sync, view, told
  <2> QED BY <2>4 DEF Reg!Next
<1>4. CASE db' = db /\ answered' = answered
  BY <1>4, <1>s DEF view, told
<1>5. ASSUME NEW k \in Key, NEW x, StartCall(k, x) PROVE db' = db /\ answered' = answered
  BY <1>5 DEF StartCall, redis
<1>6. ASSUME NEW r \in Replica, SetLeader(r) \/ Crash(r) PROVE db' = db /\ answered' = answered
  BY <1>6 DEF SetLeader, Crash, redis, history
<1>7. CASE UNCHANGED <<redis, calls, answered>>
  BY <1>4, <1>7 DEF redis
<1> QED BY <1>1, <1>2, <1>3, <1>4, <1>5, <1>6, <1>7, UnseenSteps

(* The handlers, the replication of the Redis instances and the changes of
   leader implement the abstract registry, for services and worker nodes: a
   call is answered only when every instance has its effect, and no crash,
   new leader, late replication or failed write undoes what was answered.  *)
THEOREM Refinement == Spec => ImplementsRegistry
<1>1. Init => Reg!Init
  BY DEF Init, Reg!Init, Lasting, Key
<1>2. TypeOK /\ WritesArePending /\ [Next]_vars => [Reg!Next]_(Reg!vars)
  BY RegistryStep
<1> QED BY <1>1, <1>2, TypeCorrect, PendingWrites, PTL DEF Spec, ImplementsRegistry, Reg!Spec

(* The registry's databases and answers are of its types.  *)
LEMMA RegistryTypes ==
  ASSUME TypeOK
  PROVE  view \in [Replica -> SUBSET Lasting] /\ told \in [Lasting -> {"unknown", "registered", "deregistered"}]
BY DEF TypeOK, view, told, Lasting, Key

(* A step of the registry keeps what was answered: a write makes the answer for
   its key unknown, a copy is taken from one that agrees already, and an answer
   waits for all copies.  *)
LEMMA DurableStep ==
  ASSUME TypeOK, [Reg!Next]_(Reg!vars), Reg!AnsweredIsDurable PROVE Reg!AnsweredIsDurable'
<1> DEFINE Durable(v, t) ==
             \A k \in Lasting : \A r \in Replica :
               /\ t[k] = "registered" => k \in v[r]
               /\ t[k] = "deregistered" => k \notin v[r]
<1>0. view \in [Replica -> SUBSET Lasting] /\ told \in [Lasting -> {"unknown", "registered", "deregistered"}]
  BY RegistryTypes
<1>1. Durable(view, told)
  BY DEF Reg!AnsweredIsDurable, view, told
<1>2. SUFFICES Durable(view', told')
  BY DEF Reg!AnsweredIsDurable, view, told
<1>3. CASE view' = view /\ told' = told
  BY <1>1, <1>3
<1>4. ASSUME NEW r \in Replica, Reg!Sync(r) PROVE Durable(view', told')
  <2>1. PICK q \in Replica : view' = [view EXCEPT ![r] = view[q]] /\ told' = told
    BY <1>4 DEF Reg!Sync, view, told
  <2> QED BY <1>0, <1>1, <2>1
<1>5. ASSUME NEW r \in Replica, NEW k \in Lasting, Reg!Write(r, k) PROVE Durable(view', told')
  <2>1. PICK v \in {view[r] \cup {k}, view[r] \ {k}} : view' = [view EXCEPT ![r] = v]
    BY <1>5 DEF Reg!Write, view
  <2>2. told' = [told EXCEPT ![k] = "unknown"]
    BY <1>5 DEF Reg!Write, told
  <2>3. \A l \in Lasting \ {k} : l \in v <=> l \in view[r]
    BY <2>1
  <2> QED BY <1>0, <1>1, <2>1, <2>2, <2>3
<1>6. ASSUME NEW k \in Lasting, Reg!Answer(k) PROVE Durable(view', told')
  <2>1. /\ view' = view
        /\ \/ (\A r \in Replica : k \in view[r]) /\ told' = [told EXCEPT ![k] = "registered"]
           \/ (\A r \in Replica : k \notin view[r]) /\ told' = [told EXCEPT ![k] = "deregistered"]
    BY <1>6 DEF Reg!Answer, view, told
  <2> QED BY <1>0, <1>1, <2>1
<1>7. Reg!Next \/ (view' = view /\ told' = told)
  BY DEF Reg!vars, view, told
<1> QED BY <1>3, <1>4, <1>5, <1>6, <1>7 DEF Reg!Next

(* What was answered holds in the Redis of every replica, whichever of them
   leads next: an answered registration of a service or of a node is in all of
   them and an answered deregistration in none, until the next write for the
   key, however calls, crashes, changes of leader, failed writes and late
   replications interleave (RegisterService, WaitForQuorumWrite, SetLeader).  *)
THEOREM AnswersLast == Spec => []Reg!AnsweredIsDurable
<1>1. Init => Reg!AnsweredIsDurable
  BY DEF Init, Reg!AnsweredIsDurable, Lasting, Key
<1>2. TypeOK /\ WritesArePending /\ Reg!AnsweredIsDurable /\ [Next]_vars => Reg!AnsweredIsDurable'
  BY RegistryStep, DurableStep
<1> QED BY <1>1, <1>2, TypeCorrect, PendingWrites, PTL DEF Spec

-----------------------------------------------------------------------------
(* What a leader knows *)

(* The handlers leave the leaderships alone, and the memory of the replicas
   but for their own key in the map of their object, which they change when
   the write is everywhere.  *)
LEMMA CallMemory ==
  ASSUME TypeOK, NEW k \in Key, Call(k)
  PROVE  /\ UNCHANGED <<leadership, listed, alone, synced, obj, slaveOf>>
         /\ pc[k] # "idle" /\ \A j \in Key : pc'[j] # "idle" => pc[j] # "idle"
         /\ \/ members' = members /\ answered' \in {answered, [answered EXCEPT ![k] = "unknown"]}
            \/ /\ pc[k] = "waiting" /\ members' = [members EXCEPT ![obj[k]] = @ \cup {k}]
               /\ answered' \in {answered, [answered EXCEPT ![k] = "registered"]}
            \/ /\ pc[k] = "waiting" /\ members' = [members EXCEPT ![obj[k]] = @ \ {k}]
               /\ answered' = [answered EXCEPT ![k] = "deregistered"]
<1> USE DEF redis, history, dataplanes, Enters, Persisted
<1>0. pc \in [Key -> {"idle", "locking", "waiting", "unblocked", "stuck"}]
  BY DEF TypeOK
<1>1. CASE AlreadyDone(k)
  BY <1>0, <1>1 DEF AlreadyDone, Return
<1>2. CASE Persist(k)
  BY <1>0, <1>2 DEF Persist
<1>3. CASE PersistFails(k)
  BY <1>0, <1>3 DEF PersistFails, Return
<1>4. CASE RegisterService(k)
  BY <1>0, <1>4 DEF RegisterService, precreateSnapshots, Succeed
<1>5. CASE DeregisterService(k)
  <2>1. \/ Succeed(k, members[obj[k]] \ {k})
        \/ pc' = [pc EXCEPT ![k] = "idle"] /\ UNCHANGED <<members, answered>>
    BY <1>5 DEF DeregisterService
  <2> QED BY <1>0, <1>5, <2>1 DEF DeregisterService, Succeed
<1>6. CASE RegisterNode(k)
  BY <1>0, <1>6 DEF RegisterNode, Succeed
<1>7. CASE DeregisterNode(k)
  BY <1>0, <1>7 DEF DeregisterNode, Succeed
<1>8. CASE RegisterDataplane(k)
  <2>1. \/ Succeed(k, members[obj[k]] \cup {k})
        \/ pc' = [pc EXCEPT ![k] = "idle"] /\ UNCHANGED <<members, answered>>
    BY <1>8 DEF RegisterDataplane
  <2> QED BY <1>0, <1>8, <2>1 DEF RegisterDataplane, Succeed
<1>9. CASE DeregisterDataplane(k)
  BY <1>0, <1>9 DEF DeregisterDataplane, Succeed
<1> QED BY <1>1, <1>2, <1>3, <1>4, <1>5, <1>6, <1>7, <1>8, <1>9 DEF Call

(* No step but these changes the calls, an answer, or what is in the maps, in
   the lists and on the way of the main loops.  *)
LEMMA QuietSteps ==
  ASSUME [Next]_vars, \A k \in Key : ~Call(k) /\ \A x \in {"register", "deregister"} : ~StartCall(k, x),
         \A r \in Replica : ~Elect(r) /\ ~Depose(r) /\ ~Main(r) /\ ~Crash(r)
  PROVE  UNCHANGED <<leadership, members, calls, answered, alone, listed, slaveOf>>
<1>1. ASSUME NEW r \in Replica, Replicate(r)
      PROVE  UNCHANGED <<leadership, members, calls, answered, alone, listed, slaveOf>>
  BY <1>1 DEF Replicate, memory, history
<1>2. ASSUME NEW o \in Object, CheckPeriodicallyWorkerNodes(o)
      PROVE  UNCHANGED <<leadership, members, calls, answered, alone, listed, slaveOf>>
  BY <1>2 DEF CheckPeriodicallyWorkerNodes, history, redis
<1>3. ASSUME NEW d \in DataPlane, StartDataPlane(d) \/ CrashDataPlane(d) \/ StartingDataPlane(d)
      PROVE  UNCHANGED <<leadership, members, calls, answered, alone, listed, slaveOf>>
  BY <1>3 DEF StartDataPlane, CrashDataPlane, StartingDataPlane, ListServices,
     SyncDeploymentCache, history, memory, redis
<1> QED BY <1>1, <1>2, <1>3 DEF Next, vars, history, memory, redis

(* A call goes to the current object of a replica, and no object is put to use
   before its turn.  *)
LEMMA FreshStep ==
  ASSUME TypeOK, ObjectsAreFresh, [Next]_vars PROVE ObjectsAreFresh'
<1> DEFINE Empty == \A r \in Replica : \A g \in Generation : g > generation[r] => members[<<r, g>>] = {}
           Called == \A k \in Key : obj[k][2] <= generation[Home(obj[k])]
<1>t. /\ generation \in [Replica -> Generation] /\ obj \in [Key -> Object]
      /\ members \in [Object -> SUBSET Key] /\ Generation \subseteq Nat
      /\ \A r \in Replica : Current(r) \in Object
      /\ Object = Replica \X Generation
  BY BoundsAreNaturals, ObjectTypes DEF TypeOK, Generation, Object
<1>n. /\ \A r \in Replica : generation[r] \in Nat
      /\ \A g \in Generation : g \in Nat
      /\ \A k \in Key : obj[k] \in Object /\ obj[k][1] \in Replica /\ obj[k][2] \in Nat
  BY <1>t
<1>h. Empty /\ Called
  BY DEF ObjectsAreFresh
<1>s. SUFFICES Empty' /\ Called'
  BY DEF ObjectsAreFresh
<1>1. ASSUME NEW k \in Key, NEW x, StartCall(k, x) PROVE Empty' /\ Called'
  <2>1. generation' = generation /\ members' = members
    BY <1>1 DEF StartCall, leadership, memory
  <2>2. PICK r \in Replica : obj' = [obj EXCEPT ![k] = Current(r)]
    BY <1>1 DEF StartCall
  <2>3. \A j \in Key : obj'[j] = obj[j] \/ (obj'[j][1] = r /\ obj'[j][2] = generation[r])
    BY <1>t, <2>2 DEF Current
  <2>4. Called'
    BY <1>n, <1>h, <2>1, <2>3 DEF Home
  <2> QED BY <1>h, <2>1, <2>4
<1>2. ASSUME NEW k \in Key, Call(k) PROVE Empty' /\ Called'
  <2>1. generation' = generation /\ obj' = obj
    BY <1>2, CallMemory DEF leadership
  <2>2. Called'
    BY <1>h, <2>1 DEF Home
  <2>3. \A r \in Replica : \A g \in Generation : g > generation[r] => <<r, g>> # obj[k]
    <3> SUFFICES ASSUME NEW r \in Replica, NEW g \in Generation, g > generation[r], <<r, g>> = obj[k]
                 PROVE  FALSE
      OBVIOUS
    <3>1. obj[k][1] = r /\ obj[k][2] = g
      OBVIOUS
    <3>2. g <= generation[r]
      BY <1>h, <3>1 DEF Home
    <3> QED BY <1>n, <3>2
  <2>4. \A o \in Object : o # obj[k] => members'[o] = members[o]
    BY <1>t, <1>2, CallMemory
  <2> QED BY <1>t, <1>h, <2>1, <2>2, <2>3, <2>4
<1>3. ASSUME NEW r \in Replica, CleanControlPlaneInMemoryData(r) PROVE Empty' /\ Called'
  <2>1. /\ generation' = [generation EXCEPT ![r] = @ + 1]
        /\ members' = members /\ obj' = obj
    BY <1>3 DEF CleanControlPlaneInMemoryData, memory, calls
  <2>2. \A q \in Replica : generation'[q] \in Nat /\ generation'[q] >= generation[q]
    <3>1. \A q \in Replica : generation'[q] = IF q = r THEN generation[q] + 1 ELSE generation[q]
      BY <1>t, <2>1
    <3> QED BY <1>n, <3>1
  <2>3. Called'
    BY <1>n, <1>h, <2>1, <2>2 DEF Home
  <2>4. Empty'
    <3> SUFFICES ASSUME NEW q \in Replica, NEW g \in Generation, g > generation'[q]
                 PROVE  members[<<q, g>>] = {}
      BY <2>1
    <3>1. g > generation[q]
      BY <1>n, <2>2
    <3> QED BY <1>h, <3>1
  <2> QED BY <2>3, <2>4
<1>4. ASSUME NEW r \in Replica, Main(r), ~CleanControlPlaneInMemoryData(r) PROVE Empty' /\ Called'
  <2>1. generation' = generation /\ obj' = obj
    BY <1>4 DEF Main, StopNodeMonitoring, ReconstructDataplaneState, ReconstructWorkersState,
       ReconstructServiceState, Reconstructing, SetLeader, ConnectToWorker, StartReconstructedService,
       leadership, calls
  <2>2. members' = members \/ \E M : members' = [members EXCEPT ![Current(r)] = M]
    BY <1>4 DEF Main, StopNodeMonitoring, ReconstructDataplaneState, ReconstructWorkersState,
       ReconstructServiceState, Reconstructing, SetLeader, ConnectToWorker, StartReconstructedService,
       memory
  <2>3. \A q \in Replica : \A g \in Generation : g > generation[q] => <<q, g>> # Current(r)
    BY <1>t DEF Current
  <2> QED BY <1>t, <1>h, <2>1, <2>2, <2>3 DEF Home
<1>5. ASSUME NEW r \in Replica, Crash(r) PROVE Empty' /\ Called'
  <2>1. generation' = generation /\ obj' = obj
    BY <1>5 DEF Crash
  <2>2. \A o \in Object : members'[o] \in {members[o], {}}
    BY <1>5 DEF Crash
  <2> QED BY <1>t, <1>h, <2>1, <2>2 DEF Home
<1>6. ASSUME NEW r \in Replica, Elect(r) \/ Depose(r) PROVE Empty' /\ Called'
  <2>1. UNCHANGED <<generation, members, obj>>
    BY <1>6 DEF Elect, Depose, memory, calls
  <2> QED BY <1>h, <2>1 DEF Home
<1>7. CASE UNCHANGED <<leadership, members, calls, answered, alone, listed, slaveOf>>
  BY <1>h, <1>7 DEF Home, leadership, calls
<1> QED BY <1>1, <1>2, <1>3, <1>4, <1>5, <1>6, <1>7, QuietSteps

(* An answer is unknown from the write of the next call to the end of it.  *)
LEMMA UnknownStep ==
  ASSUME TypeOK, WritesAreUnknown, [Next]_vars PROVE WritesAreUnknown'
<1> USE DEF WritesAreUnknown
<1>t. /\ pc \in [Key -> {"idle", "locking", "waiting", "unblocked", "stuck"}]
      /\ answered \in [Key -> {"unknown", "registered", "deregistered"}]
  BY DEF TypeOK
<1>1. ASSUME NEW k \in Key, NEW x, StartCall(k, x) PROVE WritesAreUnknown'
  BY <1>t, <1>1 DEF StartCall
<1>2. ASSUME NEW k \in Key, Call(k) PROVE WritesAreUnknown'
  <2>1. CASE Persist(k)
    BY <1>t, <2>1 DEF Persist
  <2>2. CASE ~Persist(k)
    BY <1>t, <1>2, <2>2, CallEffect DEF AnsweredAfterWait
  <2> QED BY <2>1, <2>2
<1>3. ASSUME NEW r \in Replica, SetLeader(r) PROVE WritesAreUnknown'
  <2>1. \A k \in Key : pc'[k] = pc[k] \/ pc[k] = "waiting"
    BY <1>t, <1>3 DEF SetLeader
  <2> QED BY <1>3, <2>1 DEF SetLeader, history
<1>4. ASSUME NEW r \in Replica, Crash(r) PROVE WritesAreUnknown'
  BY <1>t, <1>4 DEF Crash, history
<1>5. ASSUME NEW r \in Replica, Replicate(r) PROVE WritesAreUnknown'
  BY <1>5 DEF Replicate, calls, history
<1>6. CASE UNCHANGED <<redis, calls, answered>>
  BY <1>6 DEF calls
<1> QED BY <1>1, <1>2, <1>3, <1>4, <1>5, <1>6, UnseenSteps

(* Only SetLeader makes a replica the leader that all instances follow, and
   the history of a replica that was disturbed starts again with a new object
   only.  *)
LEMMA LeadingStep ==
  ASSUME TypeOK, NEW r \in Replica, [Next]_vars
  PROVE  /\ Leading(r)' => Leading(r) \/ SetLeader(r)
         /\ alone'[r] => alone[r] \/ CleanControlPlaneInMemoryData(r)
         /\ main'[r] = "leading" => main[r] = "leading" \/ SetLeader(r)
<1> DEFINE Goal == /\ Leading(r)' => Leading(r) \/ SetLeader(r)
                   /\ alone'[r] => alone[r] \/ CleanControlPlaneInMemoryData(r)
                   /\ main'[r] = "leading" => main[r] = "leading" \/ SetLeader(r)
<1>t. /\ main \in [Replica -> {"follower", "elected", "dataplanes", "workers", "services",
                               "starting", "leading", "deposed"}]
      /\ believes \in [Replica -> BOOLEAN] /\ alone \in [Replica -> BOOLEAN]
  BY DEF TypeOK
<1>u. CASE UNCHANGED <<believes, main, alone, slaveOf>>
  BY <1>u DEF Leading
<1>1. ASSUME NEW k \in Key, NEW x, StartCall(k, x) PROVE Goal
  <2>1. alone'[r] => alone[r]
    BY <1>1 DEF StartCall
  <2> QED BY <1>1, <2>1 DEF StartCall, Leading, leadership, redis
<1>2. ASSUME NEW k \in Key, Call(k) PROVE Goal
  BY <1>2, <1>u, CallMemory DEF leadership
<1>3. ASSUME NEW q \in Replica, Elect(q) PROVE Goal
  <2>1. alone' = alone /\ slaveOf' = slaveOf
    BY <1>3 DEF Elect, history, redis
  <2>2. main' = [main EXCEPT ![q] = "elected"] /\ believes' = [believes EXCEPT ![q] = TRUE]
    BY <1>3 DEF Elect
  <2> QED BY <1>t, <2>1, <2>2 DEF Leading
<1>4. ASSUME NEW q \in Replica, Depose(q) PROVE Goal
  <2>1. alone' = alone /\ slaveOf' = slaveOf /\ main' = main
    BY <1>4 DEF Depose, history, redis
  <2>2. believes' = [believes EXCEPT ![q] = FALSE]
    BY <1>4 DEF Depose
  <2> QED BY <1>t, <2>1, <2>2 DEF Leading
<1>5. ASSUME NEW q \in Replica, Crash(q) PROVE Goal
  <2>1. alone' = alone /\ slaveOf' = slaveOf
    BY <1>5 DEF Crash, history, redis
  <2>2. main' = [main EXCEPT ![q] = "follower"] /\ believes' = [believes EXCEPT ![q] = FALSE]
    BY <1>5 DEF Crash
  <2> QED BY <1>t, <2>1, <2>2 DEF Leading
<1>6. ASSUME NEW q \in Replica, CleanControlPlaneInMemoryData(q) PROVE Goal
  <2>1. believes' = believes /\ slaveOf' = slaveOf
    BY <1>6 DEF CleanControlPlaneInMemoryData, redis
  <2>2. main' = [main EXCEPT ![q] = IF @ = "elected" THEN "dataplanes" ELSE "follower"]
        /\ alone' = [alone EXCEPT ![q] = \A k \in Key : pc[k] = "idle"]
    BY <1>6 DEF CleanControlPlaneInMemoryData
  <2>3. q # r => alone'[r] = alone[r] /\ main'[r] = main[r]
    BY <1>t, <2>2
  <2>4. main'[q] # "leading"
    BY <1>t, <2>2
  <2> QED BY <1>6, <2>1, <2>3, <2>4 DEF Leading
<1>7. ASSUME NEW q \in Replica, SetLeader(q) PROVE Goal
  <2>1. alone' = alone /\ believes' = believes /\ main' = [main EXCEPT ![q] = "leading"]
    BY <1>7 DEF SetLeader, history
  <2>2. slaveOf'[q] = q
    BY <1>7 DEF SetLeader
  <2> QED BY <1>t, <1>7, <2>1, <2>2 DEF Leading
<1>8. ASSUME NEW q \in Replica, Main(q), ~CleanControlPlaneInMemoryData(q), ~SetLeader(q) PROVE Goal
  <2>1. alone' = alone /\ believes' = believes /\ slaveOf' = slaveOf
    BY <1>8 DEF Main, StopNodeMonitoring, ReconstructDataplaneState, ReconstructWorkersState,
       ReconstructServiceState, Reconstructing, ConnectToWorker, StartReconstructedService,
       leadership, redis, history
  <2>2. \/ main' = main
        \/ \E m \in {"deposed", "workers", "services", "starting"} : main' = [main EXCEPT ![q] = m]
    BY <1>8 DEF Main, StopNodeMonitoring, ReconstructDataplaneState, ReconstructWorkersState,
       ReconstructServiceState, Reconstructing, ConnectToWorker, StartReconstructedService,
       leadership
  <2> QED BY <1>t, <2>1, <2>2 DEF Leading
<1>9. ASSUME UNCHANGED <<leadership, members, calls, answered, alone, listed, slaveOf>> PROVE Goal
  BY <1>9, <1>u DEF leadership
<1> HIDE DEF Goal
<1>10. ASSUME NEW q \in Replica, Elect(q) \/ Depose(q) \/ Main(q) \/ Crash(q) PROVE Goal
  BY <1>3, <1>4, <1>5, <1>6, <1>7, <1>8, <1>10
<1>11. Goal
  BY <1>1, <1>2, <1>9, <1>10, QuietSteps
<1> QED BY <1>11 DEF Goal

(* A step that keeps the stage of the main loop, what the object knows of the
   services, and the calls but for some that end, keeps r undisturbed.  *)
LEMMA UndisturbedFrame ==
  ASSUME NEW r, Undisturbed(r), main'[r] = main[r], generation'[r] = generation[r],
         Known(r)' \cap Service = Known(r) \cap Service,
         \A k \in Key : pc'[k] # "idle" => pc[k] # "idle" /\ obj'[k] = obj[k],
         Leading(r)' => Leading(r),
         \A s \in Service : answered'[s] \in {answered[s], "unknown"}
  PROVE  Undisturbed(r)'
<1>1. Current(r)' = Current(r)
  BY DEF Current
<1>2. (main[r] \in Reconstruction => \A k \in Key : pc[k] = "idle")'
  BY DEF Undisturbed
<1>3. (main[r] \in Reconstruction \ {"starting"} => Known(r) \cap Service = {})'
  BY DEF Undisturbed
<1>4. (main[r] = "leading" => \A k \in Key : pc[k] # "idle" /\ Home(obj[k]) = r => obj[k] = Current(r))'
  BY <1>1 DEF Undisturbed, Home
<1>5. (main[r] = "starting" \/ Leading(r) =>
         \A s \in Service : /\ answered[s] = "registered" => s \in Known(r)
                            /\ answered[s] = "deregistered" => s \notin Known(r))'
  <2> SUFFICES ASSUME (main[r] = "starting" \/ Leading(r))', NEW s \in Service
               PROVE  /\ answered'[s] = "registered" => s \in Known(r)'
                      /\ answered'[s] = "deregistered" => s \notin Known(r)'
    OBVIOUS
  <2>1. s \in Known(r)' <=> s \in Known(r)
    OBVIOUS
  <2> QED BY <2>1 DEF Undisturbed
<1> QED BY <1>2, <1>3, <1>4, <1>5 DEF Undisturbed

(* A replica that neither leads nor reconstructs has nothing to show.  *)
LEMMA NothingToShow ==
  ASSUME NEW r, main'[r] \notin Reconstruction, main'[r] # "leading" PROVE Undisturbed(r)' /\ Informed(r)'
BY DEF Undisturbed, Informed, Leading, Reconstruction

(* A call that starts is one on the current object, and disturbs every
   reconstruction.  *)
LEMMA UndisturbedStart ==
  ASSUME TypeOK, NEW r \in Replica, NEW k \in Key, NEW x, StartCall(k, x), alone'[r], alone[r] => Undisturbed(r)
  PROVE  Undisturbed(r)'
<1>1. UNCHANGED <<believes, main, generation, members, slaveOf, answered, listed>>
  BY DEF StartCall, leadership, memory, redis
<1>2. alone[r] /\ main[r] = "leading"
  BY DEF StartCall
<1>3. Current(r)' = Current(r) /\ Known(r)' = Known(r) /\ Leading(r)' = Leading(r)
  BY <1>1 DEF Current, Known, Leading
<1>4. PICK q \in Replica : obj' = [obj EXCEPT ![k] = Current(q)]
  BY DEF StartCall
<1>5. \A j \in Key : pc'[j] # "idle" /\ Home(obj[j])' = r => obj'[j] = Current(r)
  <2>1. \A j \in Key \ {k} : pc'[j] = pc[j] /\ obj'[j] = obj[j]
    BY <1>4 DEF StartCall, TypeOK
  <2>2. obj'[k] = Current(q)
    BY <1>4 DEF TypeOK
  <2>3. Home(Current(q)) = r => Current(q) = Current(r)
    BY DEF Home, Current
  <2> QED BY <1>2, <2>1, <2>2, <2>3 DEF Undisturbed, Home
<1>6. "leading" \notin Reconstruction
  BY DEF Reconstruction
<1> QED BY <1>1, <1>2, <1>3, <1>5, <1>6 DEF Undisturbed

(* The call of a service that reaches all instances is one on the object of
   the leader, and the answer is what becomes of the map.  *)
LEMMA UndisturbedCall ==
  ASSUME TypeOK, WritesArePending, WritesAreUnknown, NEW r \in Replica, NEW k \in Key, Call(k),
         Undisturbed(r), main[r] = "leading" => listed[r] \cap Service = {}
  PROVE  Undisturbed(r)' /\ main[r] \notin Reconstruction
         /\ (Leading(r) /\ pc[k] = "waiting" => obj[k] = Current(r))
<1>1. /\ UNCHANGED <<believes, main, generation, listed, obj, slaveOf>>
      /\ pc[k] # "idle" /\ \A j \in Key : pc'[j] # "idle" => pc[j] # "idle"
  BY CallMemory DEF leadership
<1>2. Current(r)' = Current(r) /\ Leading(r)' = Leading(r)
  BY <1>1 DEF Current, Leading
<1>3. main[r] \notin Reconstruction
  BY <1>1 DEF Undisturbed
<1>4. ASSUME Leading(r), pc[k] = "waiting" PROVE obj[k] = Current(r)
  <2>1. Home(obj[k]) \in Replica
    BY ObjectTypes DEF TypeOK
  <2>2. Home(obj[k]) = r
    BY <1>4, <2>1 DEF WritesArePending, Writable, Leading
  <2> QED BY <1>1, <1>4, <2>2 DEF Undisturbed, Leading
<1>5. \A j \in Key : main[r] = "leading" /\ pc'[j] # "idle" /\ Home(obj[j])' = r => obj'[j] = Current(r)
  BY <1>1 DEF Undisturbed, Home
<1>6. ASSUME Leading(r), NEW s \in Service
      PROVE  /\ answered'[s] = "registered" => s \in Known(r)'
             /\ answered'[s] = "deregistered" => s \notin Known(r)'
  <2>0. /\ s \in Key /\ Current(r) \in Object /\ s \notin listed[r] /\ listed' = listed
        /\ members \in [Object -> SUBSET Key]
        /\ answered \in [Key -> {"unknown", "registered", "deregistered"}]
    BY <1>1, <1>6, ObjectTypes DEF Key, TypeOK, Leading
  <2>1. /\ s \in Known(r) <=> s \in members[Current(r)]
        /\ s \in Known(r)' <=> s \in members'[Current(r)]
    BY <1>2, <2>0 DEF Known
  <2>2. /\ answered[s] = "registered" => s \in members[Current(r)]
        /\ answered[s] = "deregistered" => s \notin members[Current(r)]
    BY <1>6, <2>1 DEF Undisturbed
  <2>3. pc[k] = "waiting" => answered[k] = "unknown"
    BY DEF WritesAreUnknown
  <2>4. CASE members' = members /\ answered' \in {answered, [answered EXCEPT ![k] = "unknown"]}
    <3>1. answered'[s] \in {answered[s], "unknown"}
      BY <2>0, <2>4
    <3> QED BY <2>1, <2>2, <2>4, <3>1
  <2>5. CASE /\ pc[k] = "waiting" /\ members' = [members EXCEPT ![obj[k]] = @ \cup {k}]
             /\ answered' \in {answered, [answered EXCEPT ![k] = "registered"]}
    <3>1. members'[Current(r)] = members[Current(r)] \cup {k}
      BY <1>4, <1>6, <2>0, <2>5
    <3>2. IF s = k THEN answered'[s] \in {"unknown", "registered"} ELSE answered'[s] = answered[s]
      BY <2>0, <2>3, <2>5
    <3> QED BY <2>1, <2>2, <3>1, <3>2
  <2>6. CASE /\ pc[k] = "waiting" /\ members' = [members EXCEPT ![obj[k]] = @ \ {k}]
             /\ answered' = [answered EXCEPT ![k] = "deregistered"]
    <3>1. members'[Current(r)] = members[Current(r)] \ {k}
      BY <1>4, <1>6, <2>0, <2>6
    <3>2. IF s = k THEN answered'[s] = "deregistered" ELSE answered'[s] = answered[s]
      BY <2>0, <2>6
    <3> QED BY <2>1, <2>2, <3>1, <3>2
  <2> QED BY <2>4, <2>5, <2>6, CallMemory
<1>7. main[r] # "starting"
  BY <1>3 DEF Reconstruction
<1>8. Undisturbed(r)'
  BY <1>1, <1>2, <1>3, <1>5, <1>6, <1>7 DEF Undisturbed
<1> QED BY <1>3, <1>4, <1>8

(* A step that makes no new data plane known to r, and takes from those that it
   knows nothing that they have, keeps them informed.  *)
LEMMA InformedFrame ==
  ASSUME NEW r, Informed(r), generation'[r] = generation[r],
         main'[r] \in Reconstruction => main[r] \in Reconstruction, Leading(r)' => Leading(r),
         members'[Current(r)] \cap (Service \cup DataPlane) \subseteq members[Current(r)],
         \A d \in DataPlane :
           \/ phase'[d] \in {"down", "register"}
           \/ phase'[d] = "list" /\ main'[r] \notin Reconstruction
           \/ /\ phase'[d] = phase[d] /\ synced'[d] = synced[d]
              /\ deployed[d] \cup missed[d] \subseteq deployed'[d] \cup missed'[d]
  PROVE  Informed(r)'
<1>1. Current(r)' = Current(r)
  BY DEF Current
<1>2. SUFFICES ASSUME NEW d \in members'[Current(r)] \cap DataPlane, phase'[d] \in {"list", "add", "up"}
               PROVE  /\ main'[r] \in Reconstruction =>
                           members'[Current(r)] \cap Service \subseteq deployed'[d] \cup missed'[d]
                      /\ Leading(r)' /\ phase'[d] \in {"add", "up"} =>
                           members'[Current(r)] \cap Service \subseteq Has(d)'
  BY <1>1 DEF Informed
<1>3. CASE phase'[d] = "list" /\ main'[r] \notin Reconstruction
  BY <1>3
<1>4. CASE /\ phase'[d] = phase[d] /\ synced'[d] = synced[d]
           /\ deployed[d] \cup missed[d] \subseteq deployed'[d] \cup missed'[d]
  <2>1. Has(d) \subseteq Has(d)'
    BY <1>4 DEF Has
  <2>2. d \in members[Current(r)] /\ members'[Current(r)] \cap Service \subseteq members[Current(r)] \cap Service
    OBVIOUS
  <2>3. /\ main[r] \in Reconstruction => members[Current(r)] \cap Service \subseteq deployed[d] \cup missed[d]
        /\ Leading(r) /\ phase[d] \in {"add", "up"} => members[Current(r)] \cap Service \subseteq Has(d)
    BY <1>2, <1>4, <2>2 DEF Informed
  <2> QED BY <1>4, <2>1, <2>2, <2>3
<1> QED BY <1>2, <1>3, <1>4

(* A service that is announced to the data planes of an object is one that
   each of them has or is known to have missed; none loses another one.  *)
LEMMA Announced ==
  ASSUME TypeOK, NEW o, NEW R, NEW S, AddDeployments(o, R, S), NEW d \in DataPlane
  PROVE  /\ deployed[d] \cup missed[d] \subseteq deployed'[d] \cup missed'[d]
         /\ d \in members[o] => S \subseteq deployed'[d] \cup missed'[d]
BY DEF AddDeployments, AddDeployment

(* The steps of one replica are nothing to what another one knows.  *)
LEMMA OtherReplica ==
  ASSUME TypeOK, NEW r \in Replica, NEW q \in Replica \ {r},
         Elect(q) \/ Depose(q) \/ Main(q) \/ Crash(q)
  PROVE  /\ main'[r] = main[r] /\ generation'[r] = generation[r] /\ listed'[r] = listed[r]
         /\ members'[Current(r)] = members[Current(r)]
         /\ answered' = answered /\ obj' = obj /\ \A k \in Key : pc'[k] # "idle" => pc[k] # "idle"
         /\ synced' = synced /\ \A d \in DataPlane : phase'[d] \in {phase[d], "down"}
         /\ \A d \in DataPlane : deployed[d] \cup missed[d] \subseteq deployed'[d] \cup missed'[d]
<1>t. /\ Current(r) \in Object /\ Current(q) # Current(r) /\ Home(Current(r)) = r
      /\ main \in [Replica -> {"follower", "elected", "dataplanes", "workers", "services",
                               "starting", "leading", "deposed"}]
      /\ members \in [Object -> SUBSET Key] /\ listed \in [Replica -> SUBSET Key]
      /\ generation \in [Replica -> Generation]
  BY ObjectTypes DEF TypeOK, Current, Home
<1> USE DEF leadership, memory, redis, calls, dataplanes, history
<1>1. CASE Elect(q)
  BY <1>t, <1>1 DEF Elect
<1>2. CASE Depose(q)
  BY <1>t, <1>2 DEF Depose
<1>3. CASE StopNodeMonitoring(q)
  BY <1>t, <1>3 DEF StopNodeMonitoring
<1>4. CASE CleanControlPlaneInMemoryData(q)
  BY <1>t, <1>4 DEF CleanControlPlaneInMemoryData
<1>5. CASE ReconstructDataplaneState(q)
  BY <1>t, <1>5 DEF ReconstructDataplaneState, Reconstructing
<1>6. CASE ReconstructWorkersState(q)
  BY <1>t, <1>6 DEF ReconstructWorkersState, Reconstructing
<1>7. CASE ReconstructServiceState(q)
  BY <1>t, <1>7 DEF ReconstructServiceState, Reconstructing
<1>8. CASE SetLeader(q)
  <2>1. \A k \in Key : pc'[k] # "idle" => pc[k] # "idle"
    BY <1>8 DEF SetLeader
  <2> QED BY <1>t, <1>8, <2>1 DEF SetLeader
<1>9. ASSUME NEW n \in Node, ConnectToWorker(q, n)
      PROVE  /\ UNCHANGED <<main, generation, answered, obj, pc, synced, phase, deployed, missed>>
             /\ listed'[r] = listed[r] /\ members'[Current(r)] = members[Current(r)]
  BY <1>t, <1>9 DEF ConnectToWorker
<1>10. ASSUME NEW s \in Service, StartReconstructedService(q, s)
       PROVE  /\ UNCHANGED <<main, generation, answered, obj, pc, synced, phase>>
              /\ listed'[r] = listed[r] /\ members'[Current(r)] = members[Current(r)]
              /\ \A d \in DataPlane : deployed[d] \cup missed[d] \subseteq deployed'[d] \cup missed'[d]
  <2>1. PICK R : AddDeployments(Current(q), R, {s})
    BY <1>10 DEF StartReconstructedService
  <2>2. \A d \in DataPlane : deployed[d] \cup missed[d] \subseteq deployed'[d] \cup missed'[d]
    BY <2>1, Announced
  <2> QED BY <1>t, <1>10, <2>2 DEF StartReconstructedService
<1>11. CASE Crash(q)
  <2>1. \A k \in Key : pc'[k] # "idle" => pc[k] # "idle"
    BY <1>11 DEF Crash
  <2>2. members'[Current(r)] = members[Current(r)]
    BY <1>t, <1>11 DEF Crash
  <2>3. \A d \in DataPlane : phase'[d] \in {phase[d], "down"}
    BY <1>11 DEF Crash
  <2> QED BY <1>t, <1>11, <2>1, <2>2, <2>3 DEF Crash
<1> QED BY <1>1, <1>2, <1>3, <1>4, <1>5, <1>6, <1>7, <1>8, <1>9, <1>10, <1>11 DEF Main

(* The new object of a main loop knows nothing.  *)
LEMMA CleanStep ==
  ASSUME TypeOK, ObjectsAreFresh, NEW r \in Replica, CleanControlPlaneInMemoryData(r), alone'[r]
  PROVE  Undisturbed(r)' /\ Informed(r)'
<1>1. /\ generation' = [generation EXCEPT ![r] = @ + 1] /\ generation[r] < 2 * MaxElections
      /\ main' = [main EXCEPT ![r] = IF @ = "elected" THEN "dataplanes" ELSE "follower"]
      /\ listed' = [listed EXCEPT ![r] = {}] /\ alone' = [alone EXCEPT ![r] = \A k \in Key : pc[k] = "idle"]
      /\ members' = members /\ pc' = pc
  BY DEF CleanControlPlaneInMemoryData, memory, calls
<1>2. main'[r] \in {"dataplanes", "follower"} /\ listed'[r] = {} /\ \A k \in Key : pc'[k] = "idle"
  BY <1>1 DEF TypeOK
<1>3. generation'[r] = generation[r] + 1 /\ generation[r] + 1 \in Generation /\ generation[r] + 1 > generation[r]
  BY <1>1, BoundsAreNaturals DEF TypeOK, Generation
<1>4. members'[Current(r)'] = {}
  BY <1>1, <1>3 DEF ObjectsAreFresh, Current
<1>5. Known(r)' = {} /\ ~Leading(r)'
  BY <1>2, <1>4 DEF Known, Leading
<1>6. Informed(r)'
  BY <1>4 DEF Informed
<1> QED BY <1>2, <1>5, <1>6 DEF Undisturbed

(* The stages of a reconstruction.  *)
LEMMA ReconstructionStep ==
  ASSUME TypeOK, Reg!AnsweredIsDurable, NEW r \in Replica, Undisturbed(r), Informed(r),
         ReconstructDataplaneState(r) \/ ReconstructWorkersState(r) \/ ReconstructServiceState(r)
  PROVE  Undisturbed(r)' /\ Informed(r)'
<1>t. /\ Current(r) \in Object /\ members \in [Object -> SUBSET Key] /\ listed \in [Replica -> SUBSET Key]
  BY ObjectTypes DEF TypeOK
<1>1. PICK to \in {"workers", "services", "starting"} :
        /\ main[r] \in Reconstruction \ {"starting"} /\ main' = [main EXCEPT ![r] = to]
        /\ UNCHANGED <<generation, pc, answered>>
        /\ to = "starting" <=> ReconstructServiceState(r)
  BY DEF ReconstructDataplaneState, ReconstructWorkersState, ReconstructServiceState, Reconstructing,
     Reconstruction, calls
<1>2. main'[r] = to /\ Current(r)' = Current(r)
  BY <1>1 DEF TypeOK, Current
<1>3. (\A k \in Key : pc[k] = "idle") /\ Known(r) \cap Service = {}
  BY <1>1 DEF Undisturbed
<1>4. members'[Current(r)] \cap Service = {}
  <2>1. members'[Current(r)] \cap Service = members[Current(r)] \cap Service
    <3>1. CASE ReconstructDataplaneState(r)
      <4>1. members'[Current(r)] = members[Current(r)] \cup (db[r] \cap DataPlane)
        BY <1>t, <3>1 DEF ReconstructDataplaneState, GetDataPlaneInformation
      <4> QED BY <4>1, KindsAreDistinct
    <3>2. CASE ReconstructWorkersState(r) \/ ReconstructServiceState(r)
      BY <3>2 DEF ReconstructWorkersState, ReconstructServiceState, memory
    <3> QED BY <3>1, <3>2
  <2> QED BY <1>3, <2>1 DEF Known
<1>5. CASE to # "starting"
  <2>1. listed'[r] \cap Service = listed[r] \cap Service
    <3>1. CASE ReconstructDataplaneState(r)
      BY <3>1 DEF ReconstructDataplaneState
    <3>2. CASE ReconstructWorkersState(r)
      <4>1. listed'[r] = listed[r] \cup (db[r] \cap Node)
        BY <1>t, <3>2 DEF ReconstructWorkersState, GetWorkerNodeInformation
      <4> QED BY <4>1, KindsAreDistinct
    <3> QED BY <1>1, <1>5, <3>1, <3>2
  <2>2. Known(r)' \cap Service = {}
    BY <1>2, <1>3, <1>4, <2>1 DEF Known
  <2> QED BY <1>1, <1>2, <1>3, <1>4, <1>5, <2>2 DEF Undisturbed, Informed, Leading
<1>6. CASE to = "starting"
  <2>1. listed'[r] = listed[r] \cup (db[r] \cap Service)
    BY <1>t, <1>1, <1>6 DEF ReconstructServiceState, GetServiceInformation
  <2>2. Known(r)' \cap Service = db[r] \cap Service
    BY <1>2, <1>3, <1>4, <2>1 DEF Known
  <2>3. \A s \in Service : /\ answered[s] = "registered" => s \in db[r]
                           /\ answered[s] = "deregistered" => s \notin db[r]
    BY DEF Reg!AnsweredIsDurable, Lasting
  <2> QED BY <1>1, <1>2, <1>3, <1>4, <1>6, <2>2, <2>3 DEF Undisturbed, Informed, Leading, Reconstruction
<1> QED BY <1>5, <1>6

(* A service that was read is put in the map while the reconstruction lasts.  *)
LEMMA StartServiceStep ==
  ASSUME TypeOK, NEW r \in Replica, NEW s \in Service, StartReconstructedService(r, s),
         Undisturbed(r), Informed(r), main[r] = "leading" => listed[r] \cap Service = {},
         Leading(r)' => Leading(r)
  PROVE  Undisturbed(r)' /\ Informed(r)'
<1>t. /\ Current(r) \in Object /\ members \in [Object -> SUBSET Key] /\ listed \in [Replica -> SUBSET Key]
  BY ObjectTypes DEF TypeOK
<1>1. /\ s \in listed[r] /\ UNCHANGED <<main, generation, pc, obj, answered, phase, synced>>
      /\ members' = [members EXCEPT ![Current(r)] = @ \cup {s}] /\ listed' = [listed EXCEPT ![r] = @ \ {s}]
  BY DEF StartReconstructedService, leadership, calls
<1>2. Current(r)' = Current(r) /\ members'[Current(r)] = members[Current(r)] \cup {s}
      /\ listed'[r] = listed[r] \ {s}
  BY <1>t, <1>1 DEF Current
<1>3. Known(r)' = Known(r)
  BY <1>1, <1>2 DEF Known
<1>4. Undisturbed(r)'
  BY <1>1, <1>3, UndisturbedFrame
<1>5. ~Leading(r)'
  BY <1>1 DEF Leading
<1>6. PICK R : AddDeployments(Current(r), R, {s})
  BY DEF StartReconstructedService
<1>7. ASSUME NEW d \in members'[Current(r)] \cap DataPlane, main'[r] \in Reconstruction,
             phase'[d] \in {"list", "add", "up"}
      PROVE  members'[Current(r)] \cap Service \subseteq deployed'[d] \cup missed'[d]
  <2>1. d \in members[Current(r)] /\ d \in DataPlane
    BY <1>2, KindsAreDistinct
  <2>2. members[Current(r)] \cap Service \subseteq deployed[d] \cup missed[d]
    BY <1>1, <1>7, <2>1 DEF Informed
  <2>3. deployed[d] \cup missed[d] \subseteq deployed'[d] \cup missed'[d] /\ {s} \subseteq deployed'[d] \cup missed'[d]
    BY <1>6, <2>1, Announced
  <2> QED BY <1>2, <2>2, <2>3
<1>8. Informed(r)'
  BY <1>2, <1>5, <1>7 DEF Informed
<1> QED BY <1>4, <1>8

(* SetLeader ends the reconstruction when the services that were read are in
   the map.  *)
LEMMA SetLeaderStep ==
  ASSUME TypeOK, NEW r \in Replica, SetLeader(r), Undisturbed(r), Informed(r)
  PROVE  Undisturbed(r)' /\ Informed(r)'
<1>1. /\ main[r] = "starting" /\ main' = [main EXCEPT ![r] = "leading"]
      /\ UNCHANGED <<generation, members, listed, obj, answered, phase, deployed, synced, missed>>
  BY DEF SetLeader, dataplanes, history
<1>2. main'[r] = "leading" /\ Current(r)' = Current(r) /\ Known(r)' = Known(r) /\ main[r] \in Reconstruction
      /\ main'[r] \notin Reconstruction
  BY <1>1 DEF TypeOK, Current, Known, Reconstruction
<1>3. \A k \in Key : pc'[k] = "idle"
  <2>1. \A k \in Key : pc[k] = "idle"
    BY <1>2 DEF Undisturbed
  <2> QED BY <2>1 DEF SetLeader
<1>4. Undisturbed(r)'
  BY <1>1, <1>2, <1>3 DEF Undisturbed
<1>5. Informed(r)'
  BY <1>1, <1>2 DEF Informed, Has
<1> QED BY <1>4, <1>5

(* The steps of the replicas keep what a leader knows.  *)
LEMMA ReplicaKnows ==
  ASSUME TypeOK, Reg!AnsweredIsDurable, ObjectsAreFresh, LeadersKnow, [Next]_vars,
         NEW r \in Replica, alone'[r],
         NEW q \in Replica, Elect(q) \/ Depose(q) \/ Main(q) \/ Crash(q)
  PROVE  Undisturbed(r)' /\ Informed(r)'
<1>1. CASE q # r
  <2>1. /\ main'[r] = main[r] /\ generation'[r] = generation[r] /\ listed'[r] = listed[r]
        /\ members'[Current(r)] = members[Current(r)]
        /\ answered' = answered /\ obj' = obj /\ \A k \in Key : pc'[k] # "idle" => pc[k] # "idle"
        /\ synced' = synced /\ \A d \in DataPlane : phase'[d] \in {phase[d], "down"}
        /\ \A d \in DataPlane : deployed[d] \cup missed[d] \subseteq deployed'[d] \cup missed'[d]
    BY <1>1, OtherReplica
  <2>2. ~SetLeader(r) /\ ~CleanControlPlaneInMemoryData(r)
    BY <2>1 DEF SetLeader, CleanControlPlaneInMemoryData, TypeOK
  <2>3. Undisturbed(r) /\ Informed(r) /\ (Leading(r)' => Leading(r))
    BY <2>2, LeadingStep DEF LeadersKnow
  <2>4. Known(r)' = Known(r)
    BY <2>1 DEF Known, Current
  <2>5. Undisturbed(r)'
    BY <2>1, <2>3, <2>4, UndisturbedFrame
  <2>6. Informed(r)'
    BY <2>1, <2>3, InformedFrame
  <2> QED BY <2>5, <2>6
<1>2. CASE Elect(r) \/ Crash(r) \/ StopNodeMonitoring(r)
  <2>1. main'[r] \in {"elected", "follower", "deposed"}
    BY <1>2 DEF Elect, Crash, StopNodeMonitoring, TypeOK
  <2> QED BY <2>1, NothingToShow DEF Reconstruction
<1>3. CASE CleanControlPlaneInMemoryData(r)
  BY <1>3, CleanStep
<1>4. ASSUME ~CleanControlPlaneInMemoryData(r)
      PROVE  /\ Undisturbed(r) /\ Informed(r) /\ (main[r] = "leading" => listed[r] \cap Service = {})
             /\ (SetLeader(r) \/ (Leading(r)' => Leading(r)))
  BY <1>4, LeadingStep DEF LeadersKnow
<1>5. CASE Depose(r)
  <2>1. UNCHANGED <<main, generation, members, listed, pc, obj, answered, synced, phase, deployed, missed>>
    BY <1>5 DEF Depose, memory, calls, dataplanes, history
  <2>2. ~SetLeader(r) /\ ~CleanControlPlaneInMemoryData(r)
    BY <2>1 DEF SetLeader, CleanControlPlaneInMemoryData, TypeOK
  <2>3. Known(r)' = Known(r)
    BY <2>1 DEF Known, Current
  <2>4. Undisturbed(r)'
    BY <1>4, <2>1, <2>2, <2>3, UndisturbedFrame
  <2>5. Informed(r)'
    BY <1>4, <2>1, <2>2, InformedFrame
  <2> QED BY <2>4, <2>5
<1>6. CASE ReconstructDataplaneState(r) \/ ReconstructWorkersState(r) \/ ReconstructServiceState(r)
  BY <1>3, <1>4, <1>6, ReconstructionStep
<1>7. CASE SetLeader(r)
  BY <1>3, <1>4, <1>7, SetLeaderStep
<1>8. ASSUME NEW n \in Node, ConnectToWorker(r, n) PROVE Undisturbed(r)' /\ Informed(r)'
  <2>1. /\ UNCHANGED <<main, generation, pc, obj, answered, synced, phase, deployed, missed>>
        /\ members' = [members EXCEPT ![Current(r)] = @ \cup {n}] /\ listed' = [listed EXCEPT ![r] = @ \ {n}]
    BY <1>8 DEF ConnectToWorker, leadership, calls, dataplanes, history
  <2>2. ~SetLeader(r) /\ ~CleanControlPlaneInMemoryData(r)
    BY <2>1 DEF SetLeader, CleanControlPlaneInMemoryData, TypeOK
  <2>3. Current(r)' = Current(r) /\ members'[Current(r)] = members[Current(r)] \cup {n}
        /\ listed'[r] = listed[r] \ {n}
    BY <2>1, ObjectTypes DEF TypeOK, Current
  <2>4. n \notin Service \cup DataPlane
    BY KindsAreDistinct
  <2>5. Known(r)' \cap Service = Known(r) \cap Service
    BY <2>3, <2>4 DEF Known
  <2>6. Undisturbed(r)'
    BY <1>4, <2>1, <2>2, <2>5, UndisturbedFrame
  <2>7. members'[Current(r)] \cap (Service \cup DataPlane) \subseteq members[Current(r)]
    BY <2>3, <2>4
  <2>8. Informed(r)'
    BY <1>4, <2>1, <2>2, <2>7, InformedFrame
  <2> QED BY <2>6, <2>8
<1>9. ASSUME NEW s \in Service, StartReconstructedService(r, s) PROVE Undisturbed(r)' /\ Informed(r)'
  <2>1. ~SetLeader(r)
    BY <1>9 DEF StartReconstructedService, SetLeader, leadership, TypeOK
  <2> QED BY <1>3, <1>4, <1>9, <2>1, StartServiceStep
<1> QED BY <1>1, <1>2, <1>3, <1>5, <1>6, <1>7, <1>8, <1>9 DEF Main

(* A data plane that copies the list has what the leader has, or another
   replica has given it the list.  *)
LEMMA DataPlaneInformed ==
  ASSUME TypeOK, NEW r \in Replica, Informed(r), NEW e \in DataPlane,
         StartDataPlane(e) \/ CrashDataPlane(e) \/ StartingDataPlane(e)
  PROVE  Informed(r)'
<1>0. UNCHANGED <<believes, main, generation, members, slaveOf>>
  BY DEF StartDataPlane, CrashDataPlane, StartingDataPlane, ListServices, SyncDeploymentCache,
     leadership, memory, redis
<1>1. Leading(r)' = Leading(r) /\ Current(r)' = Current(r)
  BY <1>0 DEF Leading, Current
<1>2. CASE StartDataPlane(e) \/ CrashDataPlane(e)
  <2>1. \A d \in DataPlane :
          \/ phase'[d] \in {"down", "register"}
          \/ /\ phase'[d] = phase[d] /\ synced'[d] = synced[d]
             /\ deployed'[d] = deployed[d] /\ missed'[d] = missed[d]
    BY <1>2 DEF StartDataPlane, CrashDataPlane, TypeOK, history
  <2> QED BY <1>0, <1>1, <2>1, InformedFrame
<1>3. CASE ListServices(e)
  <2>1. /\ phase[e] = "list" /\ phase' = [phase EXCEPT ![e] = "add"] /\ deployed' = deployed
        /\ \E q \in Replica :
             /\ synced' = [synced EXCEPT ![e] = members[Current(q)] \cap Service]
             /\ missed' = IF \A p \in Replica : slaveOf[p] = q THEN missed ELSE [missed EXCEPT ![e] = Service]
    BY <1>3 DEF ListServices
  <2>2. /\ \A d \in DataPlane : missed[d] \subseteq missed'[d]
        /\ \A d \in DataPlane \ {e} : phase'[d] = phase[d] /\ synced'[d] = synced[d]
    BY <2>1 DEF TypeOK
  <2>3. ASSUME NEW d \in members[Current(r)] \cap DataPlane, main[r] \in Reconstruction,
               phase'[d] \in {"list", "add", "up"}
        PROVE  members[Current(r)] \cap Service \subseteq deployed'[d] \cup missed'[d]
    <3>1. phase[d] \in {"list", "add", "up"}
      BY <2>1, <2>2, <2>3
    <3> QED BY <2>1, <2>2, <2>3, <3>1 DEF Informed
  <2>4. ASSUME NEW d \in members[Current(r)] \cap DataPlane, Leading(r), phase'[d] \in {"add", "up"}
        PROVE  members[Current(r)] \cap Service \subseteq Has(d)'
    <3>1. CASE d # e
      <4>1. members[Current(r)] \cap Service \subseteq Has(d)
        BY <2>2, <2>4, <3>1 DEF Informed
      <4>2. Has(d) \subseteq Has(d)'
        BY <2>1, <2>2, <3>1 DEF Has
      <4> QED BY <4>1, <4>2
    <3>2. CASE d = e
      <4>1. PICK q \in Replica :
               /\ synced' = [synced EXCEPT ![e] = members[Current(q)] \cap Service]
               /\ missed' = IF \A p \in Replica : slaveOf[p] = q THEN missed ELSE [missed EXCEPT ![e] = Service]
        BY <2>1
      <4>2. CASE q = r
        BY <2>1, <3>2, <4>1, <4>2 DEF Has, TypeOK
      <4>3. CASE q # r
        <5>1. missed'[e] = Service
          BY <2>4, <4>1, <4>3 DEF Leading, TypeOK
        <5> QED BY <3>2, <5>1 DEF Has
      <4> QED BY <4>2, <4>3
    <3> QED BY <3>1, <3>2
  <2> QED BY <1>0, <1>1, <2>3, <2>4 DEF Informed
<1>4. CASE SyncDeploymentCache(e)
  <2>1. /\ phase[e] = "add" /\ phase' = [phase EXCEPT ![e] = "up"] /\ missed' = missed
        /\ deployed' = [deployed EXCEPT ![e] = deployed[e] \cup synced[e]] /\ synced' = [synced EXCEPT ![e] = {}]
    BY <1>4 DEF SyncDeploymentCache, AddDeployment, history
  <2>2. \A d \in DataPlane : /\ Has(d) \subseteq Has(d)' /\ deployed[d] \subseteq deployed'[d]
                             /\ phase'[d] = phase[d] \/ (phase[d] = "add" /\ phase'[d] = "up")
    BY <2>1 DEF Has, TypeOK
  <2>3. ASSUME NEW d \in members[Current(r)] \cap DataPlane, main[r] \in Reconstruction,
               phase'[d] \in {"list", "add", "up"}
        PROVE  members[Current(r)] \cap Service \subseteq deployed'[d] \cup missed'[d]
    BY <2>1, <2>2, <2>3 DEF Informed
  <2>4. ASSUME NEW d \in members[Current(r)] \cap DataPlane, Leading(r), phase'[d] \in {"add", "up"}
        PROVE  members[Current(r)] \cap Service \subseteq Has(d)'
    BY <2>2, <2>4 DEF Informed
  <2> QED BY <1>0, <1>1, <2>3, <2>4 DEF Informed
<1> QED BY <1>2, <1>3, <1>4 DEF StartingDataPlane

(* The calls to the leader: a service is announced to the data planes in the
   map before it is in the map, and a data plane gets the services of the map
   before it is in the map.  *)
LEMMA CallInformed ==
  ASSUME TypeOK, NEW r \in Replica, Informed(r), NEW k \in Key, Call(k), main[r] \notin Reconstruction,
         Leading(r) /\ pc[k] = "waiting" => obj[k] = Current(r)
  PROVE  Informed(r)'
<1>t. /\ Current(r) \in Object /\ members \in [Object -> SUBSET Key]
      /\ deployed \in [DataPlane -> SUBSET Service] /\ missed \in [DataPlane -> SUBSET Service]
  BY ObjectTypes DEF TypeOK
<1>0. /\ UNCHANGED <<believes, main, generation, synced, slaveOf>>
  BY CallMemory DEF leadership
<1>1. Leading(r)' = Leading(r) /\ Current(r)' = Current(r)
  BY <1>0 DEF Leading, Current
<1>2. CASE ~Leading(r)
  BY <1>0, <1>1, <1>2 DEF Informed
<1>3. CASE Leading(r) /\ pc[k] # "waiting"
  <2>1. UNCHANGED <<members, deployed, missed>> /\ \A d \in DataPlane : phase'[d] \in {phase[d], "down", "list"}
    BY <1>3 DEF Call, AlreadyDone, Persist, PersistFails, Return, DataPlaneAnswered, RegisterService,
       DeregisterService, RegisterNode, DeregisterNode, RegisterDataplane, DeregisterDataplane, Persisted,
       dataplanes, history
  <2> QED BY <1>0, <1>1, <2>1, InformedFrame
<1>4. CASE Leading(r) /\ pc[k] = "waiting"
  <2>0. obj[k] = Current(r)
    BY <1>4
  <2>1. CASE PersistFails(k)
    <3>1. UNCHANGED <<members, deployed, missed>> /\ \A d \in DataPlane : phase'[d] \in {phase[d], "down", "list"}
      BY <2>1 DEF PersistFails, Return, DataPlaneAnswered, history
    <3> QED BY <1>0, <1>1, <3>1, InformedFrame
  <2>2. CASE RegisterNode(k) \/ DeregisterNode(k) \/ DeregisterDataplane(k)
    <3>1. k \notin Service /\ UNCHANGED <<deployed, missed>>
      BY <2>2, KindsAreDistinct DEF RegisterNode, DeregisterNode, DeregisterDataplane
    <3>2. \A d \in DataPlane : phase'[d] \in {phase[d], "down", "list"}
      BY <2>2 DEF RegisterNode, DeregisterNode, DeregisterDataplane, Succeed, DataPlaneAnswered
    <3>3. members'[Current(r)] \cap (Service \cup DataPlane) \subseteq members[Current(r)]
      <4>1. CASE RegisterNode(k)
        <5>1. members'[Current(r)] = members[Current(r)] \cup {k} /\ k \in Node
          BY <1>t, <2>0, <4>1 DEF RegisterNode, Succeed
        <5> QED BY <5>1, KindsAreDistinct
      <4>2. CASE DeregisterNode(k) \/ DeregisterDataplane(k)
        <5>1. members'[Current(r)] = members[Current(r)] \ {k}
          BY <1>t, <2>0, <4>2 DEF DeregisterNode, DeregisterDataplane, Succeed
        <5> QED BY <5>1
      <4> QED BY <2>2, <4>1, <4>2
    <3> QED BY <1>0, <1>1, <3>1, <3>2, <3>3, InformedFrame
  <2>3. CASE RegisterService(k)
    <3>1. members'[Current(r)] = members[Current(r)] \cup {k} /\ k \in Service
      BY <1>t, <2>0, <2>3 DEF RegisterService, Succeed, precreateSnapshots
    <3>2. \A d \in DataPlane : phase'[d] = phase[d]
      <4>1. k \notin DataPlane
        BY <3>1, KindsAreDistinct
      <4> QED BY <2>3, <4>1 DEF RegisterService, Succeed, precreateSnapshots, DataPlaneAnswered
    <3>3. PICK R : AddDeployments(Current(r), R, {k})
      BY <2>0, <2>3 DEF RegisterService
    <3>4. ASSUME NEW d \in members'[Current(r)] \cap DataPlane, phase'[d] \in {"add", "up"}
          PROVE  members'[Current(r)] \cap Service \subseteq Has(d)'
      <4>1. d \in members[Current(r)] /\ d \in DataPlane
        BY <3>1, KindsAreDistinct
      <4>2. members[Current(r)] \cap Service \subseteq Has(d)
        BY <1>4, <3>2, <3>4, <4>1 DEF Informed
      <4>3. deployed[d] \cup missed[d] \subseteq deployed'[d] \cup missed'[d] /\ {k} \subseteq deployed'[d] \cup missed'[d]
        BY <3>3, <4>1, Announced
      <4>4. Has(d) \cup {k} \subseteq Has(d)'
        BY <1>0, <3>2, <4>1, <4>3 DEF Has
      <4> QED BY <3>1, <4>2, <4>4
    <3> QED BY <1>0, <1>1, <3>4 DEF Informed
  <2>4. CASE DeregisterService(k)
    <3>1. k \in Service /\ k \notin DataPlane
      BY <2>4, KindsAreDistinct DEF DeregisterService
    <3>2. CASE members'[Current(r)] = members[Current(r)] \ {k}
      <4>1. \A d \in DataPlane : /\ phase'[d] = phase[d] /\ deployed[d] \ {k} \subseteq deployed'[d]
                                 /\ missed[d] \subseteq missed'[d]
        BY <1>t, <2>4, <3>1 DEF DeregisterService, Succeed, DataPlaneAnswered, DeleteDeployment
      <4>2. ASSUME NEW d \in members'[Current(r)] \cap DataPlane, phase'[d] \in {"add", "up"}
            PROVE  members'[Current(r)] \cap Service \subseteq Has(d)'
        <5>1. members[Current(r)] \cap Service \subseteq Has(d)
          BY <1>4, <3>2, <4>1, <4>2 DEF Informed
        <5>2. Has(d) \ {k} \subseteq Has(d)'
          BY <1>0, <4>1, <4>2 DEF Has
        <5> QED BY <3>2, <5>1, <5>2
      <4> QED BY <1>0, <1>1, <4>2 DEF Informed
    <3>3. CASE /\ members' = members /\ phase' = phase
               /\ \E D : /\ deployed' = [d \in DataPlane |-> IF d \in D THEN deployed[d] \ {k} ELSE deployed[d]]
                         /\ missed' = [d \in DataPlane |-> IF d \in D THEN missed[d] \cup {k} ELSE missed[d]]
      <4>1. \A d \in DataPlane : deployed[d] \cup missed[d] \subseteq deployed'[d] \cup missed'[d]
        BY <1>t, <3>3
      <4> QED BY <1>0, <1>1, <3>3, <4>1, InformedFrame
    <3>4. Succeed(k, members[obj[k]] \ {k}) => members'[Current(r)] = members[Current(r)] \ {k}
      BY <1>t, <2>0 DEF Succeed
    <3> QED BY <2>4, <3>2, <3>3, <3>4 DEF DeregisterService, DeleteDeployment
  <2>5. CASE RegisterDataplane(k)
    <3> DEFINE services == members[Current(r)] \cap Service
    <3>1. k \in DataPlane /\ k \notin Service
      BY <2>5, KindsAreDistinct DEF RegisterDataplane
    <3>2. CASE /\ deployed' = [deployed EXCEPT ![k] = deployed[k] \cup services]
               /\ missed' = [missed EXCEPT ![k] = @ \ services]
               /\ Succeed(k, members[obj[k]] \cup {k})
      <4>1. members'[Current(r)] = members[Current(r)] \cup {k}
        BY <1>t, <2>0, <3>2 DEF Succeed
      <4>2. \A d \in DataPlane \ {k} : phase'[d] = phase[d] /\ deployed'[d] = deployed[d] /\ missed'[d] = missed[d]
        BY <1>t, <3>2 DEF Succeed, DataPlaneAnswered
      <4>3. services \subseteq deployed'[k] /\ members'[Current(r)] \cap Service = services
        BY <1>t, <3>1, <3>2, <4>1
      <4>4. ASSUME NEW d \in members'[Current(r)] \cap DataPlane, phase'[d] \in {"add", "up"}
            PROVE  members'[Current(r)] \cap Service \subseteq Has(d)'
        <5>1. CASE d = k
          BY <4>3, <5>1 DEF Has
        <5>2. CASE d # k
          <6>1. services \subseteq Has(d)
            BY <1>4, <4>1, <4>2, <4>4, <5>2 DEF Informed
          <6>2. Has(d)' = Has(d)
            BY <1>0, <4>2, <5>2 DEF Has
          <6> QED BY <4>3, <6>1, <6>2
        <5> QED BY <5>1, <5>2
      <4> QED BY <1>0, <1>1, <4>4 DEF Informed
    <3>3. CASE UNCHANGED <<members, missed>> /\ DataPlaneAnswered(k, TRUE)
               /\ \E S : deployed' = [deployed EXCEPT ![k] = deployed[k] \cup S]
      <4>1. \A d \in DataPlane : deployed[d] \cup missed[d] \subseteq deployed'[d] \cup missed'[d]
        BY <1>t, <3>3
      <4>2. \A d \in DataPlane : phase'[d] \in {phase[d], "down", "list"}
        BY <3>3 DEF DataPlaneAnswered
      <4> QED BY <1>0, <1>1, <3>3, <4>1, <4>2, InformedFrame
    <3> QED BY <2>0, <2>5, <3>2, <3>3 DEF RegisterDataplane, AddDeployment
  <2>6. ~AlreadyDone(k) /\ ~Persist(k)
    BY <1>4 DEF AlreadyDone, Persist, Enters
  <2> QED BY <2>1, <2>2, <2>3, <2>4, <2>5, <2>6 DEF Call
<1> QED BY <1>2, <1>3, <1>4

(* Every step keeps what a leader knows.  *)
LEMMA LeadersKnowStep ==
  ASSUME TypeOK, WritesArePending, Reg!AnsweredIsDurable, ObjectsAreFresh, WritesAreUnknown, LeadersKnow,
         [Next]_vars
  PROVE  LeadersKnow'
<1>1. ASSUME NEW r \in Replica, main'[r] = "leading" PROVE listed'[r] \cap Service = {}
  <2>1. CASE SetLeader(r)
    BY <2>1 DEF SetLeader
  <2>2. CASE ~SetLeader(r)
    <3>1. main[r] = "leading" /\ listed[r] \cap Service = {}
      BY <1>1, <2>2, LeadingStep DEF LeadersKnow
    <3>2. listed'[r] \subseteq listed[r]
      <4>1. ASSUME NEW q \in Replica \ {r}, Elect(q) \/ Depose(q) \/ Main(q) \/ Crash(q) PROVE listed'[r] \subseteq listed[r]
        BY <4>1, OtherReplica
      <4>2. ASSUME Elect(r) \/ Depose(r) \/ Main(r) \/ Crash(r) PROVE listed'[r] \subseteq listed[r]
        <5>1. CASE Elect(r) \/ Depose(r) \/ StopNodeMonitoring(r)
          BY <5>1 DEF Elect, Depose, StopNodeMonitoring
        <5>2. CASE Crash(r)
          BY <5>2 DEF Crash, TypeOK
        <5>3. CASE Main(r) /\ ~StopNodeMonitoring(r)
          <6>1. \/ \E n \in Node : ConnectToWorker(r, n)
                \/ \E s \in Service : StartReconstructedService(r, s)
            BY <2>2, <3>1, <5>3 DEF Main, CleanControlPlaneInMemoryData, ReconstructDataplaneState,
               ReconstructWorkersState, ReconstructServiceState, Reconstructing
          <6>2. PICK k : listed' = [listed EXCEPT ![r] = @ \ {k}]
            BY <6>1 DEF ConnectToWorker, StartReconstructedService
          <6> QED BY <6>2 DEF TypeOK
        <5> QED BY <4>2, <5>1, <5>2, <5>3
      <4>3. ASSUME NEW k \in Key, Call(k) \/ \E x : StartCall(k, x) PROVE listed' = listed
        BY <4>3, CallMemory DEF StartCall
      <4> QED BY <4>1, <4>2, <4>3, QuietSteps
    <3> QED BY <3>1, <3>2
  <2> QED BY <2>1, <2>2
<1>2. ASSUME NEW r \in Replica, alone'[r] PROVE Undisturbed(r)' /\ Informed(r)'
  <2> DEFINE Goal == Undisturbed(r)' /\ Informed(r)'
  <2>1. ASSUME NEW q \in Replica, Elect(q) \/ Depose(q) \/ Main(q) \/ Crash(q) PROVE Goal
    BY <1>2, <2>1, ReplicaKnows
  <2>2. ASSUME NEW k \in Key, NEW x, StartCall(k, x) PROVE Goal
    <3>1. alone[r] => Undisturbed(r) /\ Informed(r)
      BY DEF LeadersKnow
    <3>2. Undisturbed(r)'
      BY <1>2, <2>2, <3>1, UndisturbedStart
    <3>3. alone[r]
      BY <1>2, <2>2 DEF StartCall
    <3>4. UNCHANGED <<believes, main, generation, slaveOf, members, deployed, missed, synced, phase>>
      BY <2>2 DEF StartCall, leadership, redis, memory, dataplanes
    <3>5. Leading(r)' = Leading(r)
      BY <3>4 DEF Leading
    <3>6. Informed(r)'
      BY <3>1, <3>3, <3>4, <3>5, InformedFrame
    <3> QED BY <3>2, <3>6
  <2>3. ASSUME NEW k \in Key, Call(k) PROVE Goal
    <3>1. Undisturbed(r) /\ Informed(r) /\ (main[r] = "leading" => listed[r] \cap Service = {})
      BY <1>2, <2>3, CallMemory DEF LeadersKnow
    <3>2. Undisturbed(r)' /\ main[r] \notin Reconstruction /\ (Leading(r) /\ pc[k] = "waiting" => obj[k] = Current(r))
      BY <2>3, <3>1, UndisturbedCall
    <3>3. Informed(r)'
      BY <2>3, <3>1, <3>2, CallInformed
    <3> QED BY <3>2, <3>3
  <2>4. ASSUME UNCHANGED <<leadership, members, calls, answered, alone, listed, slaveOf>>,
               Informed(r) => Informed(r)'
        PROVE  Goal
    <3>1. Undisturbed(r) /\ Informed(r)
      BY <1>2, <2>4 DEF LeadersKnow
    <3>2. Leading(r)' = Leading(r) /\ Known(r)' = Known(r)
      BY <2>4 DEF Leading, Known, Current, leadership
    <3>3. Undisturbed(r)'
      BY <2>4, <3>1, <3>2, UndisturbedFrame DEF leadership, calls
    <3> QED BY <2>4, <3>1, <3>3
  <2>5. ASSUME NEW d \in DataPlane, StartDataPlane(d) \/ CrashDataPlane(d) \/ StartingDataPlane(d) PROVE Goal
    <3>1. Informed(r) => Informed(r)'
      BY <2>5, DataPlaneInformed
    <3>2. UNCHANGED <<leadership, members, calls, answered, alone, listed, slaveOf>>
      BY <2>5 DEF StartDataPlane, CrashDataPlane, StartingDataPlane, ListServices,
         SyncDeploymentCache, history, memory, redis
    <3> QED BY <2>4, <3>1, <3>2
  <2>6. ASSUME (\E q \in Replica : Replicate(q)) \/ (\E o \in Object : CheckPeriodicallyWorkerNodes(o)) \/ UNCHANGED vars
        PROVE  Goal
    <3>1. /\ UNCHANGED <<leadership, members, calls, answered, alone, listed, slaveOf>>
          /\ UNCHANGED <<phase, deployed, missed, synced>>
      BY <2>6 DEF Replicate, CheckPeriodicallyWorkerNodes, vars, memory, history, redis, dataplanes
    <3>2. Leading(r)' = Leading(r)
      BY <3>1 DEF Leading, leadership
    <3>3. Informed(r) => Informed(r)'
      BY <3>1, <3>2, InformedFrame DEF leadership
    <3> QED BY <2>4, <3>1, <3>3
  <2> HIDE DEF Goal
  <2>7. Goal
    BY <2>1, <2>2, <2>3, <2>5, <2>6 DEF Next
  <2> QED BY <2>7 DEF Goal
<1> QED BY <1>1, <1>2 DEF LeadersKnow

(* The inductive invariant: a replica that no call disturbs while it rebuilds
   its state knows the services by what was answered, from its reading of the
   database to the end of its leadership, and so do its data planes.  *)
THEOREM WhatLeadersKnow == Spec => [](ObjectsAreFresh /\ WritesAreUnknown /\ LeadersKnow)
<1>1. Init => ObjectsAreFresh /\ WritesAreUnknown /\ LeadersKnow
  <2> SUFFICES ASSUME Init PROVE ObjectsAreFresh /\ WritesAreUnknown /\ LeadersKnow
    OBVIOUS
  <2>1. PICK leader \in Replica :
          /\ main = [r \in Replica |-> IF r = leader THEN "leading" ELSE "follower"]
          /\ obj = [k \in Key |-> <<leader, 0>>] /\ alone = [r \in Replica |-> r = leader]
    BY DEF Init
  <2>2. /\ generation = [r \in Replica |-> 0] /\ members = [o \in Object |-> {}]
        /\ listed = [r \in Replica |-> {}] /\ pc = [k \in Key |-> "idle"]
        /\ answered = [k \in Key |-> "deregistered"]
    BY DEF Init
  <2>3. \A r \in Replica : Current(r) \in Object /\ members[Current(r)] = {}
    BY <2>2, BoundsAreNaturals DEF Current, Object, Generation
  <2>4. ObjectsAreFresh
    BY <2>1, <2>2 DEF ObjectsAreFresh, Home, Object
  <2>5. WritesAreUnknown
    BY <2>2 DEF WritesAreUnknown
  <2>6. ASSUME NEW r \in Replica, alone[r] PROVE Undisturbed(r) /\ Informed(r)
    <3>1. main[r] = "leading" /\ Known(r) = {}
      BY <2>1, <2>2, <2>3, <2>6 DEF Known
    <3>2. Undisturbed(r)
      BY <2>2, <3>1 DEF Undisturbed, Reconstruction, Key
    <3> QED BY <2>3, <3>2 DEF Informed
  <2> QED BY <2>2, <2>4, <2>5, <2>6 DEF LeadersKnow
<1>2. /\ TypeOK /\ WritesArePending /\ Reg!AnsweredIsDurable
      /\ ObjectsAreFresh /\ WritesAreUnknown /\ LeadersKnow /\ [Next]_vars
      => (ObjectsAreFresh /\ WritesAreUnknown /\ LeadersKnow)'
  BY FreshStep, UnknownStep, LeadersKnowStep
<1> QED BY <1>1, <1>2, TypeCorrect, PendingWrites, AnswersLast, PTL DEF Spec

(* The leader that all Redis instances follow serves what was answered: if no
   call was under way while it rebuilt its state, the services in its map are
   the ones that the answers to the clients imply, whoever answered them,
   however many leaders, crashes and late writes came before
   (ReconstructServiceState, RegisterService, DeregisterService, SetLeader).  *)
THEOREM LeaderServesAnswers == Spec => []ServedAsAnswered
<1>1. LeadersKnow => ServedAsAnswered
  <2> SUFFICES ASSUME LeadersKnow, NEW r \in Replica, NEW s \in Service, Leading(r), alone[r]
               PROVE  /\ answered[s] = "registered" => s \in members[Current(r)]
                      /\ answered[s] = "deregistered" => s \notin members[Current(r)]
    BY DEF ServedAsAnswered
  <2>1. Undisturbed(r) /\ s \notin listed[r]
    BY DEF LeadersKnow, Leading
  <2> QED BY <2>1 DEF Undisturbed, Known
<1> QED BY <1>1, WhatLeadersKnow, PTL

(* A data plane that is up and in the map of that leader has every service of
   the map or is known to have missed it, whichever came first, whoever it
   copied its list from, and whatever restarts and changes of leader came
   between (RegisterDataplane, RegisterService, ListServices,
   SyncDeploymentCache, StartReconstructedService).  *)
THEOREM DataPlanesAreInformed == Spec => []DataPlanesKnowServices
<1>1. LeadersKnow => DataPlanesKnowServices
  <2> SUFFICES ASSUME LeadersKnow, NEW r \in Replica, NEW d \in DataPlane,
                      Leading(r), alone[r], phase[d] = "up", d \in members[Current(r)]
               PROVE  members[Current(r)] \cap Service \subseteq deployed[d] \cup missed[d]
    BY DEF DataPlanesKnowServices
  <2>1. Informed(r)
    BY DEF LeadersKnow
  <2> QED BY <2>1 DEF Informed, Has
<1> QED BY <1>1, WhatLeadersKnow, PTL
=============================================================================
