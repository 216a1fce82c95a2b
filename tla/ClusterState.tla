---------------------------- MODULE ClusterState ----------------------------
(***************************************************************************)
(* The state of the cluster as the control plane keeps it: services, worker *)
(* nodes and data planes in the maps of a ControlPlane object, and in the  *)
(* Redis instance of each replica.  Every registration and deregistration, *)
(* with the locks it takes; the reconstruction by a new leader; the check  *)
(* of the heartbeats; the start of a data plane; crashes of replicas.      *)
(*                                                                         *)
(* A ControlPlane object is <<replica, generation>>: a handler keeps the   *)
(* object it was called on when the main loop makes another one.  One call *)
(* per key is under way at a time.                                         *)
(***************************************************************************)
EXTENDS Naturals, FiniteSets

CONSTANTS
  Replica,               \* control plane replicas, each with its Redis
  Service, Node, DataPlane,
  SilentNodes,           \* nodes that may miss their heartbeats
  RPCMayFail,            \* calls to data planes may fail
  RedisMayFail,          \* calls to Redis may fail
  PrecreateSnapshots,    \* Config.PrecreateSnapshots
  OverlappingLeaders,    \* a deposed leader may serve for a while
  MaxElections, MaxCrashes, MaxRestarts   \* bounds

Key == Service \cup Node \cup DataPlane

ASSUME KindsAreDistinct ==
  /\ Service \cap Node = {} /\ Service \cap DataPlane = {} /\ Node \cap DataPlane = {}
  /\ SilentNodes \subseteq Node
ASSUME BoundsAreNaturals ==
  /\ MaxElections \in Nat /\ MaxCrashes \in Nat /\ MaxRestarts \in Nat
  /\ RPCMayFail \in BOOLEAN /\ RedisMayFail \in BOOLEAN
  /\ PrecreateSnapshots \in BOOLEAN /\ OverlappingLeaders \in BOOLEAN

Generation == 0 .. 2 * MaxElections
Object == Replica \X Generation
Lock == {"SIStorage", "NIStorage", "DataPlaneConnections"}
Holder == Key \cup {"free", "monitor", "leaked"}

VARIABLES
  believes,     \* believes[r]: cm.IsLeader()
  main,         \* main[r]: where the main loop of r is
  generation,   \* generation[r]: the current ControlPlane object of r
  members,      \* members[o]: the keys in the three maps of object o
  lock,         \* lock[o][l]: who holds the lock of a map
  monitor,      \* monitor[o]: "off", "on", "stuck"
  listed,       \* listed[r]: keys read by the reconstruction, not yet in the maps
  db,           \* db[r]: the keys in the Redis of r
  slaveOf,      \* slaveOf[r]: the Redis that r's follows, itself for a master
  pc, op, obj,  \* the call for each key: where it is, what it does, on which object
  phase,        \* phase[d]: the start of a data plane
  deployed,     \* deployed[d]: Deployments.data
  synced,       \* synced[d]: the services that ListServices has returned
  answered,     \* answered[k]: what the last call for k has been told (history)
  alone,        \* alone[r]: no call since r's reconstruction began (history)
  missed,       \* missed[d]: services that d lacks since a call to a data plane has failed (history)
  elections, crashes, restarts

leadership == <<believes, main, generation, elections>>
memory == <<members, lock, monitor>>
redis == <<db, slaveOf>>
calls == <<pc, op, obj>>
dataplanes == <<phase, deployed, synced, restarts>>
history == <<answered, alone, missed>>
vars == <<leadership, memory, redis, calls, dataplanes, history, listed, crashes>>

TypeOK ==
  /\ believes \in [Replica -> BOOLEAN]
  /\ main \in [Replica -> {"follower", "elected", "dataplanes", "workers", "services",
                           "starting", "leading", "deposed"}]
  /\ generation \in [Replica -> Generation]
  /\ members \in [Object -> SUBSET Key]
  /\ lock \in [Object -> [Lock -> Holder]]
  /\ monitor \in [Object -> {"off", "on", "stuck"}]
  /\ listed \in [Replica -> SUBSET Key]
  /\ db \in [Replica -> SUBSET Key]
  /\ slaveOf \in [Replica -> Replica]
  /\ pc \in [Key -> {"idle", "locking", "waiting", "unblocked", "stuck"}]
  /\ op \in [Key -> {"register", "deregister"}]
  /\ obj \in [Key -> Object]
  /\ phase \in [DataPlane -> {"down", "register", "list", "add", "up"}]
  /\ deployed \in [DataPlane -> SUBSET Service]
  /\ synced \in [DataPlane -> SUBSET Service]
  /\ answered \in [Key -> {"unknown", "registered", "deregistered"}]
  /\ alone \in [Replica -> BOOLEAN]
  /\ missed \in [DataPlane -> SUBSET Service]
  /\ elections \in 0 .. MaxElections /\ crashes \in 0 .. MaxCrashes /\ restarts \in 0 .. MaxRestarts

(* A cluster whose first leader has finished its reconstruction of an empty
   database.  *)
Init ==
  \E leader \in Replica :
  /\ believes = [r \in Replica |-> r = leader]
  /\ main = [r \in Replica |-> IF r = leader THEN "leading" ELSE "follower"]
  /\ generation = [r \in Replica |-> 0]
  /\ members = [o \in Object |-> {}]
  /\ lock = [o \in Object |-> [l \in Lock |-> "free"]]
  /\ monitor = [o \in Object |-> IF o = <<leader, 0>> THEN "on" ELSE "off"]
  /\ listed = [r \in Replica |-> {}]
  /\ db = [r \in Replica |-> {}]
  /\ slaveOf = [r \in Replica |-> leader]
  /\ pc = [k \in Key |-> "idle"]
  /\ op = [k \in Key |-> "register"]
  /\ obj = [k \in Key |-> <<leader, 0>>]
  /\ phase = [d \in DataPlane |-> "down"]
  /\ deployed = [d \in DataPlane |-> {}]
  /\ synced = [d \in DataPlane |-> {}]
  /\ answered = [k \in Key |-> "deregistered"]
  /\ alone = [r \in Replica |-> r = leader]
  /\ missed = [d \in DataPlane |-> {}]
  /\ elections = 0 /\ crashes = 0 /\ restarts = 0

-----------------------------------------------------------------------------
Current(r) == <<r, generation[r]>>
Home(o) == o[1]
Free(o, l) == lock[o][l] = "free"
LocksOf(k) ==
  CASE k \in Service -> {"SIStorage"}
    [] k \in Node -> {"NIStorage"}
    [] k \in DataPlane -> {"SIStorage", "DataPlaneConnections"}

(* The Redis client of a replica writes to its own instance, which refuses
   while it follows another one.  *)
Writable(r) == slaveOf[r] = r

\* Mutant: the quorum of the comment, which is 0 slaves of 1.
WaitForQuorumOfComment(r, k) == TRUE

(* WAIT for all the other instances: each follows this one and has seen the
   write of k.  *)
WaitForQuorumWrite(r, k) ==
  \A q \in Replica \ {r} : slaveOf[q] = r /\ (k \in db[q] <=> k \in db[r])

(* Locks taken by the call for k, and given back.  *)
Locked(k) == [lock EXCEPT ![obj[k]] = [l \in Lock |-> IF l \in LocksOf(k) THEN k ELSE @[l]]]
Unlocked(k) == [lock EXCEPT ![obj[k]] = [l \in Lock |-> IF @[l] = k THEN "free" ELSE @[l]]]

(* A connection is polled for until the data plane is there.  *)
EstablishGRPCConnectionPoll(d) == phase[d] # "down"

(* What a new leader reads in its database.  *)
GetDataPlaneInformation(r) == db[r] \cap DataPlane
GetWorkerNodeInformation(r) == db[r] \cap Node
GetServiceInformation(r) == db[r] \cap Service

(* The deployments of a data plane after the calls, which change nothing when
   they repeat another one.  *)
AddDeployment(d, S) == deployed[d] \cup S
DeleteDeployment(d, s) == deployed[d] \ {s}

(* The data planes of an object that answer: the others are down, or, when
   calls may fail, any of them.  *)
Reached(o) ==
  {R \in SUBSET {d \in members[o] \cap DataPlane : phase[d] # "down"} :
     RPCMayFail \/ \A d \in members[o] \cap DataPlane : phase[d] # "down" => d \in R}

(* AddDeployment to the data planes of R; a failure is only logged.  *)
AddDeployments(o, R, S) ==
  /\ deployed' = [d \in DataPlane |-> IF d \in R THEN AddDeployment(d, S) ELSE deployed[d]]
  /\ missed' = [d \in DataPlane |->
                  IF d \in R THEN missed[d] \ S
                  ELSE IF d \in members[o] THEN missed[d] \cup S ELSE missed[d]]

-----------------------------------------------------------------------------
(* A call arrives at a replica that takes itself for the leader.  Data planes
   register when they start and as a heartbeat, and deregister when they are
   stopped.  *)
StartCall(k, x) ==
  /\ pc[k] = "idle"
  /\ k \in DataPlane => phase[k] = "up" \/ (x = "register" /\ phase[k] = "register")
  /\ \E r \in Replica : believes[r] /\ obj' = [obj EXCEPT ![k] = Current(r)]
  /\ pc' = [pc EXCEPT ![k] = "locking"]
  /\ op' = [op EXCEPT ![k] = x]
  /\ alone' = [r \in Replica |-> alone[r] /\ main[r] = "leading"]
  /\ UNCHANGED <<leadership, memory, redis, dataplanes, answered, missed, listed, crashes>>

(* The handler has the lock of its map; those of data planes take the one of
   the services first.  It finds the key in the map, or does not.  *)
Enters(k, present) ==
  /\ pc[k] = "locking"
  /\ \A l \in LocksOf(k) : Free(obj[k], l)
  /\ present <=> k \in members[obj[k]]

(* What a data plane does with the answer: a heartbeat goes on, a start goes
   on to ListServices or gives up, a deregistration is the end.  *)
DataPlaneAnswered(k, error) ==
  phase' = [d \in DataPlane |->
              IF d # k THEN phase[d]
              ELSE IF op[k] = "deregister" THEN "down"
              ELSE IF phase[d] = "register" THEN IF error THEN "down" ELSE "list"
              ELSE phase[d]]

(* The handler returns without having changed anything in memory.  *)
Return(k, error) ==
  /\ pc' = [pc EXCEPT ![k] = "idle"]
  /\ lock' = Unlocked(k)
  /\ DataPlaneAnswered(k, error)

(* The key is, or is not, in its map already.  *)
AlreadyDone(k) ==
  /\ Enters(k, op[k] = "register")
  /\ Return(k, FALSE)
  /\ UNCHANGED <<leadership, members, monitor, redis, op, obj, deployed, synced, restarts, history, listed, crashes>>

\* Mutant: the key of a deletion is not the one of the store.
PersistOtherKey(k) ==
  LET o == obj[k] IN
  /\ Enters(k, op[k] = "deregister")
  /\ Writable(Home(o))
  /\ db' = IF op[k] = "register" THEN [db EXCEPT ![Home(o)] = @ \cup {k}] ELSE db
  /\ answered' = [answered EXCEPT ![k] = "unknown"]
  /\ pc' = [pc EXCEPT ![k] = "waiting"]
  /\ lock' = Locked(k)
  /\ UNCHANGED <<leadership, members, monitor, slaveOf, op, obj, dataplanes, alone, missed, listed, crashes>>

(* Store...Information or Delete...Information, up to the write.  *)
Persist(k) ==
  LET o == obj[k] IN
  /\ Enters(k, op[k] = "deregister")
  /\ Writable(Home(o))
  /\ db' = [db EXCEPT ![Home(o)] = IF op[k] = "register" THEN @ \cup {k} ELSE @ \ {k}]
  /\ answered' = [answered EXCEPT ![k] = "unknown"]
  /\ pc' = [pc EXCEPT ![k] = "waiting"]
  /\ lock' = Locked(k)
  /\ UNCHANGED <<leadership, members, monitor, slaveOf, op, obj, dataplanes, alone, missed, listed, crashes>>

(* The write or the WAIT returns an error.  RegisterService and RegisterNode
   then remove the key with AtomicRemove, which takes the lock they hold.  *)
PersistFails(k) ==
  /\ \/ Enters(k, op[k] = "deregister") /\ (RedisMayFail \/ ~Writable(Home(obj[k])))
     \/ pc[k] = "waiting" /\ RedisMayFail
     \/ pc[k] = "unblocked"
  /\ IF op[k] = "register" /\ k \notin DataPlane
     THEN pc' = [pc EXCEPT ![k] = "stuck"] /\ lock' = Locked(k) /\ UNCHANGED phase
     ELSE Return(k, TRUE)
  /\ UNCHANGED <<leadership, members, monitor, redis, op, obj, deployed, synced, restarts, history, listed, crashes>>

(* The end of a handler that succeeds with the map changed to M.  *)
Succeed(k, M) ==
  /\ pc' = [pc EXCEPT ![k] = "idle"]
  /\ members' = [members EXCEPT ![obj[k]] = M]
  /\ lock' = Unlocked(k)
  /\ answered' = [answered EXCEPT ![k] = IF op[k] = "register" THEN "registered" ELSE "deregistered"]
  /\ DataPlaneAnswered(k, FALSE)

(* The write of k is on every instance, and the locks that are still needed
   are free: what is left of the handler runs under them.  *)
Persisted(k, x, l) ==
  /\ pc[k] = "waiting" /\ op[k] = x
  /\ WaitForQuorumWrite(Home(obj[k]), k)
  /\ lock[obj[k]][l] \in {"free", k}

(* The lock of the services is taken a second time.  *)
precreateSnapshots(k) ==
  /\ members' = [members EXCEPT ![obj[k]] = @ \cup {k}]
  /\ pc' = [pc EXCEPT ![k] = "stuck"]
  /\ UNCHANGED <<lock, answered, phase>>

(* notifyDataplanesAndStartScalingLoop, and precreateSnapshots where it is
   configured.  *)
RegisterService(k) ==
  LET o == obj[k] IN
  /\ k \in Service /\ Persisted(k, "register", "DataPlaneConnections")
  /\ \E R \in Reached(o) : AddDeployments(o, R, {k})
  /\ IF PrecreateSnapshots THEN precreateSnapshots(k) ELSE Succeed(k, members[o] \cup {k})
  /\ UNCHANGED <<leadership, monitor, redis, op, obj, synced, restarts, alone, listed, crashes>>

(* removeServiceFromDataplane returns at the first data plane that fails,
   with DataPlaneConnections locked; otherwise the service is forgotten.  *)
DeregisterService(k) ==
  LET o == obj[k]
      conns == members[o] \cap DataPlane IN
  /\ k \in Service /\ Persisted(k, "deregister", "DataPlaneConnections")
  /\ \E R \in Reached(o) :
       \/ /\ R = conns
          /\ deployed' = [d \in DataPlane |-> IF d \in R THEN DeleteDeployment(d, k) ELSE deployed[d]]
          /\ Succeed(k, members[o] \ {k})
          /\ UNCHANGED missed
       \/ \E D \in SUBSET R :
          /\ R # conns
          /\ deployed' = [d \in DataPlane |-> IF d \in D THEN DeleteDeployment(d, k) ELSE deployed[d]]
          /\ lock' = [Unlocked(k) EXCEPT ![o]["DataPlaneConnections"] = "leaked"]
          /\ missed' = [d \in DataPlane |-> IF d \in D THEN missed[d] \cup {k} ELSE missed[d]]
          /\ pc' = [pc EXCEPT ![k] = "idle"]
          /\ UNCHANGED <<members, answered, phase>>
  /\ UNCHANGED <<leadership, monitor, redis, op, obj, synced, restarts, alone, listed, crashes>>

RegisterNode(k) ==
  /\ k \in Node /\ Persisted(k, "register", "NIStorage")
  /\ Succeed(k, members[obj[k]] \cup {k})
  /\ UNCHANGED <<leadership, monitor, redis, op, obj, deployed, synced, restarts, alone, missed, listed, crashes>>

(* removeEndointsAssociatedWithNode takes the lock of the services.  *)
DeregisterNode(k) ==
  /\ k \in Node /\ Persisted(k, "deregister", "SIStorage")
  /\ Succeed(k, members[obj[k]] \ {k})
  /\ UNCHANGED <<leadership, monitor, redis, op, obj, deployed, synced, restarts, alone, missed, listed, crashes>>

(* The connection is established, however long that takes, and every service
   deployed; one that fails takes the data plane out of the map again.  That
   the endpoints are sent to all data planes is in ServiceScaling.  *)
RegisterDataplane(k) ==
  LET o == obj[k]
      services == members[o] \cap Service IN
  /\ k \in DataPlane /\ Persisted(k, "register", "DataPlaneConnections")
  /\ EstablishGRPCConnectionPoll(k)
  /\ \/ /\ deployed' = [deployed EXCEPT ![k] = AddDeployment(k, services)]
        /\ missed' = [missed EXCEPT ![k] = @ \ services]
        /\ Succeed(k, members[o] \cup {k})
     \/ /\ RPCMayFail
        /\ \E S \in SUBSET services :
             S # services /\ deployed' = [deployed EXCEPT ![k] = AddDeployment(k, S)]
        /\ pc' = [pc EXCEPT ![k] = "idle"]
        /\ lock' = Unlocked(k)
        /\ DataPlaneAnswered(k, TRUE)
        /\ UNCHANGED <<members, answered, missed>>
  /\ UNCHANGED <<leadership, monitor, redis, op, obj, synced, restarts, alone, listed, crashes>>

DeregisterDataplane(k) ==
  /\ k \in DataPlane /\ Persisted(k, "deregister", "DataPlaneConnections")
  /\ Succeed(k, members[obj[k]] \ {k})
  /\ UNCHANGED <<leadership, monitor, redis, op, obj, deployed, synced, restarts, alone, missed, listed, crashes>>

Call(k) ==
  \/ AlreadyDone(k) \/ Persist(k) \/ PersistFails(k)
  \/ RegisterService(k) \/ DeregisterService(k)
  \/ RegisterNode(k) \/ DeregisterNode(k)
  \/ RegisterDataplane(k) \/ DeregisterDataplane(k)

-----------------------------------------------------------------------------
(* The election makes r the leader.  With OverlappingLeaders the one before
   has not heard of it yet.  *)
Elect(r) ==
  /\ elections < MaxElections
  /\ main[r] = "follower"
  /\ OverlappingLeaders \/ \A q \in Replica : ~believes[q]
  /\ elections' = elections + 1
  /\ believes' = [believes EXCEPT ![r] = TRUE]
  /\ main' = [main EXCEPT ![r] = "elected"]
  /\ UNCHANGED <<generation, memory, redis, calls, dataplanes, history, listed, crashes>>

(* becomeFollower: the main loop hears of it when it is done with what it
   does.  The last leader of the bounded elections stays.  *)
Depose(r) ==
  /\ believes[r]
  /\ elections < MaxElections \/ \E q \in Replica \ {r} : believes[q]
  /\ believes' = [believes EXCEPT ![r] = FALSE]
  /\ UNCHANGED <<main, generation, elections, memory, redis, calls, dataplanes, history, listed, crashes>>

(* UpdateLeadership of a lost election first stops the monitoring loop, by a
   send that the loop must be there to receive.  *)
StopNodeMonitoring(r) ==
  /\ main[r] = "leading" /\ ~believes[r]
  /\ monitor[Current(r)] # "stuck"
  /\ monitor' = [monitor EXCEPT ![Current(r)] = "off"]
  /\ main' = [main EXCEPT ![r] = "deposed"]
  /\ UNCHANGED <<believes, generation, elections, members, lock, redis, calls, dataplanes, history, listed, crashes>>

StopAllScalingLoops(o) == Free(o, "SIStorage")

\* Mutant: the state is cleaned once more for every announcement.
CleanAgain(r) ==
  /\ main[r] \in {"elected", "deposed"}
  /\ generation' = [generation EXCEPT ![r] = @ + 1]
  /\ UNCHANGED <<believes, main, elections, memory, redis, calls, dataplanes, history, listed, crashes>>

(* StopAllScalingLoops takes the lock of the services, then a new object
   replaces the old one.  *)
CleanControlPlaneInMemoryData(r) ==
  /\ main[r] \in {"elected", "deposed"}
  /\ StopAllScalingLoops(Current(r))
  /\ generation[r] < 2 * MaxElections
  /\ generation' = [generation EXCEPT ![r] = @ + 1]
  /\ listed' = [listed EXCEPT ![r] = {}]
  /\ main' = [main EXCEPT ![r] = IF @ = "elected" THEN "dataplanes" ELSE "follower"]
  /\ alone' = [alone EXCEPT ![r] = \A k \in Key : pc[k] = "idle"]
  /\ UNCHANGED <<believes, elections, memory, redis, calls, dataplanes, answered, missed, crashes>>

Reconstructing(r, at, next) ==
  /\ main[r] = at
  /\ main' = [main EXCEPT ![r] = next]
  /\ UNCHANGED <<believes, generation, elections, redis, calls, phase, synced, restarts, answered, alone, crashes>>

(* Each data plane of the database is connected to, however long that takes,
   and put in the map, without its lock.  *)
ReconstructDataplaneState(r) ==
  LET stored == GetDataPlaneInformation(r) IN
  /\ \A d \in stored : EstablishGRPCConnectionPoll(d)
  /\ Reconstructing(r, "dataplanes", "workers")
  /\ members' = [members EXCEPT ![Current(r)] = @ \cup stored]
  /\ UNCHANGED <<lock, monitor, deployed, missed, listed>>

(* The worker nodes are read, and connected to by goroutines.  *)
ReconstructWorkersState(r) ==
  /\ Reconstructing(r, "workers", "services")
  /\ listed' = [listed EXCEPT ![r] = @ \cup GetWorkerNodeInformation(r)]
  /\ UNCHANGED <<memory, deployed, missed>>

ConnectToWorker(r, n) ==
  /\ n \in listed[r] \cap Node
  /\ Free(Current(r), "NIStorage")
  /\ members' = [members EXCEPT ![Current(r)] = @ \cup {n}]
  /\ listed' = [listed EXCEPT ![r] = @ \ {n}]
  /\ UNCHANGED <<leadership, lock, monitor, redis, calls, dataplanes, history, crashes>>

(* The services are read, and a goroutine for each announces it to the data
   planes and starts its scaling loop, under the locks of both maps.  *)
ReconstructServiceState(r) ==
  /\ Reconstructing(r, "services", "starting")
  /\ listed' = [listed EXCEPT ![r] = @ \cup GetServiceInformation(r)]
  /\ UNCHANGED <<memory, deployed, missed>>

StartReconstructedService(r, s) ==
  LET o == Current(r) IN
  /\ s \in listed[r] \cap Service
  /\ Free(o, "SIStorage") /\ Free(o, "DataPlaneConnections")
  /\ \E R \in Reached(o) : AddDeployments(o, R, {s})
  /\ members' = [members EXCEPT ![o] = @ \cup {s}]
  /\ listed' = [listed EXCEPT ![r] = @ \ {s}]
  /\ UNCHANGED <<leadership, lock, monitor, redis, calls, phase, synced, restarts, answered, alone, crashes>>

StartNodeMonitoringLoop(r) ==
  monitor' = IF believes[r] THEN [monitor EXCEPT ![Current(r)] = "on"] ELSE monitor

(* SetLeader: the Redis of r is made a master and the others its slaves; a
   failure of the latter is only logged.  An instance that becomes a slave
   ends the WAITs it was asked for with an error.  Then the monitoring loop is
   started, unless the leadership has been lost.  *)
SetLeader(r) ==
  /\ main[r] = "starting" /\ listed[r] \cap Service = {}
  /\ \E Q \in SUBSET (Replica \ {r}) :
       /\ RedisMayFail \/ Q = Replica \ {r}
       /\ slaveOf' = [q \in Replica |-> IF q \in Q \cup {r} THEN r ELSE slaveOf[q]]
       /\ pc' = [k \in Key |-> IF pc[k] = "waiting" /\ Home(obj[k]) \in Q THEN "unblocked" ELSE pc[k]]
  /\ main' = [main EXCEPT ![r] = "leading"]
  /\ StartNodeMonitoringLoop(r)
  /\ UNCHANGED <<believes, generation, elections, members, lock, db, op, obj, dataplanes, history, listed, crashes>>

(* The failure events of a silent node are made under the lock of the
   services; for every service there is, the node's endpoints are looked up
   with AtomicGet, which waits for the lock that the caller holds.  *)
createWorkerNodeFailureEvents(o) ==
  /\ members[o] \cap SilentNodes # {} /\ members[o] \cap Service # {}
  /\ Free(o, "SIStorage")
  /\ lock' = [lock EXCEPT ![o]["NIStorage"] = "monitor", ![o]["SIStorage"] = "monitor"]

(* CheckPeriodicallyWorkerNodes holds NIStorage while it makes them.  *)
CheckPeriodicallyWorkerNodes(o) ==
  /\ monitor[o] = "on"
  /\ Free(o, "NIStorage")
  /\ createWorkerNodeFailureEvents(o)
  /\ monitor' = [monitor EXCEPT ![o] = "stuck"]
  /\ UNCHANGED <<leadership, members, redis, calls, dataplanes, history, listed, crashes>>

(* The process of r ends and starts again: its calls are not answered.  A
   reconstruction that finds the leadership lost, or a Redis that cannot be
   made a master, ends the process too.  *)
Crash(r) ==
  /\ crashes < MaxCrashes
  /\ crashes' = crashes + 1
  /\ believes' = [believes EXCEPT ![r] = FALSE]
  /\ main' = [main EXCEPT ![r] = "follower"]
  /\ members' = [o \in Object |-> IF Home(o) = r THEN {} ELSE members[o]]
  /\ lock' = [o \in Object |-> IF Home(o) = r THEN [l \in Lock |-> "free"] ELSE lock[o]]
  /\ monitor' = [o \in Object |-> IF Home(o) = r THEN "off" ELSE monitor[o]]
  /\ listed' = [listed EXCEPT ![r] = {}]
  /\ pc' = [k \in Key |-> IF Home(obj[k]) = r THEN "idle" ELSE pc[k]]
  /\ phase' = [d \in DataPlane |->
                 IF Home(obj[d]) = r /\ pc[d] # "idle" /\ (op[d] = "deregister" \/ phase[d] = "register")
                 THEN "down" ELSE phase[d]]
  /\ UNCHANGED <<generation, elections, redis, op, obj, deployed, synced, restarts, history>>

(* A Redis that follows another one catches up with it.  *)
Replicate(r) ==
  /\ slaveOf[r] # r
  /\ db[r] # db[slaveOf[r]]
  /\ db' = [db EXCEPT ![r] = db[slaveOf[r]]]
  /\ UNCHANGED <<leadership, memory, slaveOf, calls, dataplanes, history, listed, crashes>>

-----------------------------------------------------------------------------
(* A data plane starts with no deployments, registers, and copies the list of
   the services from the control plane.  *)
StartDataPlane(d) ==
  /\ phase[d] = "down" /\ pc[d] = "idle"
  /\ phase' = [phase EXCEPT ![d] = "register"]
  /\ deployed' = [deployed EXCEPT ![d] = {}]
  /\ UNCHANGED <<leadership, memory, redis, calls, synced, restarts, history, listed, crashes>>

CrashDataPlane(d) ==
  /\ restarts < MaxRestarts
  /\ phase[d] # "down" /\ pc[d] = "idle"
  /\ restarts' = restarts + 1
  /\ phase' = [phase EXCEPT ![d] = "down"]
  /\ UNCHANGED <<leadership, memory, redis, calls, deployed, synced, history, listed, crashes>>

(* ListServices, at a replica that takes itself for the leader.  The list of
   a deposed leader may lack what the leader has.  *)
ListServices(d) ==
  /\ phase[d] = "list"
  /\ \E r \in Replica :
       /\ believes[r] /\ Free(Current(r), "SIStorage")
       /\ synced' = [synced EXCEPT ![d] = members[Current(r)] \cap Service]
       /\ missed' = IF \A q \in Replica : slaveOf[q] = r THEN missed
                    ELSE [missed EXCEPT ![d] = Service]
  /\ phase' = [phase EXCEPT ![d] = "add"]
  /\ UNCHANGED <<leadership, memory, redis, calls, deployed, restarts, answered, alone, listed, crashes>>

\* Mutant: the list is not copied.
SyncNothing(d) ==
  /\ phase[d] = "add"
  /\ synced' = [synced EXCEPT ![d] = {}]
  /\ phase' = [phase EXCEPT ![d] = "up"]
  /\ UNCHANGED <<leadership, memory, redis, calls, deployed, restarts, history, listed, crashes>>

SyncDeploymentCache(d) ==
  /\ phase[d] = "add"
  /\ deployed' = [deployed EXCEPT ![d] = AddDeployment(d, synced[d])]
  /\ synced' = [synced EXCEPT ![d] = {}]
  /\ phase' = [phase EXCEPT ![d] = "up"]
  /\ UNCHANGED <<leadership, memory, redis, calls, restarts, history, listed, crashes>>

Main(r) ==
  \/ StopNodeMonitoring(r) \/ CleanControlPlaneInMemoryData(r)
  \/ ReconstructDataplaneState(r) \/ ReconstructWorkersState(r) \/ ReconstructServiceState(r)
  \/ SetLeader(r)
  \/ \E n \in Node : ConnectToWorker(r, n)
  \/ \E s \in Service : StartReconstructedService(r, s)

StartingDataPlane(d) == ListServices(d) \/ SyncDeploymentCache(d)

Next ==
  \/ \E k \in Key : Call(k) \/ \E x \in {"register", "deregister"} : StartCall(k, x)
  \/ \E r \in Replica : Elect(r) \/ Depose(r) \/ Main(r) \/ Crash(r) \/ Replicate(r)
  \/ \E o \in Object : CheckPeriodicallyWorkerNodes(o)
  \/ \E d \in DataPlane : StartDataPlane(d) \/ CrashDataPlane(d) \/ StartingDataPlane(d)

Spec == Init /\ [][Next]_vars

FairSpec ==
  /\ Spec
  /\ \A k \in Key : SF_vars(Call(k))
  /\ \A r \in Replica : WF_vars(Main(r)) /\ WF_vars(Replicate(r))
  /\ \A d \in DataPlane : WF_vars(StartDataPlane(d)) /\ WF_vars(StartingDataPlane(d))

-----------------------------------------------------------------------------
(* Services and worker nodes are registered as the abstract registry says:
   whatever the replicas, their Redis instances and the calls under way do, a
   call is answered only when every instance has its effect, and afterwards no
   crash, change of leader or replication undoes it (RegisterService,
   RegisterNode, WaitForQuorumWrite, SetLeader).  Data planes are left out: the
   one that is not in memory is deregistered without a look at the database.  *)
Lasting == Service \cup Node

Reg == INSTANCE Registry WITH
  Key <- Lasting,
  view <- [r \in Replica |-> db[r] \cap Lasting],
  answered <- [k \in Lasting |-> answered[k]]

ImplementsRegistry == Reg!Spec

(* Why: a handler that waits for its write has it in the Redis of its replica,
   which is a master and therefore takes nothing over from another one.
   SetLeader ends the WAITs of an instance that it makes a slave.  *)
WritesArePending ==
  \A k \in Key : pc[k] = "waiting" =>
    /\ Writable(Home(obj[k]))
    /\ k \in db[Home(obj[k])] <=> op[k] = "register"

(* The leader that the Redis instances follow.  *)
Leading(r) == main[r] = "leading" /\ believes[r] /\ \A q \in Replica : slaveOf[q] = r

(* If no call was under way while the leader rebuilt its state, as the
   comments of reconstruction.go have it, its services are the ones that the
   answers to the clients imply: the ones registered before and after the
   change of leader, and not the ones deregistered.  *)
ServedAsAnswered ==
  \A r \in Replica : \A s \in Service :
    Leading(r) /\ alone[r] /\ pc[s] = "idle" =>
      /\ answered[s] = "registered" => s \in members[Current(r)]
      /\ answered[s] = "deregistered" => s \notin members[Current(r)]

(* A data plane that is up and in the leader's map has every service of the
   leader, whether it or the service came first, after restarts of the data
   plane and changes of leader, unless an AddDeployment to it has failed, or
   another data plane has not let the service be deregistered.  *)
DataPlanesKnowServices ==
  \A r \in Replica : \A d \in DataPlane :
    Leading(r) /\ alone[r] /\ phase[d] = "up" /\ d \in members[Current(r)] =>
      members[Current(r)] \cap Service \subseteq deployed[d] \cup missed[d]

(* A new leader that keeps its leadership finishes its reconstruction, which
   reconstruction.go says happens before the control plane starts.  *)
ReconstructionEnds ==
  \A r \in Replica : main[r] = "dataplanes" ~> (main[r] = "leading" \/ ~believes[r])

(* Every call for a service or a node returns (RegisterService, RegisterNode,
   and the deregistrations), when nothing it needs fails.  *)
CallsReturn == \A k \in Lasting : pc[k] = "locking" ~> pc[k] = "idle"

-----------------------------------------------------------------------------
(* What the proofs of the two invariants of the leader rest on.  *)
Reconstruction == {"dataplanes", "workers", "services", "starting"}
Known(r) == listed[r] \cup members[Current(r)]

(* Objects that are still to be made are empty, and nobody calls them.  *)
ObjectsAreFresh ==
  /\ \A r \in Replica : \A g \in Generation : g > generation[r] => members[<<r, g>>] = {}
  /\ \A k \in Key : obj[k][2] <= generation[Home(obj[k])]

(* No answer is given for a write that is not on every instance.  *)
WritesAreUnknown == \A k \in Key : pc[k] \in {"waiting", "unblocked"} => answered[k] = "unknown"

(* A reconstruction that no call disturbs, and the calls to the leader after
   it: the services that it has read or put in the map are as answered.  *)
Undisturbed(r) ==
  /\ main[r] \in Reconstruction => \A k \in Key : pc[k] = "idle"
  /\ main[r] \in Reconstruction \ {"starting"} => Known(r) \cap Service = {}
  /\ main[r] = "leading" => \A k \in Key : pc[k] # "idle" /\ Home(obj[k]) = r => obj[k] = Current(r)
  /\ main[r] = "starting" \/ Leading(r) =>
       \A s \in Service : /\ answered[s] = "registered" => s \in Known(r)
                          /\ answered[s] = "deregistered" => s \notin Known(r)

(* What the data planes in the map of such a leader have: those that have
   started before it was elected, and those that copy its list.  *)
Has(d) == deployed[d] \cup missed[d] \cup IF phase[d] = "add" THEN synced[d] ELSE {}
Informed(r) ==
  \A d \in members[Current(r)] \cap DataPlane :
    LET services == members[Current(r)] \cap Service IN
    /\ main[r] \in Reconstruction /\ phase[d] \in {"list", "add", "up"}
         => services \subseteq deployed[d] \cup missed[d]
    /\ Leading(r) /\ phase[d] \in {"add", "up"} => services \subseteq Has(d)

LeadersKnow ==
  \A r \in Replica :
    /\ main[r] = "leading" => listed[r] \cap Service = {}
    /\ alone[r] => Undisturbed(r) /\ Informed(r)
=============================================================================
