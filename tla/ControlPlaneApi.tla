--------------------------- MODULE ControlPlaneApi ---------------------------
(***************************************************************************)
(* The API of the control plane's replicas: calls are served by the leader *)
(* and forwarded to it by the others; the main loop of a replica builds    *)
(* and destroys its state as the election announces; and the load balancer *)
(* of every replica (HAProxy) is given the data planes that register, by   *)
(* transactions on its configuration file.                                 *)
(*                                                                         *)
(* The election is as abstract as the rest allows: terms with one winner,  *)
(* of which the others hear in any order (LeaderElection has the details). *)
(* The database is one set (ClusterState has the details).  An actor is a  *)
(* call, or the main loop of a replica when it revises its load balancer.  *)
(***************************************************************************)
EXTENDS Naturals, FiniteSets

CONSTANTS
  Replica, DataPlane,
  Call,             \* by gRPC, or by HTTP to the registration server
  None,
  MaxTerm,          \* bound on the elections
  MaxEvents         \* bound on the elections and the calls together

ASSUME ApiAssumption ==
  /\ IsFiniteSet(Replica) /\ Replica # {} /\ MaxTerm \in Nat /\ MaxEvents \in Nat
  /\ Replica \cap Call = {}
  /\ None \notin Replica \cup DataPlane

Actor == Replica \cup Call
Answer == {"success", "failure", "error", "aborted", "rejected"}

VARIABLES
  term, state, leaderID,     \* of the ConsensusModule of each replica
  peerClients,               \* the replicas that each has a connection to
  announceLeadership,        \* the channel of capacity one, "empty" or a value
  announcing,                \* what the holder of cm.mu waits to send
  main,                      \* where the main loop is
  wasLeaderBefore, monitors, \* its state, and the monitoring loops that run
  connections,               \* DataPlaneConnections of each replica
  database,                  \* the data planes in the database
  addressToName,             \* of the HAProxy API: "none", "server", or "ghost"
  backend,                   \* servers per address in the configuration file
  running,                   \* the addresses that the running HAProxy knows, or
                             \* None after a restart that has failed
  restarting,                \* a restart of HAProxy is under way
  pc, op, dataplane, at,     \* of each call
  step, place, valid,        \* the change of a configuration by an actor: where it
                             \* is, whose, and whether the version is still its own
  keep, todo, edits,         \* the addresses to keep, to look at, and its edits
  changes,                   \* whether it has found something to change
  target,                    \* the peers that a call has still to inform
  disturbed                  \* has a change been made in unsettled times? (history)

election == <<term, state, leaderID, peerClients, announceLeadership, announcing>>
loop == <<main, wasLeaderBefore, monitors>>
storage == <<connections, database>>
haproxy == <<addressToName, backend, running, restarting>>
calls == <<pc, op, dataplane, at>>
revision == <<step, place, valid, keep, todo, edits, changes, target, disturbed>>
vars == <<election, loop, storage, haproxy, calls, revision>>

(* What the revisions depend on, and the rest.  *)
RevisionTypes ==
  /\ peerClients \in [Replica -> SUBSET Replica]
  /\ main \in [Replica -> {"connect", "select", "elected", "deposed", "reconstruct", "revise",
                           "monitor", "down"}]
  /\ pc \in [Call -> Answer \cup {"idle", "handlerGetLeader",
       "IsLeader", "GetLeader", "serve", "edit", "config", "disseminate"}]
  /\ at \in [Call -> Replica \cup {None}]
  /\ backend \in [Replica -> [DataPlane -> Nat]]
  /\ running \in [Replica -> (SUBSET DataPlane) \cup {None}]
  /\ restarting \in [Replica -> BOOLEAN]
  /\ step \in [Actor -> {"none", "version", "edit", "servers"}]
  /\ place \in [Actor -> Replica \cup {None}]
  /\ edits \in [Actor -> [DataPlane -> {"none", "add", "delete"}]]
  /\ changes \in [Actor -> BOOLEAN]
  /\ target \in [Actor -> SUBSET Replica]

OtherTypes ==
  /\ term \in [Replica -> 0 .. MaxTerm]
  /\ state \in [Replica -> {"Leader", "Follower"}]
  /\ leaderID \in [Replica -> Replica \cup {None}]
  /\ announceLeadership \in [Replica -> {"empty", "leader", "follower"}]
  /\ announcing \in [Replica -> {"nothing", "leader", "follower"}]
  /\ wasLeaderBefore \in [Replica -> BOOLEAN]
  /\ monitors \in [Replica -> 0 .. 1]
  /\ connections \in [Replica -> SUBSET DataPlane]
  /\ database \in SUBSET DataPlane
  /\ addressToName \in [Replica -> [DataPlane -> {"none", "server", "ghost"}]]
  /\ op \in [Call -> {"none", "register", "deregister", "other"}]
  /\ dataplane \in [Call -> DataPlane \cup {None}]
  /\ valid \in [Actor -> BOOLEAN]
  /\ keep \in [Actor -> SUBSET DataPlane]
  /\ todo \in [Actor -> SUBSET DataPlane]
  /\ disturbed \in BOOLEAN

TypeOK == RevisionTypes /\ OtherTypes

NoEdits == [d \in DataPlane |-> "none"]

votesNeeded == Cardinality(Replica) \div 2

(* The processes have started, and serve calls already.  *)
Init ==
  /\ term = [r \in Replica |-> 0]
  /\ state = [r \in Replica |-> "Follower"]
  /\ leaderID = [r \in Replica |-> None]
  /\ peerClients = [r \in Replica |-> {}]
  /\ announceLeadership = [r \in Replica |-> "empty"]
  /\ announcing = [r \in Replica |-> "nothing"]
  /\ main = [r \in Replica |-> "connect"]
  /\ wasLeaderBefore = [r \in Replica |-> FALSE]
  /\ monitors = [r \in Replica |-> 0]
  /\ connections = [r \in Replica |-> {}]
  /\ database = {}
  /\ addressToName = [r \in Replica |-> [d \in DataPlane |-> "none"]]
  /\ backend = [r \in Replica |-> [d \in DataPlane |-> 0]]
  /\ running = [r \in Replica |-> {}]
  /\ restarting = [r \in Replica |-> FALSE]
  /\ pc = [c \in Call |-> "idle"]
  /\ op = [c \in Call |-> "none"]
  /\ dataplane = [c \in Call |-> None]
  /\ at = [c \in Call |-> None]
  /\ step = [a \in Actor |-> "none"]
  /\ place = [a \in Actor |-> None]
  /\ keep = [a \in Actor |-> {}]
  /\ todo = [a \in Actor |-> {}]
  /\ edits = [a \in Actor |-> NoEdits]
  /\ valid = [a \in Actor |-> FALSE]
  /\ target = [a \in Actor |-> {}]
  /\ changes = [a \in Actor |-> FALSE]
  /\ disturbed = FALSE

-----------------------------------------------------------------------------
(* The election.  cm.mu is held while an announcement waits for room in the
   channel; everything that takes the lock waits with it.  *)
MuFree(r) == announcing[r] = "nothing" /\ main[r] # "down"
IsLeader(r) == state[r] = "Leader"

Announce(r, a) ==
  IF announceLeadership[r] = "empty"
  THEN announceLeadership' = [announceLeadership EXCEPT ![r] = a] /\ UNCHANGED announcing
  ELSE announcing' = [announcing EXCEPT ![r] = a] /\ UNCHANGED announceLeadership

Newest == CHOOSE t \in 0 .. MaxTerm : (\E q \in Replica : term[q] = t) /\ \A q \in Replica : term[q] <= t
Events == Newest + Cardinality({c \in Call : pc[c] # "idle"})

(* A replica wins the next term.  *)
startLeader(r) ==
  /\ MuFree(r) /\ main[r] # "connect" /\ ~IsLeader(r) /\ Newest < MaxTerm /\ Events < MaxEvents
  /\ term' = [term EXCEPT ![r] = Newest + 1]
  /\ state' = [state EXCEPT ![r] = "Leader"]
  /\ Announce(r, "leader")
  /\ UNCHANGED <<leaderID, peerClients, loop, storage, haproxy, calls, revision>>

(* becomeFollower announces before it changes the state.  *)
becomeFollower(r, t) ==
  /\ Announce(r, "follower")
  /\ term' = [term EXCEPT ![r] = t]
  /\ state' = IF announceLeadership[r] = "empty" THEN [state EXCEPT ![r] = "Follower"] ELSE state

(* A request for a vote, or a reply, of a later term.  *)
HearOfTerm(r, q) ==
  /\ MuFree(r) /\ (q \in peerClients[r] \/ r \in peerClients[q]) /\ term[q] > term[r]
  /\ becomeFollower(r, term[q])
  /\ UNCHANGED <<leaderID, peerClients, loop, storage, haproxy, calls, revision>>

(* A heartbeat names its sender the leader, whatever its term.  *)
AppendEntries(r, q) ==
  /\ MuFree(r) /\ MuFree(q) /\ IsLeader(q) /\ r \in peerClients[q]
  /\ leaderID[r] # q \/ term[q] > term[r]
  /\ leaderID' = [leaderID EXCEPT ![r] = q]
  /\ IF term[q] > term[r] THEN becomeFollower(r, term[q])
     ELSE UNCHANGED <<term, state, announceLeadership, announcing>>
  /\ UNCHANGED <<peerClients, loop, storage, haproxy, calls, revision>>

(* The channel has room again for the announcement that waits.  *)
Announced(r) ==
  /\ announcing[r] # "nothing" /\ announceLeadership[r] = "empty" /\ main[r] # "down"
  /\ announceLeadership' = [announceLeadership EXCEPT ![r] = announcing[r]]
  /\ announcing' = [announcing EXCEPT ![r] = "nothing"]
  /\ state' = IF announcing[r] = "follower" THEN [state EXCEPT ![r] = "Follower"] ELSE state
  /\ UNCHANGED <<term, leaderID, peerClients, loop, storage, haproxy, calls, revision>>

ConnectToPeer(r, q) ==
  /\ main[r] # "down" /\ main[q] # "down" /\ q \notin peerClients[r] \cup {r}
  /\ peerClients' = [peerClients EXCEPT ![r] = @ \cup {q}]
  /\ UNCHANGED <<term, state, leaderID, announceLeadership, announcing, loop, storage, haproxy, calls, revision>>

(* The process ends: a reconstruction without leadership, or GetLeader by the
   leader.  Its calls fail; a peer that it has asked to revise goes on.  *)
Fatal(r) ==
  /\ main' = [main EXCEPT ![r] = "down"]
  /\ pc' = [c \in Call |->
              IF at[c] = r /\ pc[c] \notin Answer \cup {"idle"} THEN "error" ELSE pc[c]]
  /\ step' = [a \in Actor |->
                IF a = r \/ place[a] = r THEN "none" ELSE step[a]]
  /\ state' = [state EXCEPT ![r] = "Follower"]
  /\ disturbed' = TRUE

-----------------------------------------------------------------------------
(* The main loop.  *)
Loop(r, from, to) ==
  /\ main[r] = from
  /\ main' = [main EXCEPT ![r] = to]

(* Elections start when half of the replicas are connected.  *)
EstablishLeaderElectionMesh(r) ==
  /\ Cardinality(peerClients[r]) >= votesNeeded
  /\ Loop(r, "connect", "select")
  /\ UNCHANGED <<election, wasLeaderBefore, monitors, storage, haproxy, calls, revision>>

(* UpdateLeadership: a leader that is one already destroys its state, too.  *)
UpdateLeadership(r) ==
  /\ announceLeadership[r] # "empty"
  /\ Loop(r, "select", IF announceLeadership[r] = "leader" /\ ~wasLeaderBefore[r] THEN "elected"
                       ELSE IF wasLeaderBefore[r] THEN "deposed" ELSE "select")
  /\ announceLeadership' = [announceLeadership EXCEPT ![r] = "empty"]
  /\ UNCHANGED <<term, state, leaderID, peerClients, announcing, wasLeaderBefore, monitors, storage, haproxy, calls, revision>>

\* Mutant: the monitoring loop is not told to stop.
destroyStateKeepsMonitoring(r) ==
  /\ \/ Loop(r, "elected", "reconstruct") /\ UNCHANGED wasLeaderBefore
     \/ Loop(r, "deposed", "select") /\ wasLeaderBefore' = [wasLeaderBefore EXCEPT ![r] = FALSE]
  /\ connections' = [connections EXCEPT ![r] = {}]
  /\ UNCHANGED <<election, monitors, database, haproxy, calls, revision>>

(* The monitoring loop is stopped and a new ControlPlane object is made.  *)
destroyStateFromPreviousElectionTerm(r) ==
  /\ \/ Loop(r, "elected", "reconstruct") /\ UNCHANGED wasLeaderBefore
     \/ Loop(r, "deposed", "select") /\ wasLeaderBefore' = [wasLeaderBefore EXCEPT ![r] = FALSE]
  /\ monitors' = [monitors EXCEPT ![r] = 0]
  /\ connections' = [connections EXCEPT ![r] = {}]
  /\ UNCHANGED <<election, database, haproxy, calls, revision>>

(* Calls and main loops that are changing load balancers.  *)
Busy == {a \in Actor : step[a] # "none"} \cup {c \in Call : pc[c] \in {"config", "disseminate"}}

(* The data planes are read from the database, and given to the load balancer
   of this replica with their lock held.  *)
ReconstructState(r) ==
  /\ MuFree(r) /\ IsLeader(r)
  /\ Loop(r, "reconstruct", "revise")
  /\ connections' = [connections EXCEPT ![r] = @ \cup database]
  /\ keep' = [keep EXCEPT ![r] = connections'[r]]
  /\ place' = [place EXCEPT ![r] = r]
  /\ step' = [step EXCEPT ![r] = "version"]
  /\ disturbed' = (disturbed \/ Busy # {})
  /\ UNCHANGED <<election, wasLeaderBefore, monitors, database, haproxy, calls, valid, todo, edits, changes, target>>

ReconstructionFails(r) ==
  /\ MuFree(r) /\ ~IsLeader(r) /\ main[r] = "reconstruct"
  /\ Fatal(r)
  /\ UNCHANGED <<term, leaderID, peerClients, announceLeadership, announcing, wasLeaderBefore, monitors,
                 storage, haproxy, op, dataplane, at, place, valid, keep, todo, edits, changes, target>>

Reconstructed(r) ==
  /\ step[r] = "none"
  /\ Loop(r, "revise", "monitor")
  /\ UNCHANGED <<election, wasLeaderBefore, monitors, storage, haproxy, calls, revision>>

(* The leadership may have been lost: then nothing is monitored.  *)
StartNodeMonitoringLoop(r) ==
  /\ MuFree(r)
  /\ Loop(r, "monitor", "select")
  /\ monitors' = [monitors EXCEPT ![r] = IF IsLeader(r) THEN 1 ELSE 0]
  /\ wasLeaderBefore' = [wasLeaderBefore EXCEPT ![r] = TRUE]
  /\ UNCHANGED <<election, storage, haproxy, calls, revision>>

-----------------------------------------------------------------------------
(* A call, wherever it has got to.  *)
Goes(c, from, to) ==
  /\ pc[c] = from /\ main[at[c]] # "down"
  /\ pc' = [pc EXCEPT ![c] = to]

Arrives(c, r, o) ==
  /\ pc[c] = "idle" /\ main[r] # "down" /\ Events < MaxEvents
  /\ op' = [op EXCEPT ![c] = o]
  /\ at' = [at EXCEPT ![c] = r]

(* The handler of the registration server refuses a bad form; otherwise the
   API of this replica or of the leader is called.  *)
registrationHandler(c, r) ==
  /\ Arrives(c, r, "other")
  /\ \/ pc' = [pc EXCEPT ![c] = "rejected"]
     \/ MuFree(r) /\ pc' = [pc EXCEPT ![c] = IF IsLeader(r) THEN "IsLeader" ELSE "handlerGetLeader"]
  /\ UNCHANGED <<election, loop, storage, haproxy, dataplane, revision>>

(* A data plane registers or deregisters, or any other call, at any replica.  *)
CallApi(c, r, d) ==
  /\ \E o \in {"register", "deregister", "other"} : Arrives(c, r, o)
  /\ dataplane' = [dataplane EXCEPT ![c] = d]
  /\ MuFree(r)
  /\ pc' = [pc EXCEPT ![c] = IF IsLeader(r) THEN "serve" ELSE "GetLeader"]
  /\ UNCHANGED <<election, loop, storage, haproxy, revision>>

(* A call of the handler, or one that was forwarded.  *)
CheckLeader(c) ==
  /\ pc[c] = "IsLeader" /\ MuFree(at[c])
  /\ Goes(c, "IsLeader", IF IsLeader(at[c]) THEN "serve" ELSE "GetLeader")
  /\ UNCHANGED <<election, loop, storage, haproxy, op, dataplane, at, revision>>

Leader(r) == IF leaderID[r] \in peerClients[r] THEN leaderID[r] ELSE None

(* Forwarding.  Without a leader a call is answered with Success: false; the
   registration handler calls the method of nil.  *)
GetLeader(c) ==
  LET r == at[c] IN
  /\ pc[c] \in {"GetLeader", "handlerGetLeader"} /\ MuFree(r) /\ ~IsLeader(r)
  /\ IF Leader(r) = None
     THEN \/ Goes(c, "GetLeader", "failure") /\ UNCHANGED at
          \/ Goes(c, "handlerGetLeader", "aborted") /\ UNCHANGED at
     ELSE /\ \E from \in {"GetLeader", "handlerGetLeader"} :
               Goes(c, from, IF main[Leader(r)] = "down" THEN "error" ELSE "IsLeader")
          /\ at' = [at EXCEPT ![c] = Leader(r)]
  /\ UNCHANGED <<election, loop, storage, haproxy, op, dataplane, revision>>

(* The replica has become the leader since the call has looked.  *)
GetLeaderFatal(c) ==
  LET r == at[c] IN
  /\ pc[c] \in {"GetLeader", "handlerGetLeader"} /\ MuFree(r) /\ IsLeader(r)
  /\ Fatal(r)
  /\ UNCHANGED <<term, leaderID, peerClients, announceLeadership, announcing, wasLeaderBefore, monitors,
                 storage, haproxy, op, dataplane, at, place, valid, keep, todo, edits, changes, target>>

(* Calls that leave the load balancers alone succeed or return an error.  *)
ServeOther(c) ==
  /\ op[c] = "other"
  /\ \E answer \in {"success", "error"} : Goes(c, "serve", answer)
  /\ UNCHANGED <<election, loop, storage, haproxy, op, dataplane, at, revision>>

(* A leader that has rebuilt its state, and knows of no later term.  *)
Settled(r) ==
  /\ main[r] = "select" /\ wasLeaderBefore[r] /\ announceLeadership[r] = "empty"
  /\ \A q \in Replica : term[q] <= term[r]

(* RegisterDataplane and DeregisterDataplane of the ControlPlane object, which
   wait for the lock of the data planes.  A data plane that is registered
   already has only sent a heartbeat.  *)
ServeDataplane(c) ==
  LET r == at[c]
      d == dataplane[c] IN
  /\ pc[c] = "serve" /\ main[r] # "revise"
  /\ \/ /\ op[c] = "register" /\ d \in connections[r]
        /\ Goes(c, "serve", "success")
        /\ UNCHANGED <<storage, step, place, disturbed>>
     \/ /\ op[c] \in IF d \in connections[r] THEN {"deregister"} ELSE {"register", "deregister"}
        /\ Goes(c, "serve", "edit")
        /\ connections' = [connections EXCEPT ![r] = IF op[c] = "register" THEN @ \cup {d} ELSE @ \ {d}]
        /\ database' = IF op[c] = "register" THEN database \cup {d}
                       ELSE IF d \in connections[r] THEN database \ {d} ELSE database
        /\ step' = [step EXCEPT ![c] = "version"]
        /\ place' = [place EXCEPT ![c] = r]
        /\ disturbed' = (disturbed \/ Busy # {} \/ ~Settled(r))
  /\ UNCHANGED <<election, loop, haproxy, op, dataplane, at, valid, keep, todo, edits, changes, target>>

-----------------------------------------------------------------------------
(* The load balancers.  A change by a call is made with the version of the
   file that it has read, one by a revision in a transaction of that version:
   whoever changes the file first makes the others fail.  *)
Existing(p) == {d \in DataPlane : backend[p][d] > 0}

OthersFail(a) ==
  valid' = [b \in Actor |-> valid[b] /\ place[b] # place[a]]

GetVersion(c) ==
  /\ Goes(c, "edit", "edit") /\ step[c] = "version"
  /\ step' = [step EXCEPT ![c] = "edit"]
  /\ valid' = [valid EXCEPT ![c] = TRUE]
  /\ UNCHANGED <<election, loop, storage, haproxy, op, dataplane, at, place, keep, todo, edits, changes, target, disturbed>>

(* addressToName and the edit that follows from it, under the mutex of the
   API: an address that has a name is not added, one that has none is not
   removed, and the name changes whether or not the edit succeeds.  *)
addServer(n, d) == IF n[d] = "none" THEN [n EXCEPT ![d] = "server"] ELSE n

\* Mutant: the name of a removed server is kept.
removeServerOnly(n, d) == n

removeServerByName(n, d) == [n EXCEPT ![d] = "none"]

Edit(before, after, d) ==
  IF before[d] = "none" /\ after[d] = "server" THEN "add"
  ELSE IF before[d] = "server" /\ after[d] = "none" THEN "delete" ELSE "none"

Edited(servers, d, edit) ==
  IF edit = "add" THEN servers[d] + 1
  ELSE IF edit = "delete" /\ servers[d] > 0 THEN servers[d] - 1 ELSE servers[d]

(* AddDataplane and RemoveDataplane at the replica that has served the call,
   and the restart.  A name whose server could not be created is a ghost.  *)
AddOrRemoveDataplane(c) ==
  LET r == at[c]
      d == dataplane[c]
      names == addressToName[r]
      after == IF op[c] = "register" THEN addServer(names, d) ELSE removeServerByName(names, d)
      edit == Edit(names, after, d) IN
  /\ Goes(c, "edit", "config") /\ step[c] = "edit"
  /\ step' = [step EXCEPT ![c] = "none"]
  /\ addressToName' = [addressToName EXCEPT ![r] =
                         IF edit = "add" /\ ~valid[c] THEN [after EXCEPT ![d] = "ghost"] ELSE after]
  /\ IF valid[c] /\ edit # "none"
     THEN backend' = [backend EXCEPT ![r][d] = Edited(backend[r], d, edit)] /\ OthersFail(c)
     ELSE UNCHANGED <<backend, valid>>
  /\ restarting' = [restarting EXCEPT ![r] = TRUE]
  /\ UNCHANGED <<election, loop, storage, running, op, dataplane, at, place, keep, todo, edits, changes, target, disturbed>>

GetHAProxyConfig(c) ==
  LET r == at[c] IN
  /\ pc[c] = "config" /\ main[r] # "revise"
  /\ Goes(c, "config", "disseminate")
  /\ keep' = [keep EXCEPT ![c] = connections[r]]
  /\ target' = [target EXCEPT ![c] = peerClients[r]]
  /\ disturbed' = (disturbed \/ peerClients[r] \cup {r} # Replica \/ ~Settled(r))
  /\ UNCHANGED <<election, loop, storage, haproxy, op, dataplane, at, step, place, valid, todo, edits, changes>>

(* Each peer is asked to revise its configuration; one that is down is left
   out.  *)
DisseminateHAProxyConfig(c) ==
  /\ step[c] = "none"
  /\ \/ /\ target[c] = {}
        /\ Goes(c, "disseminate", "success")
        /\ keep' = [keep EXCEPT ![c] = {}]
        /\ UNCHANGED <<step, place, target, disturbed>>
     \/ \E p \in target[c] :
          /\ Goes(c, "disseminate", "disseminate")
          /\ target' = [target EXCEPT ![c] = @ \ {p}]
          /\ place' = [place EXCEPT ![c] = p]
          /\ step' = [step EXCEPT ![c] = IF main[p] = "down" THEN "none" ELSE "version"]
          /\ disturbed' = (disturbed \/ main[p] = "down")
          /\ UNCHANGED keep
  /\ UNCHANGED <<election, loop, storage, haproxy, op, dataplane, at, valid, todo, edits, changes>>

(* genericRevise for the data planes: a transaction, the servers that are
   there, and what has to change.  *)
Revising(a) == IF a \in Call THEN pc[a] \in {"disseminate", "error"} ELSE main[a] = "revise"

StartTransaction(a) ==
  LET p == place[a] IN
  /\ Revising(a) /\ step[a] = "version"
  /\ step' = [step EXCEPT ![a] = "edit"]
  /\ valid' = [valid EXCEPT ![a] = TRUE]
  /\ todo' = [todo EXCEPT ![a] = (keep[a] \ Existing(p)) \cup (Existing(p) \ keep[a])]
  /\ changes' = [changes EXCEPT ![a] = todo'[a] # {}]
  /\ edits' = [edits EXCEPT ![a] = NoEdits]
  /\ UNCHANGED <<election, loop, storage, haproxy, calls, place, keep, target, disturbed>>

(* Removals come first.  *)
ReviseServer(a, d) ==
  LET p == place[a]
      names == addressToName[p]
      after == IF d \in keep[a] THEN addServer(names, d) ELSE removeServerByName(names, d) IN
  /\ Revising(a) /\ step[a] = "edit" /\ d \in todo[a]
  /\ d \in keep[a] => todo[a] \subseteq keep[a]
  /\ todo' = [todo EXCEPT ![a] = @ \ {d}]
  /\ addressToName' = [addressToName EXCEPT ![p] = after]
  /\ edits' = [edits EXCEPT ![a][d] = Edit(names, after, d)]
  /\ UNCHANGED <<election, loop, storage, backend, running, restarting, calls, step, place, valid, keep, changes, target, disturbed>>

(* A commit that fails is followed by another attempt; the names of the failed
   one stay.  *)
CommitTransaction(a) ==
  LET p == place[a] IN
  /\ Revising(a) /\ step[a] = "edit" /\ todo[a] = {}
  /\ \/ /\ valid[a]
        /\ backend' = [backend EXCEPT ![p] = [d \in DataPlane |-> Edited(@, d, edits[a][d])]]
        /\ OthersFail(a)
        /\ edits' = [edits EXCEPT ![a] = NoEdits]
        /\ step' = [step EXCEPT ![a] = "servers"]
        /\ UNCHANGED addressToName
     \/ /\ ~valid[a]
        /\ addressToName' = [addressToName EXCEPT ![p] = [d \in DataPlane |->
              IF edits[a][d] = "add" /\ @[d] = "server" THEN "ghost" ELSE @[d]]]
        /\ step' = [step EXCEPT ![a] = "version"]
        /\ edits' = [edits EXCEPT ![a] = NoEdits]
        /\ UNCHANGED <<backend, valid>>
  /\ UNCHANGED <<election, loop, storage, running, restarting, calls, place, keep, todo, changes, target, disturbed>>

\* Mutant: only new registration servers make HAProxy restart.
ReviseWithoutRestart(a) ==
  /\ Revising(a) /\ step[a] = "servers"
  /\ OthersFail(a)
  /\ step' = [step EXCEPT ![a] = "none"]
  /\ UNCHANGED <<election, loop, storage, haproxy, calls, place, keep, todo, edits, changes, target, disturbed>>

(* The registration servers are revised in the same way, until it succeeds;
   HAProxy is restarted when there were changes.  *)
ReviseRegistrationServers(a) ==
  /\ Revising(a) /\ step[a] = "servers"
  /\ OthersFail(a)
  /\ step' = [step EXCEPT ![a] = "none"]
  /\ changes' = [changes EXCEPT ![a] = FALSE]
  /\ \E rsChanges \in BOOLEAN :
       restarting' = [restarting EXCEPT ![place[a]] = @ \/ changes[a] \/ rsChanges]
  /\ UNCHANGED <<election, loop, storage, addressToName, backend, running, calls, place, keep, todo, edits, target, disturbed>>

(* The goroutine of RestartHAProxy.  When the restart fails only the failed
   state of the unit is reset: HAProxy goes on with what it had, or not at
   all, until the next restart.  *)
RestartHAProxy(r) ==
  /\ restarting[r] /\ main[r] # "down"
  /\ \E known \in {Existing(r), None} : running' = [running EXCEPT ![r] = known]
  /\ restarting' = [restarting EXCEPT ![r] = FALSE]
  /\ UNCHANGED <<election, loop, storage, addressToName, backend, calls, revision>>

-----------------------------------------------------------------------------
Main(r) ==
  \/ EstablishLeaderElectionMesh(r) \/ UpdateLeadership(r) \/ destroyStateFromPreviousElectionTerm(r)
  \/ ReconstructState(r) \/ ReconstructionFails(r) \/ Reconstructed(r) \/ StartNodeMonitoringLoop(r)

Revise(a) ==
  \/ StartTransaction(a) \/ CommitTransaction(a) \/ ReviseRegistrationServers(a)
  \/ \E d \in DataPlane : ReviseServer(a, d)

Arrive(c) ==
  \E r \in Replica : registrationHandler(c, r) \/ \E d \in DataPlane : CallApi(c, r, d)

Handle(c) ==
  \/ CheckLeader(c) \/ GetLeader(c) \/ GetLeaderFatal(c) \/ ServeOther(c)
  \/ ServeDataplane(c) \/ GetVersion(c) \/ AddOrRemoveDataplane(c)
  \/ GetHAProxyConfig(c) \/ DisseminateHAProxyConfig(c)

Election(r) ==
  \/ startLeader(r)
  \/ \E q \in Replica \ {r} : HearOfTerm(r, q) \/ AppendEntries(r, q) \/ ConnectToPeer(r, q)

Next ==
  \/ \E r \in Replica : Election(r) \/ Announced(r) \/ Main(r) \/ RestartHAProxy(r)
  \/ \E c \in Call : Arrive(c) \/ Handle(c)
  \/ \E a \in Actor : Revise(a)

Spec == Init /\ [][Next]_vars

(* Handlers, main loops and revisions go on, and heartbeats arrive.  Nobody
   has to call, to stand for election or to connect.  *)
FairSpec ==
  /\ Spec
  /\ \A r \in Replica : WF_vars(Main(r)) /\ WF_vars(Announced(r)) /\ WF_vars(RestartHAProxy(r))
  /\ \A r \in Replica : \A q \in Replica \ {r} : WF_vars(AppendEntries(r, q)) /\ WF_vars(HearOfTerm(r, q))
  /\ \A c \in Call : WF_vars(Handle(c))
  /\ \A a \in Actor : WF_vars(Revise(a))

-----------------------------------------------------------------------------
(* A replica that has nothing to announce any more, and whose main loop waits
   for the next announcement, monitors the nodes exactly if it is the leader:
   whatever was won, lost and announced while it was rebuilding its state, and
   with announcements that wait for cm.mu and the channel (UpdateLeadership,
   SetCurrentControlPlaneLeader, StartNodeMonitoringLoop).  *)
LeadersMonitor ==
  \A r \in Replica :
    main[r] = "select" /\ announceLeadership[r] = "empty" /\ announcing[r] = "nothing" =>
      (monitors[r] = 1 <=> IsLeader(r))

(* When nobody is changing the configuration of a replica and no restart is
   under way, the HAProxy that runs has what the file says, or its last restart
   has failed: however calls and revisions overlap, fail and try again, the
   last change is followed by a restart (AddDataplane,
   ReviseHAProxyConfiguration).  *)
RunningIsCommitted ==
  \A r \in Replica :
    main[r] # "down" /\ ~restarting[r] /\ (\A a \in Busy : place[a] # r) =>
      running[r] \in {Existing(r), None}

(* What the comment at manager.go:99 wants of RestartHAProxy, "commit every
   action to the running instance": with a restart that fails it is not.  *)
EveryActionIsCommitted ==
  \A r \in Replica :
    main[r] # "down" /\ ~restarting[r] /\ (\A a \in Busy : place[a] # r) => running[r] = Existing(r)

(* Calls that settled leaders have served one at a time leave every load
   balancer with the data planes of the leader, also after a change of leader:
   the own one by AddDataplane and RemoveDataplane or the callback of the
   reconstruction, those of the peers by DisseminateHAProxyConfig.  A leader
   must be settled when it reads the configuration that it disseminates, too:
   one that has just been deposed has none, and would empty its peers'.  *)
LoadBalancersAgree ==
  ~disturbed /\ Busy = {} =>
    \A r, q \in Replica : Settled(r) => Existing(q) = connections[r]

(* Every call is answered or fails, if it has been forwarded to and fro for a
   while or waits for a load balancer whose configuration others change, too
   (GetLeader, ReviseDataplanes).  *)
CallsEnd == \A c \in Call : pc[c] # "idle" ~> pc[c] \in Answer

(* The main loop never waits for cm.mu while the holder of cm.mu waits for the
   main loop to take an announcement (startLeader, becomeFollower).  *)
LoopIsNotStuck ==
  \A r \in Replica :
    main[r] \in {"reconstruct", "monitor"} =>
      announcing[r] = "nothing" \/ announceLeadership[r] = "empty"

(* server.go:97 says that GetLeader is not called by the leader, which ends the
   process if it is: no call is about to call it at one (GetLeader).  *)
LeaderIsNotAsked ==
  \A c \in Call :
    pc[c] \in {"GetLeader", "handlerGetLeader"} /\ MuFree(at[c]) => ~IsLeader(at[c])

-----------------------------------------------------------------------------
(* What makes the properties above inductive.  *)

(* Where a replica or a call is when it changes a configuration.  *)
LoopOccupied(r) == (main[r] # "revise" => step[r] = "none") /\ place[r] \in {None, r}

CallOccupied(c) ==
  /\ pc[c] # "idle" => at[c] \in Replica
  /\ pc[c] \notin {"edit", "disseminate", "error"} => step[c] = "none"
  /\ pc[c] = "edit" => step[c] \in {"version", "edit"} /\ place[c] = at[c]

(* A transaction that has nothing to change edits nothing.  *)
ChangesFound(a) ==
  Revising(a) /\ step[a] = "edit" /\ ~changes[a] => todo[a] = {} /\ edits[a] = NoEdits

(* HAProxy runs what the file says, is being restarted, or is about to be.  *)
Restarted(r) ==
  main[r] # "down" /\ ~restarting[r] =>
    running[r] \in {Existing(r), None} \/ \E a \in Actor : step[a] = "servers" /\ place[a] = r /\ changes[a]

Revisions ==
  /\ RevisionTypes /\ todo = [a \in Actor |-> todo[a]]
  /\ \A r \in Replica : LoopOccupied(r) /\ Restarted(r)
  /\ \A c \in Call : CallOccupied(c)
  /\ \A a \in Actor : ChangesFound(a)

-----------------------------------------------------------------------------
(* What LoadBalancersAgree rests on.  *)

(* The leader of its term, unless cm.mu is held to announce that it is not any
   more; and a replica whose main loop acts, or is about to act, as one.  *)
Elected(r) == IsLeader(r) /\ announcing[r] # "follower"
InCharge(r) == main[r] \in {"revise", "monitor"} \/ (main[r] = "select" /\ wasLeaderBefore[r])
UpToDate(r) == InCharge(r) /\ announceLeadership[r] = "empty" /\ \A q \in Replica : term[q] <= term[r]

(* Terms have one leader, and a main loop that has heard nothing else acts for
   the leader of the term.  *)
Leaderships ==
  /\ \A r \in Replica : wasLeaderBefore[r] => main[r] \in {"select", "deposed", "down"}
  /\ \A r \in Replica :
       InCharge(r) /\ announceLeadership[r] = "empty" => announcing[r] = "nothing" /\ IsLeader(r)
  /\ \A r, q \in Replica : Elected(r) /\ Elected(q) /\ term[r] = term[q] => r = q

(* Why LeadersMonitor holds: each change of the state is announced once and in
   order, by way of cm.mu and the channel, so that a main loop that has heard
   everything acts for a leader exactly if the replica is one.  *)
Acts(r) == main[r] \in {"elected", "reconstruct"} \/ InCharge(r)
Heard(r) ==
  /\ announcing[r] = "leader" =>
       IsLeader(r) /\ announceLeadership[r] # "leader" /\ (announceLeadership[r] = "empty" => ~Acts(r))
  /\ announceLeadership[r] = "leader" => ~Acts(r) /\ (announcing[r] = "nothing" => IsLeader(r))
  /\ announceLeadership[r] = "follower" /\ announcing[r] = "nothing" => ~IsLeader(r)
  /\ announceLeadership[r] = "empty" /\ announcing[r] = "nothing" => (IsLeader(r) <=> Acts(r))
  /\ main[r] = "select" /\ wasLeaderBefore[r] /\ announceLeadership[r] = "empty" => monitors[r] = 1
  /\ ~wasLeaderBefore[r] => monitors[r] = 0

Succession == \A r \in Replica : main[r] = "down" \/ Heard(r)

(* The names of a load balancer are those of its servers, and the servers are
   the data planes of the database.  *)
Named(p, d) ==
  \/ addressToName[p][d] = "none" /\ backend[p][d] = 0
  \/ addressToName[p][d] = "server" /\ backend[p][d] = 1
Agrees(p, d) == d \in Existing(p) <=> d \in database

(* A call that is about to change the own load balancer.  *)
Editing(c) ==
  /\ dataplane[c] \in DataPlane
  /\ dataplane[c] \in database <=> op[c] = "register"
  /\ \A p \in Replica : \A d \in DataPlane : Named(p, d)
  /\ \A d \in DataPlane \ {dataplane[c]} : Agrees(at[c], d)
  /\ step[c] = "edit" => valid[c]

(* A revision: the load balancers that are not waiting for it agree, but for
   the one that it is at, which agrees up to the edits of the transaction.  *)
Revised(a, d) ==
  LET p == place[a] IN
  CASE edits[a][d] = "none" -> Named(p, d) /\ (Agrees(p, d) <=> d \notin todo[a])
    [] edits[a][d] = "add" -> /\ d \notin todo[a] /\ d \in database
                              /\ addressToName[p][d] = "server" /\ backend[p][d] = 0
    [] edits[a][d] = "delete" -> /\ d \notin todo[a] /\ d \notin database
                                 /\ addressToName[p][d] = "none" /\ backend[p][d] = 1

Waiting(a) == IF a \in Call THEN target[a] ELSE {}
Underway(a) ==
  /\ IF a \in Call THEN pc[a] = "disseminate" ELSE main[a] = "revise"
  /\ keep[a] = database
  /\ step[a] # "none" => place[a] \in Replica
  /\ \A p \in Replica : \A d \in DataPlane :
       /\ (step[a] = "edit" /\ p = place[a]) \/ Named(p, d)
       /\ p \in Waiting(a) \/ (step[a] \in {"version", "edit"} /\ p = place[a]) \/ Agrees(p, d)
  /\ step[a] = "edit" => valid[a] /\ \A d \in DataPlane : Revised(a, d)

Changing(a) ==
  \/ a \in Call /\ pc[a] = "edit" /\ Editing(a)
  \/ /\ a \in Call /\ pc[a] = "config"
     /\ \A p \in Replica : \A d \in DataPlane : Named(p, d) /\ Agrees(at[a], d)
  \/ Underway(a)

(* In settled times: one change at a time, of what the database has.  *)
Agreement ==
  ~disturbed =>
    /\ \A r \in Replica : main[r] # "down" /\ (main[r] = "reconstruct" => connections[r] = {})
    /\ \A r \in Replica : UpToDate(r) => connections[r] = database
    /\ \A a, b \in Busy : a = b
    /\ \A a \in Busy : Changing(a)
    /\ Busy = {} => \A p \in Replica : \A d \in DataPlane : Named(p, d) /\ Agrees(p, d)

Called == \A c \in Call : op[c] \in {"register", "deregister"} => dataplane[c] \in DataPlane
=============================================================================
