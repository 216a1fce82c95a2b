------------------------------ MODULE Policies ------------------------------
(***************************************************************************)
(* How a member of a list is chosen by several callers at once: a node for *)
(* a new sandbox by the placement policies of the control plane, and an    *)
(* endpoint for a request by the load balancing policies of a data plane.  *)
(* Both choose with the lock of the list held for reading, and the list is *)
(* changed with the lock held for writing; counters, the tokens of the     *)
(* endpoints and the numbers of requests are shared without it.            *)
(*                                                                         *)
(* sync.RWMutex lets nobody in for reading when a writer waits.  A node is *)
(* a name, an endpoint an UpstreamEndpoint: one that is added again while  *)
(* a request still has it is another endpoint.                             *)
(***************************************************************************)
EXTENDS Integers, SequencesExt, FiniteSets

CONSTANTS
  Caller,        \* goroutines that place sandboxes, or handle requests
  Member,        \* nodes, or endpoints
  None,
  Policies,      \* the policies that are configured
  Tokens,        \* capacity of an endpoint
  MaxRequests,   \* bound on the requests that are counted
  CounterValues, \* values of the counters of load balancing, 2^32 in the code
  MayLeave       \* do members leave the list, or become unschedulable?

PlacementPolicies == {"place random", "place round-robin", "place kubernetes"}

\* knative is one of the last three, as sandboxParallelism is at most 3, more
\* than that, or UnlimitedConcurrency.
LoadBalancingPolicies ==
  {"random", "round-robin", "least-processed", "first available", "kubernetes round-robin", "best of two"}

ASSUME PoliciesAssumption ==
  /\ None \notin Member /\ MayLeave \in BOOLEAN
  /\ Policies \subseteq PlacementPolicies \cup LoadBalancingPolicies
  /\ Tokens \in Nat \ {0} /\ MaxRequests \in Nat /\ CounterValues \in Nat \ {0}

VARIABLES
  policy,       \* the one that is configured
  members,      \* NIStorage, or upstreamEndpoints
  schedulable,  \* nodes with Schedulable
  readers,      \* the callers that hold the lock for reading
  writer,       \* does a writer wait for the lock?
  counter,      \* schedulingCounterRoundRobin, RoundRobinCounter or KubernetesRoundRobinCounter
  capacity,     \* tokens in the Capacity of each endpoint
  count,        \* RequestCountPerInstance
  pc,           \* where each caller is
  nodes,        \* its list of schedulable nodes
  index,        \* the index it has read or has come to
  minValue,     \* the least count that it has seen
  chosen,
  last,         \* history: the node that Place returned last, and of which nodes
  free,         \* history: endpoints with a token ever since the caller has the lock
  alone         \* history: has nobody else moved the counter or taken a token since,
                \* and has the counter not begun again at zero?

lock == <<readers, writer>>
endpoints == <<capacity, count>>
locals == <<nodes, index, minValue, chosen>>
history == <<last, free, alone>>
vars == <<policy, members, schedulable, lock, counter, endpoints, pc, locals, history>>

Placing == policy \in PlacementPolicies

TypeOK ==
  /\ policy \in Policies
  /\ members \in UNION {[1 .. n -> Member] : n \in 0 .. Cardinality(Member)}
  /\ schedulable \subseteq Range(members)
  /\ readers \subseteq Caller /\ writer \in BOOLEAN
  /\ counter \in 0 .. CounterValues - 1
  /\ capacity \in [Member -> 0 .. Tokens] /\ count \in [Member -> 0 .. MaxRequests]
  /\ pc \in [Caller -> {"idle", "len", "select", "load", "swap", "random", "increment", "scan", "look", "probe",
                        "next", "check", "test", "take", "found", "capacity", "count", "serving", "dead"}]
  /\ \A c \in Caller : nodes[c] \in Seq(Member) /\ Len(nodes[c]) <= Cardinality(Member)
  /\ index \in [Caller -> 0 .. Cardinality(Member)] /\ minValue \in [Caller -> 0 .. MaxRequests]
  /\ chosen \in [Caller -> Member \cup {None}]
  /\ last \in (Member \cup {None}) \X SUBSET Member
  /\ free \in [Caller -> SUBSET Member] /\ alone \in [Caller -> BOOLEAN]

(* A channel of capacity zero is made for unlimited concurrency.  *)
createThrottlerChannel == IF policy = "best of two" THEN 0 ELSE Tokens

Init ==
  /\ policy \in Policies
  /\ members = <<>> /\ schedulable = {}
  /\ readers = {} /\ writer = FALSE
  /\ counter = 0
  /\ capacity = [m \in Member |-> createThrottlerChannel] /\ count = [m \in Member |-> 0]
  /\ pc = [c \in Caller |-> "idle"]
  /\ nodes = [c \in Caller |-> <<>>] /\ index = [c \in Caller |-> 0]
  /\ minValue = [c \in Caller |-> 0] /\ chosen = [c \in Caller |-> None]
  /\ last = <<None, {}>> /\ free = [c \in Caller |-> {}] /\ alone = [c \in Caller |-> TRUE]

-----------------------------------------------------------------------------
(* Changes of the list.  *)
Lock ==
  /\ ~writer /\ writer' = TRUE
  /\ UNCHANGED <<policy, members, schedulable, readers, counter, endpoints, pc, locals, history>>

Locked == writer /\ readers = {} /\ writer' = FALSE /\ UNCHANGED readers

RegisterNode ==
  /\ Placing /\ Locked
  /\ \E m \in Member \ Range(members) :
       members' = Append(members, m) /\ schedulable' = schedulable \cup {m}
  /\ UNCHANGED <<policy, counter, endpoints, pc, locals, history>>

\* Mutant: nodes leave without the lock.
DeregisterNodeUnlocked ==
  /\ Placing /\ MayLeave
  /\ \E i \in DOMAIN members :
       members' = RemoveAt(members, i) /\ schedulable' = schedulable \ {members[i]}
  /\ UNCHANGED <<policy, lock, counter, endpoints, pc, locals, history>>

DeregisterNode ==
  /\ Placing /\ Locked /\ MayLeave
  /\ \E i \in DOMAIN members :
       members' = RemoveAt(members, i) /\ schedulable' = schedulable \ {members[i]}
  /\ UNCHANGED <<policy, counter, endpoints, pc, locals, history>>

(* Nodes without a heartbeat for a while.  *)
CheckPeriodicallyWorkerNodes ==
  /\ Placing /\ Locked /\ MayLeave
  /\ schedulable' \in SUBSET Range(members)
  /\ UNCHANGED <<policy, members, counter, endpoints, pc, locals, history>>

(* Without the lock.  *)
NodeHeartbeat ==
  /\ Placing
  /\ \E m \in Range(members) \ schedulable : schedulable' = schedulable \cup {m}
  /\ UNCHANGED <<policy, members, lock, counter, endpoints, pc, locals, history>>

AddEndpoints ==
  /\ ~Placing /\ Locked
  /\ \E m \in Member \ (Range(members) \cup Range(chosen)) :
       /\ members' = Append(members, m)
       /\ capacity' = [capacity EXCEPT ![m] = createThrottlerChannel] /\ count' = [count EXCEPT ![m] = 0]
  /\ UNCHANGED <<policy, schedulable, counter, pc, locals, history>>

(* DrainEndpoints and RemoveAllEndpoints.  *)
removeEndpoints ==
  /\ ~Placing /\ Locked /\ MayLeave
  /\ \E i \in DOMAIN members : members' \in {RemoveAt(members, i), <<>>}
  /\ UNCHANGED <<policy, schedulable, counter, endpoints, pc, locals, history>>

-----------------------------------------------------------------------------
(* A caller takes the lock, and chooses.  *)
At(c, from, to) == pc[c] = from /\ pc' = [pc EXCEPT ![c] = to]

Chooses(c, from, m) == At(c, from, "found") /\ chosen' = [chosen EXCEPT ![c] = m]

(* Somebody moves the counter, or takes a token.  *)
Disturbs(c) == alone' = [d \in Caller |-> d = c /\ alone[c]]

RLock(c) ==
  /\ ~writer
  /\ Placing \/ \A m \in Member : count[m] < MaxRequests - Cardinality(Caller)
  /\ At(c, "idle", IF Placing THEN "len" ELSE "select")
  /\ readers' = readers \cup {c}
  /\ free' = [free EXCEPT ![c] = {m \in Range(members) : capacity[m] > 0}]
  /\ alone' = [alone EXCEPT ![c] = TRUE]
  /\ UNCHANGED <<policy, members, schedulable, writer, counter, endpoints, locals, last>>

(* AtomicLen takes the lock a second time.  *)
noNodesInCluster(c) ==
  /\ ~writer
  /\ At(c, "len", IF members = <<>> THEN "found" ELSE "select")
  /\ UNCHANGED <<policy, members, schedulable, lock, counter, endpoints, locals, history>>

(* The nodes of a map come in any order.  filterMachines stores the nodes in an
   interface that is nil, which ends the process.  *)
getSchedulableNodes(c) ==
  /\ Placing /\ pc[c] = "select"
  /\ \E order \in SetToSeqs(schedulable) : nodes' = [nodes EXCEPT ![c] = order]
  /\ pc' = CASE policy = "place kubernetes" -> [d \in Caller |-> "dead"]
             [] policy # "place kubernetes" /\ schedulable = {} -> [pc EXCEPT ![c] = "found"]
             [] policy = "place random" /\ schedulable # {} -> [pc EXCEPT ![c] = "random"]
             [] policy = "place round-robin" /\ schedulable # {} -> [pc EXCEPT ![c] = "load"]
  /\ UNCHANGED <<policy, members, schedulable, lock, counter, endpoints, index, minValue, chosen, history>>

LoadCounter(c) ==
  /\ At(c, "load", "swap")
  /\ index' = [index EXCEPT ![c] = counter % Len(nodes[c])]
  /\ UNCHANGED <<policy, members, schedulable, lock, counter, endpoints, nodes, minValue, chosen, history>>

CompareAndSwap(c) ==
  /\ \/ /\ counter = index[c]
        /\ Chooses(c, "swap", nodes[c][index[c] + 1])
        /\ counter' = (index[c] + 1) % Len(nodes[c])
        /\ last' = <<chosen'[c], Range(nodes[c])>>
     \/ /\ counter # index[c]
        /\ At(c, "swap", "load")
        /\ UNCHANGED <<counter, chosen, last>>
  /\ UNCHANGED <<policy, members, schedulable, lock, endpoints, nodes, index, minValue, free, alone>>

(* rand.Intn, in Random.Place and in randomEndpoint.  *)
randomChoice(c) ==
  /\ \E m \in Range(IF Placing THEN nodes[c] ELSE members) : Chooses(c, "random", m)
  /\ UNCHANGED <<policy, members, schedulable, lock, counter, endpoints, nodes, index, minValue, history>>

-----------------------------------------------------------------------------
(* Load balancing.  The first thing each policy reads is read here.  *)
Current == counter % Len(members)

bestOfTwoRandoms(c) ==
  \E m, other \in Range(members) :
    /\ m # other \/ Len(members) = 1
    /\ count[m] >= count[other]
    /\ Chooses(c, "select", m)

runLoadBalancingAlgorithm(c) ==
  /\ ~Placing
  /\ \/ members = <<>> /\ Chooses(c, "select", None) /\ UNCHANGED <<index, minValue>>
     \/ /\ members # <<>> /\ policy = "best of two" /\ bestOfTwoRandoms(c)
        /\ UNCHANGED <<index, minValue>>
     \/ /\ members # <<>> /\ policy # "best of two"
        /\ At(c, "select", CASE policy = "random" -> "random"
                             [] policy = "round-robin" -> "increment"
                             [] policy = "least-processed" -> "scan"
                             [] policy = "first available" -> "look"
                             [] policy = "kubernetes round-robin" -> "probe")
        /\ index' = [index EXCEPT ![c] = IF policy \in {"round-robin", "kubernetes round-robin"} THEN Current ELSE 0]
        /\ minValue' = [minValue EXCEPT ![c] = count[members[1]]]
        /\ chosen' = [chosen EXCEPT ![c] = members[1]]
  /\ UNCHANGED <<policy, members, schedulable, lock, counter, endpoints, nodes, history>>

roundRobinLoadBalancing(c) ==
  /\ Chooses(c, "increment", members[index[c] + 1])
  /\ counter' = (counter + 1) % CounterValues
  /\ Disturbs(c)
  /\ UNCHANGED <<policy, members, schedulable, lock, endpoints, nodes, index, minValue, last, free>>

\* Mutant: the last endpoint is left out.
leastProcessedButLast(c) ==
  /\ At(c, "scan", IF index[c] + 1 >= Len(members) - 1 THEN "found" ELSE "scan")
  /\ \E m \in {members[index[c] + 1]} :
       /\ chosen' = IF count[m] < minValue[c] THEN [chosen EXCEPT ![c] = m] ELSE chosen
       /\ minValue' = IF count[m] < minValue[c] THEN [minValue EXCEPT ![c] = count[m]] ELSE minValue
  /\ index' = [index EXCEPT ![c] = @ + 1]
  /\ UNCHANGED <<policy, members, schedulable, lock, counter, endpoints, nodes, history>>

leastProcessedLoadBalancing(c) ==
  /\ At(c, "scan", IF index[c] + 1 = Len(members) THEN "found" ELSE "scan")
  /\ \E m \in {members[index[c] + 1]} :
       /\ chosen' = IF count[m] < minValue[c] THEN [chosen EXCEPT ![c] = m] ELSE chosen
       /\ minValue' = IF count[m] < minValue[c] THEN [minValue EXCEPT ![c] = count[m]] ELSE minValue
  /\ index' = [index EXCEPT ![c] = @ + 1]
  /\ UNCHANGED <<policy, members, schedulable, lock, counter, endpoints, nodes, history>>

\* Mutant: the first endpoint is not looked at.
secondAvailable(c) ==
  /\ pc[c] = "look"
  /\ \E m \in {members[index[c] + 1]} :
       \/ index[c] > 0 /\ capacity[m] > 0 /\ Chooses(c, "look", m) /\ UNCHANGED index
       \/ /\ index[c] = 0 \/ capacity[m] = 0
          /\ At(c, "look", IF index[c] + 1 = Len(members) THEN "random" ELSE "look")
          /\ index' = [index EXCEPT ![c] = @ + 1] /\ UNCHANGED chosen
  /\ UNCHANGED <<policy, members, schedulable, lock, counter, endpoints, nodes, minValue, history>>

kubernetesFirstAvailableLoadBalancing(c) ==
  /\ pc[c] = "look"
  /\ \E m \in {members[index[c] + 1]} :
       \/ capacity[m] > 0 /\ Chooses(c, "look", m) /\ UNCHANGED index
       \/ /\ capacity[m] = 0
          /\ At(c, "look", IF index[c] + 1 = Len(members) THEN "random" ELSE "look")
          /\ index' = [index EXCEPT ![c] = @ + 1] /\ UNCHANGED chosen
  /\ UNCHANGED <<policy, members, schedulable, lock, counter, endpoints, nodes, minValue, history>>

(* kubernetesRoundRobinLoadBalancing: the counter is shared, and read again and
   again.  It runs until an endpoint has a token or it is back at the index
   that was read first; then the endpoint is looked at once more.  *)
IncrementCounter(c, from, to) ==
  /\ At(c, from, to)
  /\ counter' = (counter + 1) % CounterValues
  /\ alone' = [d \in Caller |-> d = c /\ alone[c] /\ counter' # 0]
  /\ UNCHANGED <<index, chosen, last, free>>

kubernetesRoundRobinLoadBalancing(c) ==
  /\ \/ /\ At(c, "probe", IF capacity[members[Current + 1]] > 0 THEN "test" ELSE "next")
        /\ UNCHANGED <<counter, index, chosen, history>>
     \/ IncrementCounter(c, "next", "check")
     \/ /\ At(c, "check", IF Current = index[c] THEN "test" ELSE "probe")
        /\ UNCHANGED <<counter, index, chosen, history>>
     \/ /\ pc[c] = "test"
        /\ \E m \in {members[Current + 1]} :
             /\ At(c, "test", IF capacity[m] > 0 THEN "take" ELSE "random")
             /\ chosen' = [chosen EXCEPT ![c] = m]
        /\ UNCHANGED <<counter, index, history>>
     \/ IncrementCounter(c, "take", "found")
  /\ UNCHANGED <<policy, members, schedulable, lock, endpoints, nodes, minValue>>

-----------------------------------------------------------------------------
(* RUnlock.  Without an endpoint the handler panics.  *)
Return(c) ==
  /\ At(c, "found", IF Placing \/ chosen[c] = None THEN "idle" ELSE "capacity")
  /\ readers' = readers \ {c}
  /\ nodes' = [nodes EXCEPT ![c] = <<>>] /\ index' = [index EXCEPT ![c] = 0] /\ minValue' = [minValue EXCEPT ![c] = 0]
  /\ chosen' = IF Placing THEN [chosen EXCEPT ![c] = None] ELSE chosen
  /\ free' = [free EXCEPT ![c] = {}] /\ alone' = [alone EXCEPT ![c] = TRUE]
  /\ UNCHANGED <<policy, members, schedulable, writer, counter, endpoints, last>>

(* After a quarter of a second the policy is asked again, or the request given
   up.  *)
waitForCapacityOrDie(c) ==
  /\ \/ /\ At(c, "capacity", "count") /\ capacity[chosen[c]] > 0
        /\ capacity' = [capacity EXCEPT ![chosen[c]] = @ - 1]
        /\ free' = [d \in Caller |-> free[d] \ {m \in Member : capacity'[m] = 0}]
        /\ Disturbs(c) /\ UNCHANGED chosen
     \/ /\ At(c, "capacity", "idle")
        /\ chosen' = [chosen EXCEPT ![c] = None] /\ UNCHANGED <<capacity, free, alone>>
  /\ UNCHANGED <<policy, members, schedulable, lock, counter, count, nodes, index, minValue, last>>

IncrementRequestCountPerInstance(c) ==
  /\ At(c, "count", "serving")
  /\ count' = [count EXCEPT ![chosen[c]] = @ + 1]
  /\ UNCHANGED <<policy, members, schedulable, lock, counter, capacity, locals, history>>

giveBackCCCapacity(c) ==
  /\ At(c, "serving", "idle")
  /\ capacity' = [capacity EXCEPT ![chosen[c]] = @ + 1]
  /\ chosen' = [chosen EXCEPT ![c] = None]
  /\ UNCHANGED <<policy, members, schedulable, lock, counter, count, nodes, index, minValue, history>>

-----------------------------------------------------------------------------
Choose(c) ==
  \/ noNodesInCluster(c) \/ getSchedulableNodes(c) \/ LoadCounter(c) \/ CompareAndSwap(c) \/ randomChoice(c)
  \/ runLoadBalancingAlgorithm(c) \/ roundRobinLoadBalancing(c) \/ leastProcessedLoadBalancing(c)
  \/ kubernetesFirstAvailableLoadBalancing(c) \/ kubernetesRoundRobinLoadBalancing(c) \/ Return(c)

Next ==
  \/ Lock \/ RegisterNode \/ DeregisterNode \/ CheckPeriodicallyWorkerNodes \/ NodeHeartbeat
  \/ AddEndpoints \/ removeEndpoints
  \/ \E c \in Caller : \/ RLock(c) \/ Choose(c) \/ waitForCapacityOrDie(c)
                       \/ IncrementRequestCountPerInstance(c) \/ giveBackCCCapacity(c)

Spec == Init /\ [][Next]_vars

(* Goroutines go on, and those that have the lock wait for nothing else.  *)
FairSpec == Spec /\ \A c \in Caller : WF_vars(Choose(c))

-----------------------------------------------------------------------------
(* With the lock held, the member that is returned is in the list, and a node
   is schedulable: what was read at the beginning is still so in the end,
   whatever the other callers and the monitoring do (ApplyPlacementPolicy,
   runLoadBalancingAlgorithm).  *)
ChosenIsEligible ==
  \A c \in Caller : pc[c] = "found" /\ chosen[c] # None =>
    chosen[c] \in IF Placing THEN schedulable ELSE Range(members)

(* When the scan is over no endpoint has been given fewer requests than the
   one that is returned had, although requests were counted during the scan
   (leastProcessedLoadBalancing).  *)
LeastIsLeast ==
  \A c \in Caller : pc[c] = "found" /\ policy = "least-processed" =>
    \A m \in Range(members) : minValue[c] <= count[m]

(* A balancer takes a random endpoint only if none had a token all the time
   (kubernetesFirstAvailableLoadBalancing); with the shared counter
   (kubernetesRoundRobinLoadBalancing), if nobody else balances meanwhile and
   the counter does not wrap: its remainders jump then, unless 2^32 is a
   multiple of the length of the list, and the scan may end too early.  *)
FreeIsFound ==
  \A c \in Caller :
    /\ pc[c] = "random" /\ policy = "first available" => free[c] = {}
    /\ pc[c] = "random" /\ policy = "kubernetes round-robin" /\ alone[c] => free[c] = {}

(* The same when others do.  *)
FreeIsFoundTogether ==
  \A c \in Caller : pc[c] = "random" /\ policy = "kubernetes round-robin" => free[c] = {}

(* A caller that has the lock returns (ApplyPlacementPolicy, Place,
   kubernetesRoundRobinLoadBalancing).  *)
ChoiceEnds == \A c \in Caller : (c \in readers) ~> (c \notin readers)

(* What TestRoundRobin (placement_policy_test.go:54-83) expects of the nodes, and
   less: of the same two nodes or more, the one that was returned last is not
   returned again.  The counter goes round, but the list that it is an index of
   is in another order each time (getSchedulableNodes).  *)
NodesTakeTurns ==
  [][(\E c \in Caller : pc[c] = "swap" /\ pc'[c] = "found") /\ last'[2] = last[2] /\ Cardinality(last[2]) > 1
        => last'[1] # last[1]]_vars

(* A balancer that has the lock returns.  Callers that scan busy endpoints
   together need not: between two increments of one of them the other moves the
   counter past the index that it waits for (kubernetesRoundRobinLoadBalancing).  *)
BalancingEnds == \A c \in Caller : (~Placing /\ c \in readers) ~> (c \notin readers)

(* A placement does not end the control plane (filterMachines).  *)
PlacementReturns == \A c \in Caller : pc[c] # "dead"

(* The counter is an index of the list, without which no swap succeeds
   (RoundRobinPlacement.Place).  *)
CounterIsIndex == \A c \in Caller : pc[c] = "swap" => counter < Len(nodes[c])

-----------------------------------------------------------------------------
(* What makes the properties above inductive.  *)
Choosing == {"len", "select", "load", "swap", "random", "increment", "scan", "look", "probe", "next", "check",
             "test", "take", "found"}

Shape ==
  /\ policy \in Policies
  /\ members \in Seq(Member)
  /\ schedulable \subseteq Member /\ IsFiniteSet(schedulable)
  /\ counter \in Nat /\ (~Placing => counter < CounterValues)
  /\ capacity \in [Member -> Nat] /\ count \in [Member -> Nat]
  /\ pc \in [Caller -> Choosing \cup {"idle", "capacity", "count", "serving", "dead"}]
  /\ nodes \in [Caller -> Seq(Member)]
  /\ index \in [Caller -> Nat] /\ minValue \in [Caller -> Nat]
  /\ chosen \in [Caller -> Member \cup {None}]
  /\ free \in [Caller -> SUBSET Member] /\ alone \in [Caller -> BOOLEAN]

(* Who chooses has the lock, and is where its policy takes it.  *)
Phase(c) ==
  /\ pc[c] \in Choosing => c \in readers
  /\ pc[c] = "len" => Placing
  /\ pc[c] \in {"load", "swap"} => policy = "place round-robin"
  /\ pc[c] = "increment" => policy = "round-robin"
  /\ pc[c] = "scan" => policy = "least-processed"
  /\ pc[c] = "look" => policy = "first available"
  /\ pc[c] \in {"probe", "next", "check", "test", "take"} => policy = "kubernetes round-robin"
  /\ pc[c] = "random" => policy \in {"place random", "random", "first available", "kubernetes round-robin"}
  /\ pc[c] \in {"capacity", "count", "serving"} => ~Placing

(* The nodes that a caller has collected stay schedulable, and it returns one
   of them or none.  *)
Places(c) ==
  /\ pc[c] \in {"load", "swap"} \/ (Placing /\ pc[c] = "random") =>
       nodes[c] # <<>> /\ Range(nodes[c]) \subseteq schedulable
  /\ pc[c] = "swap" => index[c] < Len(nodes[c])
  /\ Placing /\ (pc[c] # "found" \/ policy = "place kubernetes") => chosen[c] = None
  /\ Placing /\ chosen[c] # None => chosen[c] \in schedulable

(* The endpoints are the same as long as a caller looks at them.  *)
Balances(c) ==
  /\ ~Placing /\ pc[c] \in Choosing \ {"select", "found"} => members # <<>>
  /\ pc[c] \in {"increment", "scan", "look", "probe", "next", "check", "test", "take"} => index[c] < Len(members)
  /\ ~Placing /\ pc[c] \in Choosing \ {"select", "found"} => chosen[c] \in Range(members)
  /\ ~Placing /\ pc[c] = "found" /\ chosen[c] # None => chosen[c] \in Range(members)

(* The least number of requests of the endpoints that were looked at.  *)
Least(c) ==
  /\ pc[c] = "scan" => \A i \in 1 .. index[c] : minValue[c] <= count[members[i]]
  /\ pc[c] = "found" /\ policy = "least-processed" =>
       \A i \in 1 .. Len(members) : minValue[c] <= count[members[i]]

(* Endpoints that were free all the time are so now.  *)
Free(c) ==
  /\ ~Placing /\ pc[c] \notin Choosing => free[c] = {}
  /\ ~Placing => free[c] \subseteq Range(members) /\ \A m \in free[c] : capacity[m] > 0

(* The positions from the one that the scan has begun at to that of the
   counter.  *)
Visited(c) ==
  {i \in 0 .. Len(members) - 1 :
     IF index[c] <= Current THEN index[c] <= i /\ i < Current ELSE index[c] <= i \/ i < Current}

(* None of the endpoints that a scan has passed was free all the time.  *)
Passed(c) ==
  /\ pc[c] = "look" => \A i \in 1 .. index[c] : members[i] \notin free[c]
  /\ alone[c] /\ pc[c] \in {"probe", "next"} => \A i \in Visited(c) : members[i + 1] \notin free[c]
  /\ alone[c] /\ pc[c] = "next" => members[Current + 1] \notin free[c]
  /\ alone[c] /\ pc[c] = "check" =>
       \A i \in IF Current = index[c] THEN 0 .. Len(members) - 1 ELSE Visited(c) : members[i + 1] \notin free[c]
  /\ alone[c] /\ pc[c] = "test" => free[c] = {} \/ capacity[members[Current + 1]] > 0
  /\ pc[c] = "random" /\ policy = "first available" => free[c] = {}
  /\ pc[c] = "random" /\ policy = "kubernetes round-robin" /\ alone[c] => free[c] = {}

SoundChoice(c) == Phase(c) /\ Places(c) /\ Balances(c) /\ Least(c) /\ Free(c) /\ Passed(c)

SoundChoices == Shape /\ \A c \in Caller : SoundChoice(c)
=============================================================================
