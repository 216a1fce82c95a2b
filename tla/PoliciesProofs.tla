--------------------------- MODULE PoliciesProofs ---------------------------
(***************************************************************************)
(* Proofs about the choices of nodes and endpoints: the invariant          *)
(* SoundChoices of Policies, and what follows from it for any number of    *)
(* callers and members, any configured policies and any width of the       *)
(* counters.                                                               *)
(*                                                                         *)
(* A step concerns one caller; most of the work is to show that the others *)
(* do not notice it (Overlooked), or that nobody is choosing when the list *)
(* changes (WithoutReaders).                                               *)
(***************************************************************************)
EXTENDS Policies, FiniteSetTheorems, TLAPS

(* A list and the set of its members.  *)
LEMMA Ranges ==
  ASSUME NEW S, NEW s \in Seq(S)
  PROVE  /\ Range(s) \subseteq S
         /\ \A i \in 1 .. Len(s) : s[i] \in Range(s)
         /\ \A v \in Range(s) : \E i \in 1 .. Len(s) : v = s[i]
         /\ IsFiniteSet(Range(s))
  <1>1. /\ Range(s) \subseteq S
        /\ \A i \in 1 .. Len(s) : s[i] \in Range(s)
        /\ \A v \in Range(s) : \E i \in 1 .. Len(s) : v = s[i]
    BY DEF Range
  <1>2. s \in Surjection(1 .. Len(s), Range(s))
    BY DEF Range, Surjection
  <1>3. IsFiniteSet(1 .. Len(s))
    BY FS_Interval
  <1> QED
    BY <1>1, <1>2, <1>3, FS_Surjection

(* Remainders, as the counters are used: an index of the list, the same index
   for the same remainder, and the next one for the next counter.  *)
LEMMA Remainder ==
  ASSUME NEW n \in Nat, NEW k \in Nat \ {0}
  PROVE  n % k \in 0 .. k - 1
  OBVIOUS

LEMMA SameRemainder ==
  ASSUME NEW k \in Nat \ {0}, NEW p \in Int, NEW q \in Int,
         NEW r \in 0 .. k - 1, NEW s \in 0 .. k - 1, k * p + r = k * q + s
  PROVE  r = s
  <1>1. CASE p < q
    <2>1. k * q >= k * (p + 1)
      BY <1>1
    <2>2. k * (p + 1) = k * p + k
      OBVIOUS
    <2> QED
      BY <2>1, <2>2
  <1>2. CASE q < p
    <2>1. k * p >= k * (q + 1)
      BY <1>2
    <2>2. k * (q + 1) = k * q + k
      OBVIOUS
    <2> QED
      BY <2>1, <2>2
  <1> QED
    BY <1>1, <1>2

LEMMA NextRemainder ==
  ASSUME NEW n \in Nat, NEW k \in Nat \ {0}
  PROVE  (n + 1) % k = IF (n % k) + 1 = k THEN 0 ELSE (n % k) + 1
  <1> DEFINE p == n \div k  r == n % k  q == (n + 1) \div k  s == (n + 1) % k
  <1>1. n = k * p + r /\ p \in Int /\ r \in 0 .. k - 1
    OBVIOUS
  <1>2. n + 1 = k * q + s /\ q \in Int /\ s \in 0 .. k - 1
    OBVIOUS
  <1> HIDE DEF p, q, r, s
  <1>3. CASE r + 1 = k
    <2>1. k * (p + 1) = k * p + k
      BY <1>1
    <2>2. k * (p + 1) + 0 = k * q + s /\ p + 1 \in Int /\ 0 \in 0 .. k - 1
      BY <1>1, <1>2, <1>3, <2>1
    <2>3. s = 0
      BY <1>2, <2>2, SameRemainder
    <2> QED
      BY <1>3, <2>3 DEF r, s
  <1>4. CASE r + 1 # k
    <2>1. k * p + (r + 1) = k * q + s /\ r + 1 \in 0 .. k - 1
      BY <1>1, <1>2, <1>4
    <2> QED
      BY <1>1, <1>2, <1>4, <2>1, SameRemainder DEF r, s
  <1> QED
    BY <1>3, <1>4

(* The counter goes up by one, or has begun again at zero.  *)
LEMMA Incremented ==
  ASSUME Shape, ~Placing
  PROVE  /\ (counter + 1) % CounterValues \in 0 .. CounterValues - 1
         /\ (counter + 1) % CounterValues # 0 => (counter + 1) % CounterValues = counter + 1
  <1>1. counter \in Nat /\ counter < CounterValues /\ CounterValues \in Nat \ {0}
    BY PoliciesAssumption DEF Shape
  <1>2. counter % CounterValues = counter
    BY <1>1
  <1>3. (counter + 1) % CounterValues
          = IF (counter % CounterValues) + 1 = CounterValues THEN 0 ELSE (counter % CounterValues) + 1
    BY <1>1, NextRemainder
  <1> QED
    BY <1>1, <1>2, <1>3

-----------------------------------------------------------------------------
(* A step that does not touch what caller d has read, and takes no token that
   it counts on.  *)
Overlooked(d) ==
  /\ UNCHANGED <<policy, members>>
  /\ d \in readers => d \in readers'
  /\ schedulable \subseteq schedulable'
  /\ pc'[d] = pc[d] /\ nodes'[d] = nodes[d] /\ index'[d] = index[d]
  /\ minValue'[d] = minValue[d] /\ chosen'[d] = chosen[d]
  /\ \A m \in Member : count[m] <= count'[m]
  /\ free'[d] \subseteq free[d]
  /\ ~Placing => \A m \in free'[d] : capacity'[m] > 0
  /\ policy = "kubernetes round-robin" /\ alone'[d] =>
       alone[d] /\ counter' = counter /\ \A m \in Member : capacity[m] <= capacity'[m]

(* What one caller does leaves the choice of another one sound.  *)
LEMMA Bystander ==
  ASSUME SoundChoices, Shape', NEW d \in Caller, Overlooked(d)
  PROVE  SoundChoice(d)'
  <1>1. Shape /\ Phase(d) /\ Places(d) /\ Balances(d) /\ Least(d) /\ Free(d) /\ Passed(d)
    BY DEF SoundChoices, SoundChoice
  <1>2. Phase(d)'
    BY <1>1 DEF Phase, Overlooked, Placing
  <1>3. Places(d)'
    BY <1>1 DEF Places, Overlooked, Placing
  <1>4. Balances(d)'
    BY <1>1 DEF Balances, Overlooked, Placing
  <1>5. Least(d)'
    <2>1. \A i \in 1 .. Len(members) : members[i] \in Member
      <3>1. members \in Seq(Member)
        BY <1>1 DEF Shape
      <3> QED
        BY <3>1
    <2>2. \A m \in Member : count[m] \in Nat /\ count'[m] \in Nat
      BY <1>1 DEF Shape
    <2>3. index[d] \in Nat /\ Len(members) \in Nat /\ minValue[d] \in Nat
      BY <1>1 DEF Shape
    <2>4. pc[d] = "scan" => index[d] < Len(members)
      BY <1>1 DEF Balances
    <2>5. pc[d] = "scan" => \A i \in 1 .. index[d] : minValue[d] <= count'[members[i]]
      <3> SUFFICES ASSUME pc[d] = "scan", NEW i \in 1 .. index[d] PROVE minValue[d] <= count'[members[i]]
        OBVIOUS
      <3>1. minValue[d] <= count[members[i]]
        BY <1>1 DEF Least
      <3>2. members[i] \in Member
        BY <2>1, <2>3, <2>4
      <3>3. PICK m \in Member : m = members[i]
        BY <3>2
      <3>4. count[m] <= count'[m]
        BY DEF Overlooked
      <3> QED
        BY <2>2, <2>3, <3>1, <3>3, <3>4
    <2>6. pc[d] = "found" /\ policy = "least-processed" =>
            \A i \in 1 .. Len(members) : minValue[d] <= count'[members[i]]
      BY <1>1, <2>1, <2>2, <2>3 DEF Least, Overlooked
    <2> QED
      BY <2>5, <2>6 DEF Least, Overlooked
  <1>6. Free(d)'
    BY <1>1 DEF Free, Overlooked, Placing
  <1>7. Passed(d)'
    <2>1. alone'[d] /\ policy = "kubernetes round-robin" => Current' = Current /\ Visited(d)' = Visited(d)
      BY <1>1 DEF Current, Visited, Overlooked
    <2>2. pc[d] \in {"probe", "next", "check", "test"} => policy = "kubernetes round-robin"
      BY <1>1 DEF Phase
    <2>3. pc[d] = "test" => members[Current + 1] \in Member
      <3> SUFFICES ASSUME pc[d] = "test" PROVE members[Current + 1] \in Member
        OBVIOUS
      <3>1. members \in Seq(Member) /\ counter \in Nat
        BY <1>1 DEF Shape
      <3>2. ~Placing /\ pc[d] \in Choosing \ {"select", "found"}
        BY <1>1 DEF Phase, Placing, PlacementPolicies, Choosing
      <3>3. Len(members) \in Nat \ {0}
        BY <1>1, <3>1, <3>2 DEF Balances
      <3>4. Current \in 0 .. Len(members) - 1
        BY <3>1, <3>3, Remainder DEF Current
      <3> QED
        BY <3>1, <3>4
    <2>4. \A m \in Member : capacity[m] <= capacity'[m] /\ capacity[m] > 0 => capacity'[m] > 0
      <3>1. capacity \in [Member -> Nat] /\ capacity' \in [Member -> Nat]
        BY <1>1 DEF Shape
      <3> QED
        BY <3>1
    <2>5. pc[d] = "test" /\ alone'[d] /\ policy = "kubernetes round-robin"
            => free'[d] = {} \/ capacity'[members'[Current' + 1]] > 0
      <3> SUFFICES ASSUME pc[d] = "test", alone'[d], policy = "kubernetes round-robin"
                   PROVE  free'[d] = {} \/ capacity'[members'[Current' + 1]] > 0
        OBVIOUS
      <3>1. members' = members /\ Current' = Current /\ alone[d] /\ free'[d] \subseteq free[d]
        BY <2>1 DEF Overlooked
      <3>2. \A m \in Member : capacity[m] <= capacity'[m]
        BY DEF Overlooked
      <3>3. free[d] = {} \/ capacity[members[Current + 1]] > 0
        BY <1>1, <3>1 DEF Passed
      <3>4. PICK m \in Member : m = members[Current + 1]
        BY <2>3
      <3>5. capacity[m] > 0 => capacity'[m] > 0
        BY <2>4, <3>2
      <3> QED
        BY <3>1, <3>3, <3>4, <3>5
    <2> QED
      BY <1>1, <2>1, <2>2, <2>5 DEF Passed, Overlooked
  <1> QED
    BY <1>2, <1>3, <1>4, <1>5, <1>6, <1>7 DEF SoundChoice

(* A step with the lock held for writing: nobody is choosing.  *)
LEMMA WithoutReaders ==
  ASSUME SoundChoices, Shape', readers = {}, UNCHANGED <<policy, pc, locals, history>>
  PROVE  \A d \in Caller : SoundChoice(d)'
  <1> TAKE d \in Caller
  <1>1. Shape /\ Phase(d) /\ Places(d) /\ Balances(d) /\ Least(d) /\ Free(d) /\ Passed(d)
    BY DEF SoundChoices, SoundChoice
  <1>2. pc[d] \notin Choosing
    BY <1>1 DEF Phase
  <1> USE DEF Placing, Choosing, locals, history
  <1>3. Phase(d)' /\ Balances(d)' /\ Least(d)' /\ Passed(d)'
    BY <1>1, <1>2 DEF Phase, Balances, Least, Passed
  <1>4. Places(d)'
    BY <1>1, <1>2 DEF Places
  <1>5. Free(d)'
    BY <1>1, <1>2 DEF Free
  <1> QED
    BY <1>3, <1>4, <1>5 DEF SoundChoice
(* A list without one of its members is a list.  *)
LEMMA Removed ==
  ASSUME NEW S, NEW s \in Seq(S), NEW i \in DOMAIN s
  PROVE  RemoveAt(s, i) \in Seq(S)
  BY DEF RemoveAt

(* A step by a caller that the others do not notice.  *)
LEMMA CallerStep ==
  ASSUME SoundChoices, NEW c \in Caller, Shape', SoundChoice(c)',
         \A d \in Caller \ {c} : Overlooked(d)
  PROVE  SoundChoices'
  BY Bystander DEF SoundChoices

(* A step that touches nothing but the variables of caller c, and perhaps a
   counter that the others do not rely upon.  *)
Private(c) ==
  /\ UNCHANGED <<policy, members, schedulable, capacity, count>>
  /\ readers \ {c} \subseteq readers'
  /\ \A d \in Caller \ {c} :
       /\ pc'[d] = pc[d] /\ nodes'[d] = nodes[d] /\ index'[d] = index[d] /\ minValue'[d] = minValue[d]
       /\ chosen'[d] = chosen[d] /\ free'[d] = free[d]
       /\ policy = "kubernetes round-robin" /\ alone'[d] => alone[d] /\ counter' = counter

(* Such a step keeps the invariant if the choice of c stays sound.  *)
LEMMA PrivateStep ==
  ASSUME SoundChoices, NEW c \in Caller, Shape', SoundChoice(c)', Private(c)
  PROVE  SoundChoices'
  <1>1. ASSUME NEW d \in Caller \ {c} PROVE Overlooked(d)
    <2>1. Shape /\ Free(d)
      BY DEF SoundChoices, SoundChoice
    <2>2. \A m \in Member : count[m] <= count'[m] /\ capacity[m] <= capacity'[m]
      <3>1. count' = count /\ capacity' = capacity
        BY DEF Private
      <3>2. count \in [Member -> Nat] /\ capacity \in [Member -> Nat]
        BY <2>1 DEF Shape
      <3> QED
        BY <3>1, <3>2
    <2>3. ~Placing => \A m \in free'[d] : capacity'[m] > 0
      BY <2>1 DEF Free, Private
    <2> QED
      BY <2>2, <2>3 DEF Overlooked, Private
  <1> QED
    BY <1>1, CallerStep

-----------------------------------------------------------------------------
(* A writer waits, or a node is schedulable again (Lock, NodeHeartbeat).  *)
LEMMA LockStep ==
  ASSUME SoundChoices, Lock \/ NodeHeartbeat \/ UNCHANGED vars
  PROVE  SoundChoices'
  <1>1. Shape /\ \A d \in Caller : Free(d)
    BY DEF SoundChoices, SoundChoice
  <1>2. schedulable' \subseteq Member /\ IsFiniteSet(schedulable') /\ schedulable \subseteq schedulable'
    <2>1. CASE Lock \/ UNCHANGED vars
      BY <1>1, <2>1 DEF Shape, Lock, vars
    <2>2. CASE NodeHeartbeat
      <3>1. PICK m \in Range(members) \ schedulable : schedulable' = schedulable \cup {m}
        BY <2>2 DEF NodeHeartbeat
      <3>2. m \in Member
        BY <1>1, <3>1, Ranges DEF Shape
      <3> QED
        BY <1>1, <3>1, <3>2, FS_AddElement DEF Shape
    <2> QED
      BY <2>1, <2>2
  <1>3. /\ UNCHANGED <<policy, members, readers, counter, capacity, count, pc, nodes, index, minValue, chosen>>
        /\ UNCHANGED <<last, free, alone>>
    BY DEF Lock, NodeHeartbeat, vars, lock, endpoints, locals, history
  <1>4. Shape'
    BY <1>1, <1>2, <1>3 DEF Shape, Placing
  <1>6. ASSUME NEW d \in Caller PROVE Overlooked(d)
    <2>1. \A m \in Member : count[m] <= count'[m] /\ capacity[m] <= capacity'[m]
      BY <1>1, <1>3 DEF Shape
    <2>2. ~Placing => \A m \in free'[d] : capacity'[m] > 0
      BY <1>1, <1>3 DEF Free
    <2> QED
      BY <1>2, <1>3, <2>1, <2>2 DEF Overlooked
  <1> QED
    BY <1>4, <1>6, Bystander DEF SoundChoices

(* Nodes come, leave, and become unschedulable (RegisterNode, DeregisterNode,
   CheckPeriodicallyWorkerNodes).  *)
LEMMA NodesStep ==
  ASSUME SoundChoices, RegisterNode \/ DeregisterNode \/ CheckPeriodicallyWorkerNodes
  PROVE  SoundChoices'
  <1>1. Shape
    BY DEF SoundChoices
  <1>2. Range(members) \subseteq Member /\ IsFiniteSet(Range(members))
    BY <1>1, Ranges DEF Shape
  <1>3. members' \in Seq(Member) /\ schedulable' \subseteq Member /\ IsFiniteSet(schedulable')
    <2>1. CASE RegisterNode
      <3>1. PICK m \in Member : members' = Append(members, m) /\ schedulable' = schedulable \cup {m}
        BY <2>1 DEF RegisterNode
      <3>2. members' \in Seq(Member)
        BY <1>1, <3>1 DEF Shape
      <3> QED
        BY <1>1, <3>1, <3>2, FS_AddElement DEF Shape
    <2>2. CASE DeregisterNode
      <3>1. PICK i \in DOMAIN members :
              members' = RemoveAt(members, i) /\ schedulable' = schedulable \ {members[i]}
        BY <2>2 DEF DeregisterNode
      <3>2. members' \in Seq(Member)
        BY <1>1, <3>1, Removed DEF Shape
      <3>3. schedulable' \subseteq schedulable
        BY <3>1
      <3> QED
        BY <1>1, <3>2, <3>3, FS_Subset DEF Shape
    <2>3. CASE CheckPeriodicallyWorkerNodes
      <3>1. members' = members /\ schedulable' \subseteq Range(members)
        BY <2>3 DEF CheckPeriodicallyWorkerNodes
      <3> QED
        BY <1>1, <1>2, <3>1, FS_Subset DEF Shape
    <2> QED
      BY <2>1, <2>2, <2>3
  <1>4. /\ readers = {}
        /\ UNCHANGED <<policy, counter, capacity, count, pc, locals, history>>
    BY DEF RegisterNode, DeregisterNode, CheckPeriodicallyWorkerNodes, Locked, endpoints
  <1>5. Shape'
    BY <1>1, <1>3, <1>4 DEF Shape, Placing, locals, history
  <1> QED
    BY <1>4, <1>5, WithoutReaders DEF SoundChoices

(* Endpoints come and leave (AddEndpoints, removeEndpoints).  *)
LEMMA EndpointsStep ==
  ASSUME SoundChoices, AddEndpoints \/ removeEndpoints
  PROVE  SoundChoices'
  <1>1. Shape
    BY DEF SoundChoices
  <1>2. members' \in Seq(Member) /\ capacity' \in [Member -> Nat] /\ count' \in [Member -> Nat]
    <2>1. CASE AddEndpoints
      <3>1. PICK m \in Member :
              /\ members' = Append(members, m)
              /\ capacity' = [capacity EXCEPT ![m] = createThrottlerChannel]
              /\ count' = [count EXCEPT ![m] = 0]
        BY <2>1 DEF AddEndpoints
      <3>2. createThrottlerChannel \in Nat
        BY PoliciesAssumption DEF createThrottlerChannel
      <3>3. members' \in Seq(Member)
        BY <1>1, <3>1 DEF Shape
      <3> QED
        BY <1>1, <3>1, <3>2, <3>3 DEF Shape
    <2>2. CASE removeEndpoints
      <3>1. PICK i \in DOMAIN members : members' \in {RemoveAt(members, i), <<>>}
        BY <2>2 DEF removeEndpoints
      <3>2. RemoveAt(members, i) \in Seq(Member) /\ <<>> \in Seq(Member)
        BY <1>1, Removed DEF Shape
      <3>3. members' \in Seq(Member)
        BY <3>1, <3>2
      <3> QED
        BY <1>1, <2>2, <3>3 DEF Shape, removeEndpoints, endpoints
    <2> QED
      BY <2>1, <2>2
  <1>3. /\ readers = {}
        /\ UNCHANGED <<policy, schedulable, counter, pc, locals, history>>
    BY DEF AddEndpoints, removeEndpoints, Locked
  <1>4. Shape'
    BY <1>1, <1>2, <1>3 DEF Shape, Placing, locals, history
  <1> QED
    BY <1>3, <1>4, WithoutReaders DEF SoundChoices

-----------------------------------------------------------------------------
(* A caller takes the lock (RLock).  *)
LEMMA RLockStep ==
  ASSUME SoundChoices, NEW c \in Caller, RLock(c)
  PROVE  SoundChoices'
  <1>1. Shape /\ Phase(c) /\ Places(c)
    BY DEF SoundChoices, SoundChoice
  <1>2. /\ pc[c] = "idle" /\ pc' = [pc EXCEPT ![c] = IF Placing THEN "len" ELSE "select"]
        /\ readers' = readers \cup {c}
        /\ free' = [free EXCEPT ![c] = {m \in Range(members) : capacity[m] > 0}]
        /\ alone' = [alone EXCEPT ![c] = TRUE]
        /\ UNCHANGED <<policy, members, schedulable, counter, capacity, count, nodes, index, minValue, chosen, last>>
    BY DEF RLock, At, endpoints, locals
  <1>3. Range(members) \subseteq Member
    BY <1>1, Ranges DEF Shape
  <1>4. Shape'
    BY <1>1, <1>2, <1>3 DEF Shape, Placing, Choosing
  <1>6. Private(c)
    BY <1>1, <1>2 DEF Private, Shape
  <1>7. pc'[c] \in {"len", "select"} /\ (pc'[c] = "len" => Placing) /\ chosen'[c] = chosen[c]
    BY <1>1, <1>2 DEF Shape
  <1>8. Phase(c)' /\ Places(c)' /\ Balances(c)' /\ Least(c)' /\ Passed(c)'
    BY <1>1, <1>2, <1>7 DEF Phase, Places, Balances, Least, Passed, Placing, PlacementPolicies, Choosing
  <1>9. Free(c)'
    BY <1>1, <1>2, <1>7 DEF Free, Choosing, Shape, Placing
  <1> QED
    BY <1>4, <1>6, <1>8, <1>9, PrivateStep DEF SoundChoice

(* The number of nodes is read under the same lock (noNodesInCluster).  *)
LEMMA NoNodesStep ==
  ASSUME SoundChoices, NEW c \in Caller, noNodesInCluster(c)
  PROVE  SoundChoices'
  <1>1. Shape /\ Phase(c) /\ Places(c) /\ Free(c)
    BY DEF SoundChoices, SoundChoice
  <1>2. /\ pc[c] = "len" /\ pc' = [pc EXCEPT ![c] = IF members = <<>> THEN "found" ELSE "select"]
        /\ UNCHANGED <<policy, members, schedulable, readers, counter, capacity, count, nodes, index, minValue, chosen>>
        /\ UNCHANGED <<last, free, alone>>
    BY DEF noNodesInCluster, At, lock, endpoints, locals, history
  <1>3. Shape'
    BY <1>1, <1>2 DEF Shape, Placing, Choosing
  <1>5. Private(c)
    BY <1>1, <1>2 DEF Private, Shape
  <1>6. pc'[c] \in {"found", "select"} /\ Placing /\ chosen[c] = None
    BY <1>1, <1>2 DEF Shape, Phase, Places
  <1>7. Phase(c)' /\ Places(c)' /\ Balances(c)' /\ Least(c)' /\ Passed(c)' /\ Free(c)'
    BY <1>1, <1>2, <1>6 DEF Phase, Places, Balances, Least, Passed, Free, Placing, PlacementPolicies, Choosing
  <1> QED
    BY <1>3, <1>5, <1>7, PrivateStep DEF SoundChoice

(* The schedulable nodes are collected, or the process ends
   (getSchedulableNodes, filterMachines).  *)
LEMMA SchedulableNodesStep ==
  ASSUME SoundChoices, NEW c \in Caller, getSchedulableNodes(c)
  PROVE  SoundChoices'
  <1>1. Shape /\ \A d \in Caller : Phase(d) /\ Places(d) /\ Free(d)
    BY DEF SoundChoices, SoundChoice
  <1>2. PICK order \in SetToSeqs(schedulable) : nodes' = [nodes EXCEPT ![c] = order]
    BY DEF getSchedulableNodes
  <1>3. /\ order \in Seq(Member) /\ Range(order) \subseteq schedulable
        /\ schedulable # {} => order # <<>>
    <2>1. /\ order \in [1 .. Cardinality(schedulable) -> schedulable]
          /\ Cardinality(schedulable) \in Nat /\ schedulable \subseteq Member
          /\ schedulable # {} => Cardinality(schedulable) # 0
      BY <1>1, <1>2, FS_CardinalityType, FS_EmptySet DEF SetToSeqs, Shape
    <2>2. order \in Seq(Member) /\ Len(order) = Cardinality(schedulable)
      BY <2>1
    <2> QED
      BY <2>1, <2>2 DEF Range
  <1>4. /\ pc[c] = "select" /\ Placing
        /\ UNCHANGED <<policy, members, schedulable, readers, counter, capacity, count, index, minValue, chosen>>
        /\ UNCHANGED <<last, free, alone>>
    BY DEF getSchedulableNodes, lock, endpoints, history
  <1>5. chosen[c] = None
    BY <1>1, <1>4 DEF Places
  <1>7. CASE policy = "place kubernetes"
    <2>1. pc' = [d \in Caller |-> "dead"]
      BY <1>7 DEF getSchedulableNodes
    <2>2. Shape'
      BY <1>1, <1>2, <1>3, <1>4, <2>1 DEF Shape, Placing
    <2>3. ASSUME NEW d \in Caller PROVE SoundChoice(d)'
      <3>1. pc'[d] = "dead" /\ chosen[d] = None
        BY <1>1, <1>4, <1>7, <2>1 DEF Places
      <3> QED
        BY <1>4, <3>1 DEF SoundChoice, Phase, Places, Balances, Least, Free, Passed, Placing, Choosing
    <2> QED
      BY <2>2, <2>3 DEF SoundChoices
  <1>8. CASE policy # "place kubernetes"
    <2>1. /\ schedulable = {} => pc' = [pc EXCEPT ![c] = "found"]
          /\ schedulable # {} /\ policy = "place random" => pc' = [pc EXCEPT ![c] = "random"]
          /\ schedulable # {} /\ policy = "place round-robin" => pc' = [pc EXCEPT ![c] = "load"]
          /\ policy \in {"place random", "place round-robin"}
      BY <1>4, <1>8 DEF getSchedulableNodes, Placing, PlacementPolicies
    <2>2. /\ pc' \in [Caller -> Choosing \cup {"idle", "capacity", "count", "serving", "dead"}]
          /\ \A d \in Caller \ {c} : pc'[d] = pc[d]
          /\ nodes' \in [Caller -> Seq(Member)] /\ nodes'[c] = order
          /\ pc'[c] = IF schedulable = {} THEN "found" ELSE IF policy = "place random" THEN "random" ELSE "load"
      BY <1>1, <1>2, <1>3, <2>1 DEF Shape, Choosing
    <2>3. Shape'
      BY <1>1, <1>4, <2>2 DEF Shape, Placing
    <2>4. Private(c)
      BY <1>1, <1>2, <1>4, <2>2 DEF Private, Shape
    <2>5. Phase(c)' /\ Balances(c)' /\ Least(c)' /\ Passed(c)' /\ Free(c)'
      BY <1>1, <1>4, <2>1, <2>2 DEF Phase, Balances, Least, Passed, Free, Placing, PlacementPolicies, Choosing
    <2>6. Places(c)'
      BY <1>3, <1>4, <1>5, <2>1, <2>2 DEF Places, Placing
    <2> QED
      BY <2>3, <2>4, <2>5, <2>6, PrivateStep DEF SoundChoice
  <1> QED
    BY <1>7, <1>8

(* The index that is read is one of the list (RoundRobinPlacement.Place).  *)
LEMMA LoadCounterStep ==
  ASSUME SoundChoices, NEW c \in Caller, LoadCounter(c)
  PROVE  SoundChoices'
  <1>1. Shape /\ Phase(c) /\ Places(c) /\ Free(c)
    BY DEF SoundChoices, SoundChoice
  <1>2. /\ pc[c] = "load" /\ pc' = [pc EXCEPT ![c] = "swap"]
        /\ index' = [index EXCEPT ![c] = counter % Len(nodes[c])]
        /\ UNCHANGED <<policy, members, schedulable, readers, counter, capacity, count, nodes, minValue, chosen>>
        /\ UNCHANGED <<last, free, alone>>
    BY DEF LoadCounter, At, lock, endpoints, history
  <1>3. Len(nodes[c]) \in Nat \ {0} /\ counter \in Nat
    BY <1>1, <1>2 DEF Shape, Places
  <1>4. counter % Len(nodes[c]) \in 0 .. Len(nodes[c]) - 1
    BY <1>3, Remainder
  <1>5. index' \in [Caller -> Nat] /\ index'[c] < Len(nodes[c])
    BY <1>1, <1>2, <1>3, <1>4 DEF Shape
  <1>6. Shape'
    BY <1>1, <1>2, <1>5 DEF Shape, Placing, Choosing
  <1>8. Private(c)
    BY <1>1, <1>2 DEF Private, Shape
  <1>9. pc'[c] = "swap" /\ policy = "place round-robin"
    BY <1>1, <1>2 DEF Shape, Phase
  <1>10. Phase(c)' /\ Balances(c)' /\ Least(c)' /\ Passed(c)' /\ Free(c)'
    BY <1>1, <1>2, <1>9 DEF Phase, Balances, Least, Passed, Free, Placing, PlacementPolicies, Choosing
  <1>11. Places(c)'
    BY <1>1, <1>2, <1>5, <1>9 DEF Places, Placing
  <1> QED
    BY <1>6, <1>8, <1>10, <1>11, PrivateStep DEF SoundChoice

(* The counter is swapped, or read again (RoundRobinPlacement.Place).  *)
LEMMA CompareAndSwapStep ==
  ASSUME SoundChoices, NEW c \in Caller, CompareAndSwap(c)
  PROVE  SoundChoices'
  <1>1. Shape /\ Phase(c) /\ Places(c) /\ Free(c)
    BY DEF SoundChoices, SoundChoice
  <1>2. /\ pc[c] = "swap"
        /\ UNCHANGED <<policy, members, schedulable, readers, capacity, count, nodes, index, minValue, free, alone>>
    BY DEF CompareAndSwap, Chooses, At, lock, endpoints
  <1>3. policy = "place round-robin" /\ Placing
    BY <1>1, <1>2 DEF Phase, Placing, PlacementPolicies
  <1>4. nodes[c] \in Seq(Member) /\ index[c] \in Nat /\ index[c] < Len(nodes[c])
    BY <1>1, <1>2 DEF Shape, Places
  <1>5. Range(nodes[c]) \subseteq schedulable
    BY <1>1, <1>2 DEF Places
  <1>6. CASE /\ counter = index[c] /\ Chooses(c, "swap", nodes[c][index[c] + 1])
             /\ counter' = (index[c] + 1) % Len(nodes[c]) /\ last' = <<chosen'[c], Range(nodes[c])>>
    <2>1. Len(nodes[c]) \in Nat \ {0} /\ index[c] + 1 \in 1 .. Len(nodes[c])
      BY <1>4
    <2>2. nodes[c][index[c] + 1] \in schedulable /\ nodes[c][index[c] + 1] \in Member
      <3>1. nodes[c][index[c] + 1] \in Range(nodes[c])
        BY <1>4, <2>1, Ranges
      <3> QED
        BY <1>1, <1>5, <3>1 DEF Shape
    <2>3. counter' \in Nat
      <3>1. (index[c] + 1) % Len(nodes[c]) \in 0 .. Len(nodes[c]) - 1
        <4>1. index[c] + 1 \in Nat /\ Len(nodes[c]) \in Nat \ {0}
          BY <1>4, <2>1
        <4> QED
          BY <4>1, Remainder
      <3> QED
        BY <1>6, <1>4, <2>1, <3>1
    <2>4. /\ pc' = [pc EXCEPT ![c] = "found"]
          /\ chosen' = [chosen EXCEPT ![c] = nodes[c][index[c] + 1]]
      BY <1>6 DEF Chooses, At
    <2>5. Shape'
      BY <1>1, <1>2, <1>3, <2>2, <2>3, <2>4 DEF Shape, Placing, Choosing
    <2>7. Private(c)
      BY <1>1, <1>2, <1>3, <2>4 DEF Private, Shape
    <2>8. pc'[c] = "found" /\ chosen'[c] \in schedulable
      BY <1>1, <2>2, <2>4 DEF Shape
    <2>9. Phase(c)' /\ Places(c)' /\ Balances(c)' /\ Least(c)' /\ Passed(c)' /\ Free(c)'
      BY <1>1, <1>2, <1>3, <2>8
      DEF Phase, Places, Balances, Least, Passed, Free, Placing, PlacementPolicies, Choosing
    <2> QED
      BY <2>5, <2>7, <2>9, PrivateStep DEF SoundChoice
  <1>7. CASE At(c, "swap", "load") /\ UNCHANGED <<counter, chosen, last>>
    <2>1. Shape'
      BY <1>1, <1>2, <1>7 DEF Shape, Placing, Choosing, At
    <2>3. Private(c)
      BY <1>1, <1>2, <1>7 DEF Private, Shape, At
    <2>4. pc'[c] = "load"
      BY <1>1, <1>7 DEF Shape, At
    <2>5. Phase(c)' /\ Places(c)' /\ Balances(c)' /\ Least(c)' /\ Passed(c)' /\ Free(c)'
      BY <1>1, <1>2, <1>3, <1>7, <2>4
      DEF Phase, Places, Balances, Least, Passed, Free, Placing, PlacementPolicies, Choosing
    <2> QED
      BY <2>1, <2>3, <2>5, PrivateStep DEF SoundChoice
  <1> QED
    BY <1>6, <1>7 DEF CompareAndSwap

(* A random node or endpoint (Random.Place, randomEndpoint).  *)
LEMMA RandomStep ==
  ASSUME SoundChoices, NEW c \in Caller, randomChoice(c)
  PROVE  SoundChoices'
  <1>1. Shape /\ Phase(c) /\ Places(c) /\ Free(c)
    BY DEF SoundChoices, SoundChoice
  <1>2. PICK m \in Range(IF Placing THEN nodes[c] ELSE members) : Chooses(c, "random", m)
    BY DEF randomChoice
  <1>3. /\ pc[c] = "random" /\ pc' = [pc EXCEPT ![c] = "found"] /\ chosen' = [chosen EXCEPT ![c] = m]
        /\ UNCHANGED <<policy, members, schedulable, readers, counter, capacity, count, nodes, index, minValue>>
        /\ UNCHANGED <<last, free, alone>>
    BY <1>2 DEF randomChoice, Chooses, At, lock, endpoints, history
  <1>4. /\ m \in Member
        /\ Placing => m \in schedulable
        /\ ~Placing => m \in Range(members)
    <2>1. CASE Placing
      BY <1>1, <1>2, <1>3, <2>1 DEF Places, Shape
    <2>2. CASE ~Placing
      <3>1. m \in Range(members)
        BY <1>2, <2>2
      <3> QED
        BY <1>1, <2>2, <3>1, Ranges DEF Shape
    <2> QED
      BY <2>1, <2>2
  <1>5. Shape'
    BY <1>1, <1>3, <1>4 DEF Shape, Placing, Choosing
  <1>7. Private(c)
    BY <1>1, <1>3 DEF Private, Shape
  <1>8. pc'[c] = "found" /\ chosen'[c] = m /\ policy # "least-processed" /\ policy # "place kubernetes"
    BY <1>1, <1>3 DEF Shape, Phase
  <1>9. Phase(c)' /\ Balances(c)' /\ Least(c)' /\ Passed(c)' /\ Free(c)'
    BY <1>1, <1>3, <1>4, <1>8 DEF Phase, Balances, Least, Passed, Free, Placing, Choosing
  <1>10. Places(c)'
    BY <1>1, <1>3, <1>4, <1>8 DEF Places, Placing
  <1> QED
    BY <1>5, <1>7, <1>9, <1>10, PrivateStep DEF SoundChoice

(* The endpoint at the index that was read (roundRobinLoadBalancing).  *)
LEMMA RoundRobinStep ==
  ASSUME SoundChoices, NEW c \in Caller, roundRobinLoadBalancing(c)
  PROVE  SoundChoices'
  <1>1. Shape /\ Phase(c) /\ Balances(c) /\ Free(c)
    BY DEF SoundChoices, SoundChoice
  <1> DEFINE m == members[index[c] + 1]
  <1>2. /\ pc[c] = "increment" /\ pc' = [pc EXCEPT ![c] = "found"] /\ chosen' = [chosen EXCEPT ![c] = m]
        /\ counter' = (counter + 1) % CounterValues
        /\ alone' = [d \in Caller |-> d = c /\ alone[c]]
        /\ UNCHANGED <<policy, members, schedulable, readers, capacity, count, nodes, index, minValue, last, free>>
    BY DEF roundRobinLoadBalancing, Chooses, At, Disturbs, lock, endpoints
  <1>3. policy = "round-robin" /\ ~Placing
    BY <1>1, <1>2 DEF Phase, Placing, PlacementPolicies
  <1>4. m \in Range(members) /\ m \in Member
    <2>1. members \in Seq(Member) /\ Len(members) \in Nat /\ index[c] \in Nat /\ index[c] < Len(members)
      BY <1>1, <1>2 DEF Shape, Balances
    <2> QED
      BY <2>1, Ranges
  <1>5. counter' \in 0 .. CounterValues - 1
    BY <1>1, <1>2, <1>3, Incremented
  <1> HIDE DEF m
  <1>6. Shape'
    <2>1. counter' \in Nat /\ counter' < CounterValues
      BY <1>5, PoliciesAssumption
    <2>2. /\ pc' \in [Caller -> Choosing \cup {"idle", "capacity", "count", "serving", "dead"}]
          /\ chosen' \in [Caller -> Member \cup {None}]
      BY <1>1, <1>2, <1>4 DEF Shape, Choosing
    <2>3. alone' \in [Caller -> BOOLEAN]
      BY <1>1, <1>2 DEF Shape
    <2> QED
      BY <1>1, <1>2, <2>1, <2>2, <2>3 DEF Shape, Placing
  <1>8. Private(c)
    BY <1>1, <1>2, <1>3 DEF Private, Shape
  <1>9. pc'[c] = "found" /\ chosen'[c] = m
    BY <1>1, <1>2 DEF Shape
  <1>10. Phase(c)' /\ Places(c)' /\ Balances(c)' /\ Least(c)' /\ Passed(c)' /\ Free(c)'
    BY <1>1, <1>2, <1>3, <1>4, <1>9 DEF Phase, Places, Balances, Least, Passed, Free, Placing, PlacementPolicies, Choosing
  <1> QED
    BY <1>6, <1>8, <1>10, PrivateStep DEF SoundChoice

(* The first endpoint is what the scans begin with.  *)
LEMMA BalancingStep ==
  ASSUME SoundChoices, NEW c \in Caller, runLoadBalancingAlgorithm(c)
  PROVE  SoundChoices'
  <1>1. Shape /\ Phase(c) /\ Free(c)
    BY DEF SoundChoices, SoundChoice
  <1>2. /\ pc[c] = "select" /\ ~Placing
        /\ UNCHANGED <<policy, members, schedulable, readers, counter, capacity, count, nodes, last, free, alone>>
    BY DEF runLoadBalancingAlgorithm, bestOfTwoRandoms, Chooses, At, lock, endpoints, history
  <1>4. c \in readers
    BY <1>1, <1>2 DEF Phase, Choosing
  <1>5. ASSUME NEW m \in Range(members) \cup {None}, Chooses(c, "select", m), UNCHANGED <<index, minValue>>,
               policy = "least-processed" => members = <<>>
        PROVE  SoundChoices'
    <2>1. pc' = [pc EXCEPT ![c] = "found"] /\ chosen' = [chosen EXCEPT ![c] = m]
      BY <1>5 DEF Chooses, At
    <2>2. Range(members) \subseteq Member
      BY <1>1, Ranges DEF Shape
    <2>3. pc'[c] = "found" /\ chosen'[c] = m /\ Shape'
      BY <1>1, <1>2, <1>5, <2>1, <2>2 DEF Shape, Placing, Choosing
    <2>4. Private(c)
      BY <1>1, <1>2, <1>5, <2>1 DEF Private, Shape
    <2>5. Phase(c)' /\ Places(c)' /\ Balances(c)' /\ Passed(c)' /\ Free(c)'
      BY <1>1, <1>2, <1>4, <1>5, <2>3 DEF Phase, Places, Balances, Passed, Free, Placing, PlacementPolicies, Choosing
    <2>6. Least(c)'
      <3>1. policy = "least-processed" => 1 .. Len(members) = {}
        BY <1>5
      <3> QED
        BY <1>2, <2>3, <3>1 DEF Least
    <2> QED
      BY <2>3, <2>4, <2>5, <2>6, PrivateStep DEF SoundChoice
  <1>6. CASE members = <<>> /\ Chooses(c, "select", None) /\ UNCHANGED <<index, minValue>>
    BY <1>5, <1>6
  <1>7. CASE policy = "best of two" /\ bestOfTwoRandoms(c) /\ UNCHANGED <<index, minValue>>
    BY <1>5, <1>7 DEF bestOfTwoRandoms
  <1>8. CASE /\ members # <<>> /\ policy # "best of two"
             /\ At(c, "select", CASE policy = "random" -> "random"
                                  [] policy = "round-robin" -> "increment"
                                  [] policy = "least-processed" -> "scan"
                                  [] policy = "first available" -> "look"
                                  [] policy = "kubernetes round-robin" -> "probe")
             /\ index' = [index EXCEPT ![c] =
                  IF policy \in {"round-robin", "kubernetes round-robin"} THEN Current ELSE 0]
             /\ minValue' = [minValue EXCEPT ![c] = count[members[1]]]
             /\ chosen' = [chosen EXCEPT ![c] = members[1]]
    <2>1. policy \in {"random", "round-robin", "least-processed", "first available", "kubernetes round-robin"}
      BY <1>1, <1>2, <1>8, PoliciesAssumption DEF Shape, Placing, PlacementPolicies, LoadBalancingPolicies
    <2>2. members \in Seq(Member) /\ Len(members) \in Nat \ {0} /\ counter \in Nat
      <3>1. members # <<>>
        BY <1>8
      <3> QED
        BY <1>1, <3>1 DEF Shape
    <2>3. Current \in 0 .. Len(members) - 1
      BY <2>2, Remainder DEF Current
    <2>4. PICK first \in Member : first = members[1] /\ first \in Range(members)
      BY <2>2, Ranges
    <2>5. /\ index' \in [Caller -> Nat] /\ index'[c] < Len(members)
          /\ index'[c] = IF policy \in {"round-robin", "kubernetes round-robin"} THEN Current ELSE 0
      <3> DEFINE i == IF policy \in {"round-robin", "kubernetes round-robin"} THEN Current ELSE 0
      <3>1. i \in 0 .. Len(members) - 1
        <4>1. 0 \in 0 .. Len(members) - 1
          BY <2>2
        <4> QED
          BY <2>3, <4>1
      <3>2. index' = [index EXCEPT ![c] = i] /\ index \in [Caller -> Nat]
        BY <1>1, <1>8 DEF Shape
      <3> HIDE DEF i
      <3>3. index' \in [Caller -> Nat] /\ index'[c] = i /\ i < Len(members)
        BY <2>2, <3>1, <3>2
      <3> QED
        BY <3>3 DEF i
    <2>6. minValue' \in [Caller -> Nat] /\ chosen' \in [Caller -> Member \cup {None}] /\ chosen'[c] = first
      BY <1>1, <1>8, <2>4 DEF Shape
    <2>7. pc'[c] = CASE policy = "random" -> "random"
                     [] policy = "round-robin" -> "increment"
                     [] policy = "least-processed" -> "scan"
                     [] policy = "first available" -> "look"
                     [] policy = "kubernetes round-robin" -> "probe"
      BY <1>1, <1>8 DEF Shape, At
    <2>8. /\ policy = "random" => pc'[c] = "random"
          /\ policy = "round-robin" => pc'[c] = "increment"
          /\ policy = "least-processed" => pc'[c] = "scan"
          /\ policy = "first available" => pc'[c] = "look"
          /\ policy = "kubernetes round-robin" => pc'[c] = "probe"
      BY <2>7
    <2>9. pc' \in [Caller -> Choosing \cup {"idle", "capacity", "count", "serving", "dead"}]
      BY <1>1, <1>8, <2>1, <2>8 DEF Shape, At, Choosing
    <2>10. Shape'
      BY <1>1, <1>2, <2>5, <2>6, <2>9 DEF Shape, Placing
    <2>11. Private(c)
      BY <1>1, <1>2, <1>8 DEF Private, Shape, At
    <2>12. Phase(c)' /\ Places(c)' /\ Free(c)'
      BY <1>1, <1>2, <1>4, <2>1, <2>8 DEF Phase, Places, Free, Placing, PlacementPolicies, Choosing
    <2>13. Balances(c)'
      <3>1. members' = members /\ members # <<>> /\ chosen'[c] \in Range(members) /\ index'[c] < Len(members)
        BY <1>2, <1>8, <2>4, <2>5, <2>6
      <3> QED
        BY <3>1 DEF Balances
    <2>14. Least(c)'
      <3>1. pc'[c] = "scan" => index'[c] = 0
        BY <2>1, <2>5, <2>8
      <3>2. pc'[c] # "found"
        BY <2>1, <2>8
      <3> QED
        BY <3>1, <3>2 DEF Least
    <2>15. Passed(c)'
      <3>1. Current' = Current
        BY <1>2 DEF Current
      <3>2. policy = "kubernetes round-robin" => index'[c] = Current /\ Current \in Nat
        BY <2>3, <2>5
      <3>3. ASSUME policy = "kubernetes round-robin", NEW i \in Visited(c)' PROVE FALSE
        <4>1. i \in 0 .. Len(members) - 1 /\ index'[c] = Current /\ Current \in Nat
          BY <1>2, <3>2, <3>3 DEF Visited
        <4>2. IF index'[c] <= Current THEN index'[c] <= i /\ i < Current ELSE index'[c] <= i \/ i < Current
          BY <3>1, <3>3 DEF Visited
        <4> QED
          BY <2>2, <4>1, <4>2
      <3>4. pc'[c] = "look" => 1 .. index'[c] = {}
        <4>1. pc'[c] = "look" => index'[c] = 0
          BY <2>1, <2>5, <2>8
        <4> QED
          BY <4>1
      <3>5. pc'[c] \in {"random", "increment", "scan", "look", "probe"} /\ policy' = policy
        BY <1>2, <2>1, <2>8
      <3>6. /\ pc'[c] = "probe" => policy = "kubernetes round-robin"
            /\ pc'[c] = "random" => policy = "random"
        BY <2>1, <2>8
      <3> QED
        BY <3>3, <3>4, <3>5, <3>6 DEF Passed
    <2> QED
      BY <2>10, <2>11, <2>12, <2>13, <2>14, <2>15, PrivateStep DEF SoundChoice
  <1> QED
    BY <1>6, <1>7, <1>8 DEF runLoadBalancingAlgorithm

(* One more endpoint is compared (leastProcessedLoadBalancing).  *)
LEMMA LeastProcessedStep ==
  ASSUME SoundChoices, NEW c \in Caller, leastProcessedLoadBalancing(c)
  PROVE  SoundChoices'
  <1>1. Shape /\ Phase(c) /\ Balances(c) /\ Least(c) /\ Free(c)
    BY DEF SoundChoices, SoundChoice
  <1>2. /\ pc[c] = "scan" /\ pc' = [pc EXCEPT ![c] = IF index[c] + 1 = Len(members) THEN "found" ELSE "scan"]
        /\ index' = [index EXCEPT ![c] = @ + 1]
        /\ UNCHANGED <<policy, members, schedulable, readers, counter, capacity, count, nodes, last, free, alone>>
    BY DEF leastProcessedLoadBalancing, At, lock, endpoints, history
  <1>3. policy = "least-processed" /\ ~Placing /\ c \in readers
    BY <1>1, <1>2 DEF Phase, Placing, PlacementPolicies, Choosing
  <1>4. members \in Seq(Member) /\ Len(members) \in Nat /\ index[c] \in Nat /\ index[c] < Len(members)
    BY <1>1, <1>2 DEF Shape, Balances
  <1>5. PICK m \in Member : m = members[index[c] + 1] /\ m \in Range(members)
    BY <1>4, Ranges
  <1>6. /\ chosen' = IF count[m] < minValue[c] THEN [chosen EXCEPT ![c] = m] ELSE chosen
        /\ minValue' = IF count[m] < minValue[c] THEN [minValue EXCEPT ![c] = count[m]] ELSE minValue
    BY <1>5 DEF leastProcessedLoadBalancing
  <1>7. chosen[c] \in Range(members) /\ members # <<>>
    BY <1>1, <1>2, <1>3 DEF Balances, Choosing
  <1>8. /\ count[m] \in Nat /\ minValue[c] \in Nat
        /\ minValue' \in [Caller -> Nat] /\ chosen' \in [Caller -> Member \cup {None}]
        /\ minValue'[c] = IF count[m] < minValue[c] THEN count[m] ELSE minValue[c]
        /\ chosen'[c] = IF count[m] < minValue[c] THEN m ELSE chosen[c]
        /\ \A d \in Caller \ {c} : minValue'[d] = minValue[d] /\ chosen'[d] = chosen[d]
    BY <1>1, <1>6 DEF Shape
  <1>9. /\ pc'[c] = IF index[c] + 1 = Len(members) THEN "found" ELSE "scan"
        /\ index' \in [Caller -> Nat] /\ index'[c] = index[c] + 1
    BY <1>1, <1>2 DEF Shape
  <1>10. Shape'
    BY <1>1, <1>2, <1>8, <1>9 DEF Shape, Placing, Choosing
  <1>12. Private(c)
    BY <1>1, <1>2, <1>8 DEF Private, Shape
  <1>13. Phase(c)' /\ Places(c)' /\ Passed(c)' /\ Free(c)'
    BY <1>1, <1>2, <1>3, <1>9 DEF Phase, Places, Passed, Free, Placing, PlacementPolicies, Choosing
  <1>14. Balances(c)'
    <2>1. chosen'[c] \in Range(members)
      BY <1>5, <1>7, <1>8
    <2>2. pc'[c] = "scan" => index'[c] < Len(members)
      BY <1>4, <1>9
    <2>3. pc'[c] \in {"scan", "found"}
      BY <1>9
    <2> QED
      BY <1>2, <1>3, <1>7, <2>1, <2>2, <2>3 DEF Balances
  <1>15. \A i \in 1 .. index[c] + 1 : minValue'[c] <= count[members[i]]
    <2>1. ASSUME NEW i \in 1 .. index[c] PROVE minValue'[c] <= count[members[i]]
      <3>1. PICK n \in Member : n = members[i]
        BY <1>4
      <3>2. minValue[c] <= count[n] /\ count[n] \in Nat
        BY <1>1, <1>2, <3>1 DEF Least, Shape
      <3> QED
        BY <1>8, <3>1, <3>2
    <2>2. minValue'[c] <= count[members[index[c] + 1]]
      BY <1>5, <1>8
    <2> QED
      BY <1>4, <2>1, <2>2
  <1>16. Least(c)'
    BY <1>2, <1>4, <1>9, <1>15 DEF Least
  <1> QED
    BY <1>10, <1>12, <1>13, <1>14, <1>16, PrivateStep DEF SoundChoice

(* One more endpoint is looked at
   (kubernetesFirstAvailableLoadBalancing).  *)
LEMMA FirstAvailableStep ==
  ASSUME SoundChoices, NEW c \in Caller, kubernetesFirstAvailableLoadBalancing(c)
  PROVE  SoundChoices'
  <1>1. Shape /\ Phase(c) /\ Balances(c) /\ Free(c) /\ Passed(c)
    BY DEF SoundChoices, SoundChoice
  <1>2. /\ pc[c] = "look"
        /\ UNCHANGED <<policy, members, schedulable, readers, counter, capacity, count, nodes, minValue, last, free, alone>>
    BY DEF kubernetesFirstAvailableLoadBalancing, lock, endpoints, history
  <1>3. policy = "first available" /\ ~Placing /\ c \in readers
    BY <1>1, <1>2 DEF Phase, Placing, PlacementPolicies, Choosing
  <1>4. members \in Seq(Member) /\ Len(members) \in Nat /\ index[c] \in Nat /\ index[c] < Len(members)
    BY <1>1, <1>2 DEF Shape, Balances
  <1>5. PICK m \in Member : m = members[index[c] + 1] /\ m \in Range(members)
    BY <1>4, Ranges
  <1>6. chosen[c] \in Range(members) /\ members # <<>>
    BY <1>1, <1>2, <1>3 DEF Balances, Choosing
  <1>8. CASE Chooses(c, "look", m) /\ UNCHANGED index
    <2>1. pc' = [pc EXCEPT ![c] = "found"] /\ chosen' = [chosen EXCEPT ![c] = m] /\ UNCHANGED index
      BY <1>8 DEF Chooses, At
    <2>2. pc'[c] = "found" /\ chosen'[c] = m /\ Shape'
      BY <1>1, <1>2, <2>1 DEF Shape, Placing, Choosing
    <2>3. Private(c)
      BY <1>1, <1>2, <2>1 DEF Private, Shape
    <2>4. Phase(c)' /\ Places(c)' /\ Balances(c)' /\ Least(c)' /\ Passed(c)' /\ Free(c)'
      BY <1>1, <1>2, <1>3, <1>5, <2>2 DEF Phase, Places, Balances, Least, Passed, Free, Placing, PlacementPolicies, Choosing
    <2> QED
      BY <2>2, <2>3, <2>4, PrivateStep DEF SoundChoice
  <1>9. CASE /\ capacity[m] = 0
             /\ At(c, "look", IF index[c] + 1 = Len(members) THEN "random" ELSE "look")
             /\ index' = [index EXCEPT ![c] = @ + 1] /\ UNCHANGED chosen
    <2>1. pc' = [pc EXCEPT ![c] = IF index[c] + 1 = Len(members) THEN "random" ELSE "look"]
      BY <1>9 DEF At
    <2>2. /\ pc'[c] = IF index[c] + 1 = Len(members) THEN "random" ELSE "look"
          /\ index' \in [Caller -> Nat] /\ index'[c] = index[c] + 1
      BY <1>1, <1>9, <2>1 DEF Shape
    <2>3. Shape'
      BY <1>1, <1>2, <1>9, <2>1, <2>2 DEF Shape, Placing, Choosing
    <2>4. Private(c)
      BY <1>1, <1>2, <1>9, <2>1 DEF Private, Shape
    <2>5. Phase(c)' /\ Places(c)' /\ Least(c)' /\ Free(c)'
      BY <1>1, <1>2, <1>3, <2>2 DEF Phase, Places, Least, Free, Placing, PlacementPolicies, Choosing
    <2>6. Balances(c)'
      <3>1. pc'[c] = "look" => index'[c] < Len(members)
        BY <1>4, <2>2
      <3>2. pc'[c] \in {"look", "random"}
        BY <2>2
      <3> QED
        BY <1>2, <1>6, <1>9, <3>1, <3>2 DEF Balances
    <2>7. \A i \in 1 .. index[c] + 1 : members[i] \notin free[c]
      <3>1. m \notin free[c]
        <4>1. \A n \in free[c] : capacity[n] > 0
          BY <1>1, <1>3 DEF Free
        <4>2. capacity[m] = 0
          BY <1>9
        <4> QED
          BY <4>1, <4>2
      <3>2. \A i \in 1 .. index[c] : members[i] \notin free[c]
        BY <1>1, <1>2 DEF Passed
      <3> QED
        BY <1>4, <1>5, <3>1, <3>2
    <2>8. index[c] + 1 = Len(members) => free[c] = {}
      <3>1. free[c] \subseteq Range(members)
        BY <1>1, <1>3 DEF Free
      <3>2. \A v \in Range(members) : \E i \in 1 .. Len(members) : v = members[i]
        BY <1>4, Ranges
      <3> QED
        BY <2>7, <3>1, <3>2
    <2>9. Passed(c)'
      BY <1>2, <1>3, <2>2, <2>7, <2>8 DEF Passed
    <2> QED
      BY <2>3, <2>4, <2>5, <2>6, <2>9, PrivateStep DEF SoundChoice
  <1> QED
    BY <1>5, <1>8, <1>9 DEF kubernetesFirstAvailableLoadBalancing

(* The positions of the ring from the first one to the counter, when the
   counter moves on by one.  *)
LEMMA RingGrows ==
  ASSUME NEW k \in Nat \ {0}, NEW from \in 0 .. k - 1, NEW to \in 0 .. k - 1, NEW next \in 0 .. k - 1,
         next = (IF to + 1 = k THEN 0 ELSE to + 1), NEW i \in 0 .. k - 1,
         next = from \/ (IF from <= next THEN from <= i /\ i < next ELSE from <= i \/ i < next)
  PROVE  i = to \/ (IF from <= to THEN from <= i /\ i < to ELSE from <= i \/ i < to)
  OBVIOUS

(* The scan with the shared counter (kubernetesRoundRobinLoadBalancing).  *)
LEMMA KubernetesStep ==
  ASSUME SoundChoices, NEW c \in Caller, kubernetesRoundRobinLoadBalancing(c)
  PROVE  SoundChoices'
  <1>1. Shape /\ Phase(c) /\ Balances(c) /\ Free(c) /\ Passed(c)
    BY DEF SoundChoices, SoundChoice
  <1>2. /\ pc[c] \in {"probe", "next", "check", "test", "take"} /\ index' = index /\ last' = last /\ free' = free
        /\ UNCHANGED <<policy, members, schedulable, readers, capacity, count, nodes, minValue>>
    BY DEF kubernetesRoundRobinLoadBalancing, At, IncrementCounter, lock, endpoints, history
  <1>3. policy = "kubernetes round-robin" /\ ~Placing /\ c \in readers
    BY <1>1, <1>2 DEF Phase, Placing, PlacementPolicies, Choosing
  <1>4. /\ members \in Seq(Member) /\ Len(members) \in Nat \ {0} /\ counter \in Nat
        /\ index[c] \in 0 .. Len(members) - 1
    <2>1. index[c] < Len(members)
      BY <1>1, <1>2 DEF Balances
    <2>2. members \in Seq(Member) /\ counter \in Nat /\ index[c] \in Nat
      BY <1>1 DEF Shape
    <2> QED
      BY <2>1, <2>2
  <1>5. Current \in 0 .. Len(members) - 1
    BY <1>4, Remainder DEF Current
  <1>6. PICK m \in Member : m = members[Current + 1] /\ m \in Range(members)
    BY <1>4, <1>5, Ranges
  <1>7. chosen[c] \in Range(members) /\ members # <<>>
    BY <1>1, <1>2, <1>3 DEF Balances, Choosing
  <1>8. free[c] \subseteq Range(members) /\ \A n \in free[c] : capacity[n] > 0
    BY <1>1, <1>3 DEF Free
  <1>9. capacity[m] \in Nat
    BY <1>1 DEF Shape
  (* Every case is given by where it leads to, and by what is known there.  *)
  <1>11. ASSUME NEW to \in {"probe", "next", "check", "test", "take", "random", "found"},
                pc' = [pc EXCEPT ![c] = to],
                chosen' = chosen \/ chosen' = [chosen EXCEPT ![c] = m],
                counter' \in Nat, counter' < CounterValues, alone' \in [Caller -> BOOLEAN],
                \A d \in Caller \ {c} : alone'[d] => alone[d] /\ counter' = counter,
                Passed(c)'
         PROVE  SoundChoices'
    <2>1. pc'[c] = to /\ chosen'[c] \in {chosen[c], m} /\ Shape'
      <3>1. /\ pc \in [Caller -> Choosing \cup {"idle", "capacity", "count", "serving", "dead"}]
            /\ chosen \in [Caller -> Member \cup {None}]
        BY <1>1 DEF Shape
      <3>2. /\ pc'[c] = to
            /\ pc' \in [Caller -> Choosing \cup {"idle", "capacity", "count", "serving", "dead"}]
        BY <1>11, <3>1 DEF Choosing
      <3>3. chosen'[c] \in {chosen[c], m} /\ chosen' \in [Caller -> Member \cup {None}]
        BY <1>11, <3>1
      <3>4. Shape'
        BY <1>1, <1>2, <1>11, <3>2, <3>3 DEF Shape, Placing
      <3> QED
        BY <3>2, <3>3, <3>4
    <2>2. Private(c)
      BY <1>1, <1>2, <1>11 DEF Private, Shape
    <2>3. Phase(c)' /\ Places(c)' /\ Least(c)' /\ Free(c)'
      BY <1>1, <1>2, <1>3, <1>11, <2>1 DEF Phase, Places, Least, Free, Placing, PlacementPolicies, Choosing
    <2>4. Balances(c)'
      <3>1. chosen'[c] \in Range(members)
        BY <1>6, <1>7, <2>1
      <3>2. index'[c] < Len(members)
        BY <1>2, <1>4
      <3> QED
        BY <1>2, <1>7, <3>1, <3>2 DEF Balances
    <2> QED
      BY <1>11, <2>1, <2>2, <2>3, <2>4, PrivateStep DEF SoundChoice
  <1>12. /\ counter < CounterValues /\ alone \in [Caller -> BOOLEAN]
         /\ pc \in [Caller -> Choosing \cup {"idle", "capacity", "count", "serving", "dead"}]
    BY <1>1, <1>3 DEF Shape
  <1>13. ASSUME UNCHANGED counter PROVE Current' = Current /\ Visited(c)' = Visited(c)
    BY <1>2, <1>13 DEF Current, Visited
  <1>14. CASE /\ At(c, "probe", IF capacity[members[Current + 1]] > 0 THEN "test" ELSE "next")
              /\ UNCHANGED <<counter, index, chosen, history>>
    <2> DEFINE to == IF capacity[m] > 0 THEN "test" ELSE "next"
    <2>1. pc[c] = "probe" /\ pc' = [pc EXCEPT ![c] = to] /\ UNCHANGED <<counter, chosen, alone>>
      BY <1>6, <1>14 DEF At, history
    <2>2. pc'[c] = to
      BY <1>12, <2>1
    <2>3. Passed(c)'
      <3>1. ~(capacity[m] > 0) => m \notin free[c]
        BY <1>8
      <3>2. alone[c] => \A i \in Visited(c) : members[i + 1] \notin free[c]
        BY <1>1, <2>1 DEF Passed
      <3>3. /\ free'[c] = free[c] /\ members'[Current' + 1] = m /\ capacity' = capacity
            /\ Visited(c)' = Visited(c) /\ members' = members /\ alone' = alone
        BY <1>2, <1>6, <1>13, <2>1
      <3>4. \/ pc'[c] = "test" /\ capacity[m] > 0
            \/ pc'[c] = "next" /\ m \notin free[c]
        BY <2>2, <3>1
      <3> QED
        BY <3>2, <3>3, <3>4 DEF Passed
    <2> QED
      BY <1>4, <1>11, <1>12, <2>1, <2>3
  <1>15. CASE IncrementCounter(c, "next", "check")
    <2>1. /\ pc[c] = "next" /\ pc' = [pc EXCEPT ![c] = "check"] /\ UNCHANGED chosen
          /\ counter' = (counter + 1) % CounterValues
          /\ alone' = [d \in Caller |-> d = c /\ alone[c] /\ counter' # 0]
      BY <1>15 DEF IncrementCounter, At
    <2>2. /\ counter' \in 0 .. CounterValues - 1
          /\ counter' # 0 => counter' = counter + 1
      BY <1>1, <1>3, <2>1, Incremented
    <2>3. counter' = counter + 1 =>
            Current' = (IF Current + 1 = Len(members) THEN 0 ELSE Current + 1) /\ Current' \in 0 .. Len(members) - 1
      <3>1. counter' = counter + 1 => Current' = (counter + 1) % Len(members)
        BY <1>2 DEF Current
      <3>2. (counter + 1) % Len(members) = IF Current + 1 = Len(members) THEN 0 ELSE Current + 1
        BY <1>4, NextRemainder DEF Current
      <3> QED
        BY <1>4, <1>5, <3>1, <3>2
    <2>4. ASSUME counter' = counter + 1, alone[c],
                 NEW i \in IF Current' = index[c] THEN 0 .. Len(members) - 1 ELSE Visited(c)'
          PROVE  members[i + 1] \notin free[c]
      <3>1. i \in 0 .. Len(members) - 1
        BY <1>2, <2>4 DEF Visited
      <3>2. \/ Current' = index[c]
            \/ IF index[c] <= Current' THEN index[c] <= i /\ i < Current' ELSE index[c] <= i \/ i < Current'
        BY <1>2, <2>4 DEF Visited
      <3>3. i = Current \/ i \in Visited(c)
        BY <1>4, <1>5, <2>3, <2>4, <3>1, <3>2, RingGrows DEF Visited
      <3> QED
        BY <1>1, <2>1, <2>4, <3>3 DEF Passed
    <2>5. pc'[c] = "check" /\ (alone'[c] => alone[c] /\ counter' = counter + 1)
      BY <1>12, <2>1, <2>2
    <2>6. Passed(c)'
      BY <1>2, <2>4, <2>5 DEF Passed
    <2>7. /\ counter' \in Nat /\ counter' < CounterValues
          /\ alone' \in [Caller -> BOOLEAN] /\ \A d \in Caller \ {c} : ~alone'[d]
      <3>1. counter' \in Nat /\ counter' < CounterValues
        BY <2>2, PoliciesAssumption
      <3>2. alone' \in [Caller -> BOOLEAN] /\ \A d \in Caller \ {c} : ~alone'[d]
        BY <1>12, <2>1, Zenon
      <3> QED
        BY <3>1, <3>2
    <2> QED
      BY <1>11, <2>1, <2>6, <2>7
  <1>16. CASE /\ At(c, "check", IF Current = index[c] THEN "test" ELSE "probe")
              /\ UNCHANGED <<counter, index, chosen, history>>
    <2> DEFINE to == IF Current = index[c] THEN "test" ELSE "probe"
    <2>1. pc[c] = "check" /\ pc' = [pc EXCEPT ![c] = to] /\ UNCHANGED <<counter, chosen, alone>>
      BY <1>16 DEF At, history
    <2>2. pc'[c] = to
      BY <1>12, <2>1
    <2>3. alone[c] => \A i \in IF Current = index[c] THEN 0 .. Len(members) - 1 ELSE Visited(c) :
                        members[i + 1] \notin free[c]
      BY <1>1, <2>1 DEF Passed
    <2>4. (\A i \in 0 .. Len(members) - 1 : members[i + 1] \notin free[c]) => free[c] = {}
      <3>1. \A v \in Range(members) : \E i \in 1 .. Len(members) : v = members[i]
        BY <1>4, Ranges
      <3>2. \A i \in 1 .. Len(members) : i - 1 \in 0 .. Len(members) - 1 /\ (i - 1) + 1 = i
        BY <1>4
      <3> QED
        BY <1>8, <3>1, <3>2
    <2>5. Passed(c)'
      <3>1. /\ free'[c] = free[c] /\ Visited(c)' = Visited(c) /\ members' = members /\ alone' = alone
        BY <1>2, <1>13, <2>1
      <3>2. \/ pc'[c] = "test" /\ (alone[c] => free[c] = {})
            \/ pc'[c] = "probe" /\ (alone[c] => \A i \in Visited(c) : members[i + 1] \notin free[c])
        BY <2>2, <2>3, <2>4
      <3> QED
        BY <3>1, <3>2 DEF Passed
    <2> QED
      BY <1>4, <1>11, <1>12, <2>1, <2>5
  <1>17. CASE /\ pc[c] = "test"
              /\ \E n \in {members[Current + 1]} :
                   /\ At(c, "test", IF capacity[n] > 0 THEN "take" ELSE "random")
                   /\ chosen' = [chosen EXCEPT ![c] = n]
              /\ UNCHANGED <<counter, index, history>>
    <2> DEFINE to == IF capacity[m] > 0 THEN "take" ELSE "random"
    <2>1. pc' = [pc EXCEPT ![c] = to] /\ chosen' = [chosen EXCEPT ![c] = m] /\ UNCHANGED <<counter, alone>>
      BY <1>6, <1>17 DEF At, history
    <2>2. pc'[c] = to
      BY <1>12, <2>1
    <2>3. alone[c] => free[c] = {} \/ capacity[m] > 0
      BY <1>1, <1>6, <1>17 DEF Passed
    <2>4. Passed(c)'
      <3>1. free'[c] = free[c] /\ alone' = alone /\ policy' = policy
        BY <1>2, <2>1
      <3>2. \/ pc'[c] = "take"
            \/ pc'[c] = "random" /\ (alone[c] => free[c] = {})
        BY <2>2, <2>3
      <3> QED
        BY <1>3, <3>1, <3>2 DEF Passed
    <2> QED
      BY <1>4, <1>11, <1>12, <2>1, <2>4
  <1>18. CASE IncrementCounter(c, "take", "found")
    <2>1. /\ pc' = [pc EXCEPT ![c] = "found"] /\ UNCHANGED chosen
          /\ counter' = (counter + 1) % CounterValues
          /\ alone' = [d \in Caller |-> d = c /\ alone[c] /\ counter' # 0]
      BY <1>18 DEF IncrementCounter, At
    <2>2. counter' \in 0 .. CounterValues - 1
      BY <1>1, <1>3, <2>1, Incremented
    <2>3. /\ counter' \in Nat /\ counter' < CounterValues
          /\ alone' \in [Caller -> BOOLEAN] /\ \A d \in Caller \ {c} : ~alone'[d]
      <3>1. counter' \in Nat /\ counter' < CounterValues
        BY <2>2, PoliciesAssumption
      <3>2. alone' \in [Caller -> BOOLEAN] /\ \A d \in Caller \ {c} : ~alone'[d]
        BY <1>12, <2>1, Zenon
      <3> QED
        BY <3>1, <3>2
    <2>4. Passed(c)'
      <3>1. pc'[c] = "found"
        BY <1>12, <2>1
      <3> QED
        BY <3>1 DEF Passed
    <2> QED
      BY <1>11, <2>1, <2>3, <2>4
  <1> QED
    BY <1>14, <1>15, <1>16, <1>17, <1>18 DEF kubernetesRoundRobinLoadBalancing

-----------------------------------------------------------------------------
(* The lock is given back with the choice (RUnlock).  *)
LEMMA ReturnStep ==
  ASSUME SoundChoices, NEW c \in Caller, Return(c)
  PROVE  SoundChoices'
  <1>1. Shape /\ Phase(c) /\ Places(c)
    BY DEF SoundChoices, SoundChoice
  <1>2. /\ pc' = [pc EXCEPT ![c] = IF Placing \/ chosen[c] = None THEN "idle" ELSE "capacity"]
        /\ readers' = readers \ {c}
        /\ nodes' = [nodes EXCEPT ![c] = <<>>] /\ index' = [index EXCEPT ![c] = 0]
        /\ minValue' = [minValue EXCEPT ![c] = 0]
        /\ chosen' = IF Placing THEN [chosen EXCEPT ![c] = None] ELSE chosen
        /\ free' = [free EXCEPT ![c] = {}] /\ alone' = [alone EXCEPT ![c] = TRUE]
        /\ UNCHANGED <<policy, members, schedulable, counter, capacity, count, last>>
    BY DEF Return, At, endpoints
  <1>3. /\ pc' \in [Caller -> Choosing \cup {"idle", "capacity", "count", "serving", "dead"}]
        /\ nodes' \in [Caller -> Seq(Member)] /\ index' \in [Caller -> Nat] /\ minValue' \in [Caller -> Nat]
        /\ chosen' \in [Caller -> Member \cup {None}]
    BY <1>1, <1>2 DEF Shape
  <1>4. free' \in [Caller -> SUBSET Member] /\ alone' \in [Caller -> BOOLEAN]
    BY <1>1, <1>2 DEF Shape
  <1>5. Shape'
    BY <1>1, <1>2, <1>3, <1>4 DEF Shape, Placing
  <1>7. Private(c)
    BY <1>1, <1>2 DEF Private, Shape
  <1>8. /\ pc'[c] = IF Placing \/ chosen[c] = None THEN "idle" ELSE "capacity"
        /\ Placing => chosen'[c] = None
        /\ free'[c] = {}
    BY <1>1, <1>2 DEF Shape
  <1>9. Phase(c)' /\ Places(c)' /\ Balances(c)' /\ Least(c)' /\ Passed(c)' /\ Free(c)'
    <2>1. pc'[c] \in {"idle", "capacity"} /\ (pc'[c] = "capacity" => ~Placing) /\ policy' = policy
      BY <1>2, <1>8
    <2> QED
      BY <1>8, <2>1 DEF Phase, Places, Balances, Least, Passed, Free, Placing, Choosing
  <1> QED
    BY <1>5, <1>7, <1>9, PrivateStep DEF SoundChoice

(* A token is taken, or the wait for one ends (waitForCapacityOrDie).  *)
LEMMA CapacityStep ==
  ASSUME SoundChoices, NEW c \in Caller, waitForCapacityOrDie(c)
  PROVE  SoundChoices'
  <1>1. Shape /\ Phase(c) /\ Free(c)
    BY DEF SoundChoices, SoundChoice
  <1>2. /\ pc[c] = "capacity"
        /\ UNCHANGED <<policy, members, schedulable, readers, counter, count, nodes, index, minValue, last>>
    BY DEF waitForCapacityOrDie, At, lock
  <1>3. ~Placing /\ free[c] = {}
    BY <1>1, <1>2 DEF Phase, Free, Choosing
  <1>5. CASE /\ At(c, "capacity", "count") /\ capacity[chosen[c]] > 0
             /\ capacity' = [capacity EXCEPT ![chosen[c]] = @ - 1]
             /\ free' = [d \in Caller |-> free[d] \ {m \in Member : capacity'[m] = 0}]
             /\ Disturbs(c) /\ UNCHANGED chosen
    <2>1. capacity' \in [Member -> Nat]
      <3>1. capacity \in [Member -> Nat] /\ capacity[chosen[c]] > 0 /\ capacity' = [capacity EXCEPT ![chosen[c]] = @ - 1]
        BY <1>1, <1>5 DEF Shape
      <3>2. CASE chosen[c] \in Member
        BY <3>1, <3>2
      <3>3. CASE chosen[c] \notin Member
        BY <3>1, <3>3
      <3> QED
        BY <3>2, <3>3
    <2>2. pc' = [pc EXCEPT ![c] = "count"] /\ chosen' = chosen
      BY <1>5 DEF At
    <2>3. free' \in [Caller -> SUBSET Member] /\ \A d \in Caller : free'[d] = free[d] \ {m \in Member : capacity'[m] = 0}
      BY <1>1, <1>5 DEF Shape
    <2>4. alone' \in [Caller -> BOOLEAN] /\ \A d \in Caller \ {c} : ~alone'[d]
      BY <1>1, <1>5, Zenon DEF Shape, Disturbs
    <2>5. Shape'
      BY <1>1, <1>2, <2>1, <2>2, <2>3, <2>4 DEF Shape, Placing, Choosing
    <2>6. pc'[c] = "count" /\ free'[c] = {}
      BY <1>1, <1>3, <2>2, <2>3 DEF Shape
    <2>7. Phase(c)' /\ Places(c)' /\ Balances(c)' /\ Least(c)' /\ Passed(c)' /\ Free(c)'
      BY <1>2, <1>3, <2>6 DEF Phase, Places, Balances, Least, Passed, Free, Placing, Choosing
    <2>8. ASSUME NEW d \in Caller \ {c} PROVE Overlooked(d)
      <3>1. \A m \in Member : count[m] <= count'[m]
        BY <1>1, <1>2 DEF Shape
      <3>2. \A m \in free'[d] : capacity'[m] > 0
        <4>1. \A m \in free'[d] : m \in Member /\ capacity'[m] # 0
          BY <2>3
        <4> QED
          BY <2>1, <4>1
      <3>3. pc'[d] = pc[d]
        BY <1>1, <2>2 DEF Shape
      <3> QED
        BY <1>2, <2>2, <2>3, <2>4, <3>1, <3>2, <3>3 DEF Overlooked
    <2> QED
      BY <2>5, <2>7, <2>8, CallerStep DEF SoundChoice
  <1>6. CASE /\ At(c, "capacity", "idle")
             /\ chosen' = [chosen EXCEPT ![c] = None] /\ UNCHANGED <<capacity, free, alone>>
    <2>1. Shape'
      BY <1>1, <1>2, <1>6 DEF Shape, Placing, Choosing, At
    <2>2. Private(c)
      BY <1>1, <1>2, <1>6 DEF Private, Shape, At
    <2>3. pc'[c] = "idle" /\ free'[c] = {}
      BY <1>1, <1>3, <1>6 DEF Shape, At
    <2>4. Phase(c)' /\ Places(c)' /\ Balances(c)' /\ Least(c)' /\ Passed(c)' /\ Free(c)'
      BY <1>2, <1>3, <2>3 DEF Phase, Places, Balances, Least, Passed, Free, Placing, Choosing
    <2> QED
      BY <2>1, <2>2, <2>4, PrivateStep DEF SoundChoice
  <1> QED
    BY <1>5, <1>6 DEF waitForCapacityOrDie

(* A request is counted, and gives its token back in the end
   (IncrementRequestCountPerInstance, giveBackCCCapacity).  *)
LEMMA CountStep ==
  ASSUME SoundChoices, NEW c \in Caller, IncrementRequestCountPerInstance(c) \/ giveBackCCCapacity(c)
  PROVE  SoundChoices'
  <1>1. Shape /\ Phase(c) /\ \A d \in Caller : Free(d)
    BY DEF SoundChoices, SoundChoice
  <1>2. /\ pc[c] \in {"count", "serving"} /\ pc' \in {[pc EXCEPT ![c] = "serving"], [pc EXCEPT ![c] = "idle"]}
        /\ count' \in {count, [count EXCEPT ![chosen[c]] = @ + 1]}
        /\ capacity' \in {capacity, [capacity EXCEPT ![chosen[c]] = @ + 1]}
        /\ chosen' \in {chosen, [chosen EXCEPT ![c] = None]}
        /\ UNCHANGED <<policy, members, schedulable, readers, counter, nodes, index, minValue, last, free, alone>>
    BY DEF IncrementRequestCountPerInstance, giveBackCCCapacity, At, lock, locals, history
  <1>3. ~Placing /\ free[c] = {}
    BY <1>1, <1>2 DEF Phase, Free, Choosing
  <1>4. /\ count' \in [Member -> Nat] /\ capacity' \in [Member -> Nat]
        /\ \A m \in Member : count[m] <= count'[m] /\ capacity[m] <= capacity'[m]
    <2>1. count \in [Member -> Nat] /\ capacity \in [Member -> Nat]
      BY <1>1 DEF Shape
    <2> QED
      BY <1>2, <2>1
  <1>5. pc'[c] \in {"serving", "idle"} /\ \A d \in Caller \ {c} : pc'[d] = pc[d] /\ chosen'[d] = chosen[d]
    BY <1>1, <1>2 DEF Shape
  <1>6. Shape'
    BY <1>1, <1>2, <1>4 DEF Shape, Placing, Choosing
  <1>8. Phase(c)' /\ Places(c)' /\ Balances(c)' /\ Least(c)' /\ Passed(c)' /\ Free(c)'
    BY <1>2, <1>3, <1>5 DEF Phase, Places, Balances, Least, Passed, Free, Placing, Choosing
  <1>9. ASSUME NEW d \in Caller \ {c} PROVE Overlooked(d)
    <2>1. \A m \in free'[d] : capacity'[m] > 0
      <3>1. \A m \in free[d] : m \in Member /\ capacity[m] \in Nat /\ capacity'[m] \in Nat
        BY <1>1, <1>4 DEF Shape
      <3>2. \A m \in free[d] : capacity[m] > 0
        BY <1>1, <1>3 DEF Free
      <3> QED
        BY <1>2, <1>4, <3>1, <3>2
    <2> QED
      BY <1>2, <1>4, <1>5, <2>1 DEF Overlooked
  <1> QED
    BY <1>6, <1>8, <1>9, CallerStep DEF SoundChoice

-----------------------------------------------------------------------------
(* Nobody has chosen yet.  *)
LEMMA SoundInit ==
  ASSUME Init
  PROVE  SoundChoices
  <1>1. createThrottlerChannel \in Nat
    BY PoliciesAssumption DEF createThrottlerChannel
  <1>2. Shape
    BY <1>1, FS_EmptySet, PoliciesAssumption DEF Init, Shape
  <1>4. ASSUME NEW c \in Caller PROVE SoundChoice(c)
    <2>1. pc[c] = "idle" /\ chosen[c] = None /\ free[c] = {}
      BY DEF Init
    <2> QED
      BY <2>1 DEF SoundChoice, Phase, Places, Balances, Least, Free, Passed, Choosing
  <1> QED
    BY <1>2, <1>4 DEF SoundChoices

(* Every step keeps the invariant.  *)
LEMMA SoundNext ==
  ASSUME SoundChoices, [Next]_vars
  PROVE  SoundChoices'
  <1>1. CASE UNCHANGED vars
    BY <1>1, LockStep
  <1>2. CASE \/ Lock \/ RegisterNode \/ DeregisterNode \/ CheckPeriodicallyWorkerNodes \/ NodeHeartbeat
             \/ AddEndpoints \/ removeEndpoints
    BY <1>2, LockStep, NodesStep, EndpointsStep
  <1>3. ASSUME NEW c \in Caller, RLock(c) \/ Choose(c)
        PROVE  SoundChoices'
    BY <1>3, RLockStep, NoNodesStep, SchedulableNodesStep, LoadCounterStep, CompareAndSwapStep, RandomStep,
       BalancingStep, RoundRobinStep, LeastProcessedStep, FirstAvailableStep, KubernetesStep, ReturnStep DEF Choose
  <1>4. ASSUME NEW c \in Caller,
               waitForCapacityOrDie(c) \/ IncrementRequestCountPerInstance(c) \/ giveBackCCCapacity(c)
        PROVE  SoundChoices'
    BY <1>4, CapacityStep, CountStep
  <1> QED
    BY <1>1, <1>2, <1>3, <1>4 DEF Next

(* Choices are sound: what a caller has read under the lock, its scan and the
   tokens that it counts on stay consistent with the list.  *)
THEOREM Sound == Spec => []SoundChoices
  BY SoundInit, SoundNext, PTL DEF Spec

(* The member that is returned is in the list, and a node is schedulable,
   whatever the other callers and the monitoring do (ApplyPlacementPolicy,
   runLoadBalancingAlgorithm).  *)
THEOREM EligibleIsChosen == Spec => []ChosenIsEligible
  <1>1. SoundChoices => ChosenIsEligible
    BY DEF SoundChoices, SoundChoice, Places, Balances, ChosenIsEligible
  <1> QED
    BY <1>1, Sound, PTL

(* No endpoint has been given fewer requests than the chosen one had when it
   was looked at, although requests are counted during the scan
   (leastProcessedLoadBalancing).  *)
THEOREM LeastIsChosen == Spec => []LeastIsLeast
  <1>1. ASSUME SoundChoices PROVE LeastIsLeast
    <2> SUFFICES ASSUME NEW c \in Caller, pc[c] = "found", policy = "least-processed", NEW m \in Range(members)
                 PROVE  minValue[c] <= count[m]
      BY DEF LeastIsLeast
    <2>1. PICK i \in 1 .. Len(members) : m = members[i]
      BY <1>1, Ranges DEF SoundChoices, Shape
    <2> QED
      BY <1>1, <2>1 DEF SoundChoices, SoundChoice, Least
  <1> QED
    BY <1>1, Sound, PTL

(* A random endpoint is taken only if none had a token all the time; with the
   shared counter, if nobody else balances and the counter does not wrap
   (kubernetesFirstAvailableLoadBalancing, kubernetesRoundRobinLoadBalancing).  *)
THEOREM FreeAreFound == Spec => []FreeIsFound
  <1>1. SoundChoices => FreeIsFound
    BY DEF SoundChoices, SoundChoice, Passed, FreeIsFound
  <1> QED
    BY <1>1, Sound, PTL
=============================================================================
