-------------------------- MODULE RequestPathProofs --------------------------
(***************************************************************************)
(* Theorems of RequestPath, for every set of requests, of sandboxes and of  *)
(* endpoints, finite or not, every parallelism of a sandbox and number of retries.    *)
(***************************************************************************)
EXTENDS RequestPath, FiniteSetTheorems, TLAPS

----------------------------------------------------------------------------
(* Type correctness *)

\* Handlers that hold a token are counted, so they are finitely many.
LEMMA HoldersAreFinite ==
  ASSUME TypeOK, IsFiniteSet(Active)
  PROVE  \A e \in Endpoint : /\ IsFiniteSet(Holding(e)) /\ IsFiniteSet(AtSandbox(e))
                             /\ Cardinality(Holding(e)) \in Nat
                             /\ Cardinality(AtSandbox(e)) \in Nat
<1>1. \A e \in Endpoint : Holding(e) \in SUBSET Active /\ AtSandbox(e) \in SUBSET Active
  BY DEF TypeOK, Holding, AtSandbox, Active
<1>2. \A e \in Endpoint : IsFiniteSet(Holding(e)) /\ IsFiniteSet(AtSandbox(e))
  BY <1>1, FS_Subset
<1> QED BY <1>2, FS_CardinalityType

\* A request that holds a token leaves room for it in the Capacity channel.
LEMMA RoomForToken ==
  ASSUME Accounting, NEW e \in Endpoint, NEW r \in Holding(e)
  PROVE  capacity[e] + 1 \in 0..SandboxParallelism
<1>1. IsFiniteSet(Holding(e)) /\ Cardinality(Holding(e)) \in Nat
  BY HoldersAreFinite DEF Accounting
<1>2. Cardinality(Holding(e)) # 0
  BY <1>1, FS_EmptySet
<1>3. capacity[e] + Cardinality(Holding(e)) = SandboxParallelism
  BY DEF Accounting, ConcurrencyLimit
<1> QED BY <1>1, <1>2, <1>3, RequestPathAssumption DEF Accounting, TypeOK

\* A call brings endpoints, none or one.
LEMMA PatchesAreEndpoints == \A patch \in Patches : patch \in Seq(Endpoint)
<1>1. ASSUME Unused # {} PROVE (CHOOSE e \in Unused : TRUE) \in Endpoint
  <2>1. (CHOOSE e \in Unused : TRUE) \in Unused
    BY <1>1
  <2> QED BY <2>1 DEF Unused
<1>2. ASSUME NEW e \in Endpoint PROVE <<e>> \in Seq(Endpoint)
  OBVIOUS
<1>3. <<>> \in Seq(Endpoint)
  OBVIOUS
<1>4. ASSUME NEW patch \in Patches PROVE patch \in Seq(Endpoint)
  <2>1. CASE Unused = {}
    BY <1>3, <1>4, <2>1 DEF Patches
  <2>2. CASE Unused # {}
    BY <1>1, <1>2, <1>3, <1>4, <2>2 DEF Patches
  <2> QED BY <2>1, <2>2
<1> QED BY <1>4

\* A list of endpoints without one of them is one.
LEMMA WithoutOne ==
  ASSUME NEW S, NEW q \in Seq(S), NEW i \in DOMAIN q
  PROVE  SubSeq(q, 1, i - 1) \o SubSeq(q, i + 1, Len(q)) \in Seq(S)
<1>1. i \in 1..Len(q) /\ Len(q) \in Nat
  OBVIOUS
<1>2. SubSeq(q, 1, i - 1) \in Seq(S) /\ SubSeq(q, i + 1, Len(q)) \in Seq(S)
  BY <1>1
<1> QED BY <1>2

\* Every step of a handler keeps the types, the attempts and the endpoints.
LEMMA HandlerTypes ==
  ASSUME Accounting, NEW r \in Request,
         TryWarmStart(r) \/ HandlerStep(r) \/ contextTerminationHandler(r)
  PROVE  TypeOK' /\ Routing'
<1> USE RequestPathAssumption
    DEF Accounting, TypeOK, Routing, At, handlers, waiting, list, fields, metricVars
<1>1. CASE TryWarmStart(r)
  BY <1>1 DEF TryWarmStart
<1>2. CASE triggerAutoscaling(r)
  BY <1>2 DEF triggerAutoscaling
<1>3. CASE CheckEndpoints(r)
  BY <1>3 DEF CheckEndpoints
<1>4. CASE Enqueue(r)
  BY <1>4 DEF Enqueue
<1>5. CASE contextTerminationHandler(r)
  BY <1>5 DEF contextTerminationHandler
<1>6. CASE ReceiveOutcome(r)
  BY <1>6 DEF ReceiveOutcome
<1>7. CASE runLoadBalancingAlgorithm(r)
  <2>1. ASSUME NEW e \in Listed,
               target' = [target EXCEPT ![r] = e], pc' = [pc EXCEPT ![r] = "capacity"]
        PROVE  TypeOK' /\ Routing'
    <3>1. e \in Endpoint
      BY DEF Listed
    <3> QED BY <1>7, <2>1, <3>1 DEF runLoadBalancingAlgorithm
  <2>2. ASSUME target' = [target EXCEPT ![r] = None], pc' = [pc EXCEPT ![r] = "panic"]
        PROVE  TypeOK' /\ Routing'
    BY <1>7, <2>2 DEF runLoadBalancingAlgorithm
  <2> QED BY <1>7, <2>1, <2>2 DEF runLoadBalancingAlgorithm
<1>8. CASE TakeCapacity(r)
  <2>1. capacity[target[r]] - 1 \in 0..SandboxParallelism
    BY <1>8 DEF TakeCapacity
  <2> QED BY <1>8, <2>1 DEF TakeCapacity
<1>9. CASE CapacityTimeout(r)
  BY <1>9 DEF CapacityTimeout
<1>10. CASE CountInFlight(r)
  BY <1>10 DEF CountInFlight
<1>11. CASE DecrementInFlight(r)
  BY <1>11 DEF DecrementInFlight
<1>12. CASE CheckDrained(r)
  BY <1>12 DEF CheckDrained
<1>13. CASE SignalDrained(r)
  BY <1>13 DEF SignalDrained
<1>14. CASE GiveBack(r)
  <2>1. target[r] \in Endpoint /\ r \in Holding(target[r])
    BY <1>14 DEF GiveBack, Holding
  <2>2. capacity[target[r]] + 1 \in 0..SandboxParallelism
    BY <2>1, RoomForToken
  <2> QED BY <1>14, <2>1, <2>2 DEF GiveBack
<1>15. CASE DecreaseInflight(r)
  BY <1>15 DEF DecreaseInflight
<1> QED BY <1>1, <1>2, <1>3, <1>4, <1>5, <1>6, <1>7, <1>8, <1>9, <1>10, <1>11, <1>12, <1>13, <1>14, <1>15
     DEF HandlerStep

\* Every step of the control plane's calls and of the metrics loop keeps the
\* types, and leaves the handlers and what they hold alone.
LEMMA OtherTypes ==
  ASSUME Accounting, UNCHANGED vars \/ MetricsStep \/ AddStep \/ cleanCache
           \/ (\E patch \in Patches, s \in Sandbox : AddEndpoints(patch, s))
           \/ (\E s \in Sandbox : DrainEndpoints(s)) \/ removeEndpoints
           \/ \E e \in Endpoint : DrainingStep(e)
  PROVE  /\ TypeOK'
         /\ UNCHANGED <<handlers, capacity, InFlight, inflightRequests>>
<1> USE RequestPathAssumption
    DEF Accounting, TypeOK, handlers, waiting, list, fields, metricVars, DrainStep
<1>1. CASE UNCHANGED vars
  BY <1>1 DEF vars
<1>2. CASE LoadMetric
  BY <1>2 DEF LoadMetric
<1>3. CASE StoreTriggered
  BY <1>3 DEF StoreTriggered
<1>4. CASE Dequeue
  <2>1. Head(queue) \in Request /\ Tail(queue) \in Seq(Request)
    BY <1>4 DEF Dequeue
  <2> QED BY <1>4, <2>1 DEF Dequeue
<1>5. CASE AddEndpointsDone
  BY <1>5 DEF AddEndpointsDone
<1>6. CASE cleanCache
  BY <1>6 DEF cleanCache
<1>7. ASSUME NEW patch \in Patches, NEW s \in Sandbox, AddEndpoints(patch, s)
      PROVE  TypeOK' /\ UNCHANGED <<handlers, capacity, InFlight, inflightRequests>>
  <2>1. upstreamEndpoints' \in Seq(Endpoint)
    BY <1>7, PatchesAreEndpoints DEF AddEndpoints
  <2>2. activeEndpointCount' \in Nat
    BY <1>7, <2>1 DEF AddEndpoints
  <2> QED BY <1>7, <2>1, <2>2 DEF AddEndpoints
<1>8. ASSUME NEW e \in Endpoint, DrainingStep(e)
      PROVE  TypeOK' /\ UNCHANGED <<handlers, capacity, InFlight, inflightRequests>>
  <2>1. CASE MarkDrained(e)
    BY <2>1 DEF MarkDrained
  <2>2. CASE MakeCallback(e)
    BY <2>2 DEF MakeCallback
  <2>3. CASE ReadInFlight(e)
    BY <2>3 DEF ReadInFlight
  <2>4. CASE SendCallback(e)
    BY <2>4 DEF SendCallback
  <2>5. CASE waitForDrainingToComplete(e)
    BY <2>5 DEF waitForDrainingToComplete
  <2> QED BY <1>8, <2>1, <2>2, <2>3, <2>4, <2>5 DEF DrainingStep
<1>9. ASSUME NEW s \in Sandbox, DrainEndpoints(s)
      PROVE  TypeOK' /\ UNCHANGED <<handlers, capacity, InFlight, inflightRequests>>
  BY <1>9 DEF DrainEndpoints
<1>10. CASE removeEndpoints
  <2>1. upstreamEndpoints' \in Seq(Endpoint)
    <3>1. PICK i \in DOMAIN upstreamEndpoints :
            upstreamEndpoints' = SubSeq(upstreamEndpoints, 1, i - 1)
                                 \o SubSeq(upstreamEndpoints, i + 1, Len(upstreamEndpoints))
      BY <1>10, Zenon DEF removeEndpoints
    <3>2. upstreamEndpoints \in Seq(Endpoint)
      OBVIOUS
    <3> HIDE DEF TypeOK, Accounting
    <3> QED BY <3>1, <3>2, WithoutOne
  <2>2. activeEndpointCount' \in Nat
    <3>1. activeEndpointCount' = Len(upstreamEndpoints')
      BY <1>10, Zenon DEF removeEndpoints
    <3> QED BY <2>1, <3>1
  <2>3. drain' \in [Endpoint -> {"no", "make", "read", "send", "marked", "wait", "done"}]
    BY <1>10 DEF removeEndpoints
  <2> QED BY <1>10, <2>1, <2>2, <2>3 DEF removeEndpoints
<1> QED BY <1>1, <1>2, <1>3, <1>4, <1>5, <1>6, <1>7, <1>8, <1>9, <1>10 DEF MetricsStep, AddStep

----------------------------------------------------------------------------
(* The counters *)

\* What the counters say, of finitely many handlers.
Counts == IsFiniteSet(Active) /\ InflightMatches /\ ConcurrencyLimit /\ EndpointCountsRequests

\* A step that leaves the counted handlers and the counters alone.
LEMMA QuietStep ==
  ASSUME Counts, Active' = Active, UNCHANGED <<capacity, InFlight, inflightRequests>>,
         \A e \in Endpoint : Holding(e)' = Holding(e) /\ AtSandbox(e)' = AtSandbox(e)
  PROVE  Counts'
BY DEF Counts, InflightMatches, ConcurrencyLimit, EndpointCountsRequests

\* A step of a handler changes a counter exactly when it enters or leaves the
\* handlers that the counter counts.
LEMMA HandlerCounts ==
  ASSUME Accounting, NEW r \in Request,
         TryWarmStart(r) \/ HandlerStep(r) \/ contextTerminationHandler(r)
  PROVE  Counts'
<1> DEFINE H == {"took", "proxying", "returned", "last", "signal", "stuck", "giveBack"}
<1>0. /\ TypeOK /\ Counts
      /\ \A e \in Endpoint : /\ IsFiniteSet(Holding(e)) /\ IsFiniteSet(AtSandbox(e))
                             /\ Cardinality(Holding(e)) \in Nat
                             /\ Cardinality(AtSandbox(e)) \in Nat
      /\ Cardinality(Active) \in Nat
      /\ pc[r] \in H \cup {"capacity"} => target[r] \in Endpoint
  BY HoldersAreFinite, FS_CardinalityType DEF Accounting, Counts, Routing
<1>1. CASE TryWarmStart(r)
  <2>1. /\ pc[r] = "idle" /\ target' = target
        /\ \A q \in Request : pc'[q] = IF q = r THEN "trigger" ELSE pc[q]
        /\ inflightRequests' = inflightRequests + 1 /\ UNCHANGED <<capacity, InFlight>>
    BY <1>0, <1>1 DEF TypeOK, TryWarmStart, At, fields
  <2>2. /\ r \notin Active /\ Active' = Active \cup {r}
        /\ \A e \in Endpoint : Holding(e)' = Holding(e) /\ AtSandbox(e)' = AtSandbox(e)
    BY <1>0, <2>1 DEF Active, Holding, AtSandbox
  <2>3. IsFiniteSet(Active') /\ Cardinality(Active') = Cardinality(Active) + 1
    BY <1>0, <2>2, FS_AddElement DEF Counts
  <2> QED BY <1>0, <2>1, <2>2, <2>3
       DEF Counts, InflightMatches, ConcurrencyLimit, EndpointCountsRequests
<1>2. CASE DecreaseInflight(r)
  <2>1. /\ pc[r] \in {"leave", "panic"}
        /\ \A q \in Request : pc'[q] = IF q = r THEN "done" ELSE pc[q]
        /\ \A q \in Request \ {r} : target'[q] = target[q]
        /\ inflightRequests' = inflightRequests - 1 /\ UNCHANGED <<capacity, InFlight>>
    BY <1>0, <1>2 DEF TypeOK, DecreaseInflight, fields
  <2>2. /\ r \in Active /\ Active' = Active \ {r}
        /\ \A e \in Endpoint : Holding(e)' = Holding(e) /\ AtSandbox(e)' = AtSandbox(e)
    BY <1>0, <2>1 DEF Active, Holding, AtSandbox
  <2>3. IsFiniteSet(Active') /\ Cardinality(Active') = Cardinality(Active) - 1
    BY <1>0, <2>2, FS_RemoveElement DEF Counts
  <2> QED BY <1>0, <2>1, <2>2, <2>3
       DEF Counts, InflightMatches, ConcurrencyLimit, EndpointCountsRequests
<1>3. CASE TakeCapacity(r)
  <2>0. PICK t \in Endpoint : target[r] = t
    BY <1>0, <1>3 DEF TakeCapacity, At
  <2>1. /\ pc[r] = "capacity" /\ target' = target
        /\ \A q \in Request : pc'[q] = IF q = r THEN "took" ELSE pc[q]
        /\ capacity' = [capacity EXCEPT ![t] = @ - 1]
        /\ UNCHANGED <<inflightRequests, InFlight>>
    BY <1>0, <1>3, <2>0 DEF TypeOK, TakeCapacity, At
  <2>2. /\ Active' = Active /\ r \notin Holding(t)
        /\ \A e \in Endpoint : /\ AtSandbox(e)' = AtSandbox(e)
                               /\ e # t => Holding(e)' = Holding(e)
        /\ Holding(t)' = Holding(t) \cup {r}
    BY <1>0, <2>0, <2>1 DEF Active, Holding, AtSandbox
  <2>3. Cardinality(Holding(t)') = Cardinality(Holding(t)) + 1
    <3>1. IsFiniteSet(Holding(t)) /\ Cardinality(Holding(t) \cup {r}) = Cardinality(Holding(t)) + 1
      BY <1>0, <2>2, FS_AddElement
    <3> QED BY <2>2, <3>1
  <2>4. ASSUME NEW e \in Endpoint
        PROVE  capacity'[e] + Cardinality(Holding(e)') = SandboxParallelism
    <3>1. CASE e = t
      <4>1. capacity[t] \in Nat /\ capacity'[t] = capacity[t] - 1
        BY <1>0, <2>1 DEF TypeOK
      <4>2. capacity[t] + Cardinality(Holding(t)) = SandboxParallelism
        BY <1>0 DEF Counts, ConcurrencyLimit
      <4>3. Cardinality(Holding(t)) \in Nat
        BY <1>0
      <4>4. capacity'[t] + Cardinality(Holding(t)') = capacity[t] + Cardinality(Holding(t))
        BY <2>3, <4>1, <4>3
      <4> QED BY <3>1, <4>2, <4>4
    <3>2. CASE e # t
      BY <1>0, <2>1, <2>2, <3>2 DEF Counts, ConcurrencyLimit, TypeOK
    <3> QED BY <3>1, <3>2
  <2> QED BY <1>0, <2>1, <2>2, <2>4
       DEF Counts, InflightMatches, ConcurrencyLimit, EndpointCountsRequests
<1>4. CASE GiveBack(r)
  <2>0. PICK t \in Endpoint : target[r] = t
    BY <1>0, <1>4 DEF GiveBack, At
  <2>1. /\ pc[r] = "giveBack" /\ target' = target
        /\ \A q \in Request : pc'[q] = IF q = r THEN "leave" ELSE pc[q]
        /\ capacity' = [capacity EXCEPT ![t] = @ + 1]
        /\ UNCHANGED <<inflightRequests, InFlight>>
    BY <1>0, <1>4, <2>0 DEF TypeOK, GiveBack, At
  <2>2. /\ Active' = Active /\ r \in Holding(t)
        /\ \A e \in Endpoint : /\ AtSandbox(e)' = AtSandbox(e)
                               /\ e # t => Holding(e)' = Holding(e)
        /\ Holding(t)' = Holding(t) \ {r}
    BY <1>0, <2>0, <2>1 DEF Active, Holding, AtSandbox
  <2>3. Cardinality(Holding(t)') = Cardinality(Holding(t)) - 1
    <3>1. Cardinality(Holding(t) \ {r}) = Cardinality(Holding(t)) - 1
      BY <1>0, <2>2, FS_RemoveElement
    <3> QED BY <2>2, <3>1
  <2>4. ASSUME NEW e \in Endpoint
        PROVE  capacity'[e] + Cardinality(Holding(e)') = SandboxParallelism
    <3>1. CASE e = t
      <4>1. capacity[t] \in Nat /\ capacity'[t] = capacity[t] + 1
        BY <1>0, <2>1 DEF TypeOK
      <4>2. capacity[t] + Cardinality(Holding(t)) = SandboxParallelism
        BY <1>0 DEF Counts, ConcurrencyLimit
      <4>3. Cardinality(Holding(t)) \in Nat
        BY <1>0
      <4>4. capacity'[t] + Cardinality(Holding(t)') = capacity[t] + Cardinality(Holding(t))
        BY <2>3, <4>1, <4>3
      <4> QED BY <3>1, <4>2, <4>4
    <3>2. CASE e # t
      BY <1>0, <2>1, <2>2, <3>2 DEF Counts, ConcurrencyLimit, TypeOK
    <3> QED BY <3>1, <3>2
  <2> QED BY <1>0, <2>1, <2>2, <2>4
       DEF Counts, InflightMatches, ConcurrencyLimit, EndpointCountsRequests
<1>5. CASE CountInFlight(r)
  <2>0. PICK t \in Endpoint : target[r] = t
    BY <1>0, <1>5 DEF CountInFlight, At
  <2>1. /\ pc[r] = "took" /\ target' = target
        /\ \A q \in Request : pc'[q] = IF q = r THEN "proxying" ELSE pc[q]
        /\ InFlight' = [InFlight EXCEPT ![t] = @ + 1]
        /\ UNCHANGED <<inflightRequests, capacity>>
    BY <1>0, <1>5, <2>0 DEF TypeOK, CountInFlight, At
  <2>2. /\ Active' = Active /\ r \notin AtSandbox(t)
        /\ \A e \in Endpoint : /\ Holding(e)' = Holding(e)
                               /\ e # t => AtSandbox(e)' = AtSandbox(e)
        /\ AtSandbox(t)' = AtSandbox(t) \cup {r}
    BY <1>0, <2>0, <2>1 DEF Active, Holding, AtSandbox
  <2>3. Cardinality(AtSandbox(t)') = Cardinality(AtSandbox(t)) + 1
    <3>1. Cardinality(AtSandbox(t) \cup {r}) = Cardinality(AtSandbox(t)) + 1
      BY <1>0, <2>2, FS_AddElement
    <3> QED BY <2>2, <3>1
  <2>4. ASSUME NEW e \in Endpoint
        PROVE  InFlight'[e] = Cardinality(AtSandbox(e)')
    <3>1. CASE e = t
      BY <1>0, <2>1, <2>2, <2>3, <3>1, RequestPathAssumption DEF Counts, EndpointCountsRequests, TypeOK
    <3>2. CASE e # t
      BY <1>0, <2>1, <2>2, <3>2 DEF Counts, EndpointCountsRequests, TypeOK
    <3> QED BY <3>1, <3>2
  <2> QED BY <1>0, <2>1, <2>2, <2>4
       DEF Counts, InflightMatches, ConcurrencyLimit, EndpointCountsRequests
<1>6. CASE DecrementInFlight(r)
  <2>0. PICK t \in Endpoint : target[r] = t
    BY <1>0, <1>6 DEF DecrementInFlight, At
  <2>1. PICK to \in {"last", "returned"} :
        /\ pc[r] = "proxying" /\ target' = target
        /\ \A q \in Request : pc'[q] = IF q = r THEN to ELSE pc[q]
        /\ InFlight' = [InFlight EXCEPT ![t] = @ - 1]
        /\ UNCHANGED <<inflightRequests, capacity>>
    BY <1>0, <1>6, <2>0 DEF TypeOK, DecrementInFlight
  <2>2. /\ Active' = Active /\ r \in AtSandbox(t)
        /\ \A e \in Endpoint : /\ Holding(e)' = Holding(e)
                               /\ e # t => AtSandbox(e)' = AtSandbox(e)
        /\ AtSandbox(t)' = AtSandbox(t) \ {r}
    BY <1>0, <2>0, <2>1 DEF Active, Holding, AtSandbox
  <2>3. Cardinality(AtSandbox(t)') = Cardinality(AtSandbox(t)) - 1
    <3>1. Cardinality(AtSandbox(t) \ {r}) = Cardinality(AtSandbox(t)) - 1
      BY <1>0, <2>2, FS_RemoveElement
    <3> QED BY <2>2, <3>1
  <2>4. ASSUME NEW e \in Endpoint
        PROVE  InFlight'[e] = Cardinality(AtSandbox(e)')
    <3>1. CASE e = t
      BY <1>0, <2>1, <2>2, <2>3, <3>1, RequestPathAssumption DEF Counts, EndpointCountsRequests, TypeOK
    <3>2. CASE e # t
      BY <1>0, <2>1, <2>2, <3>2 DEF Counts, EndpointCountsRequests, TypeOK
    <3> QED BY <3>1, <3>2
  <2> QED BY <1>0, <2>1, <2>2, <2>4
       DEF Counts, InflightMatches, ConcurrencyLimit, EndpointCountsRequests
<1>7. ASSUME triggerAutoscaling(r) \/ CheckEndpoints(r) \/ Enqueue(r) \/ ReceiveOutcome(r)
      PROVE  Counts'
  <2>1. PICK to \in {"check", "enqueue", "queued", "balance", "leave"} :
        /\ pc[r] \in {"trigger", "check", "enqueue", "queued"}
        /\ target' = target
        /\ \A q \in Request : pc'[q] = IF q = r THEN to ELSE pc[q]
        /\ UNCHANGED <<inflightRequests, capacity, InFlight>>
    <3>1. /\ pc[r] \in {"trigger", "check", "enqueue", "queued"}
          /\ \E to \in {"check", "enqueue", "queued", "balance", "leave"} : pc' = [pc EXCEPT ![r] = to]
      BY <1>7 DEF triggerAutoscaling, CheckEndpoints, Enqueue, ReceiveOutcome, At
    <3>2. UNCHANGED <<target, inflightRequests, capacity, InFlight>>
      BY <1>7 DEF triggerAutoscaling, CheckEndpoints, Enqueue, ReceiveOutcome, fields
    <3> QED BY <1>0, <3>1, <3>2 DEF TypeOK
  <2>2. /\ Active' = Active
        /\ \A e \in Endpoint : Holding(e)' = Holding(e) /\ AtSandbox(e)' = AtSandbox(e)
    BY <1>0, <2>1 DEF Active, Holding, AtSandbox
  <2> QED BY <1>0, <2>1, <2>2, QuietStep
<1>8. ASSUME CheckDrained(r) \/ SignalDrained(r) PROVE Counts'
  <2>1. PICK to \in {"giveBack", "stuck", "signal"} :
        /\ pc[r] \in {"last", "returned", "signal"}
        /\ target' = target
        /\ \A q \in Request : pc'[q] = IF q = r THEN to ELSE pc[q]
        /\ UNCHANGED <<inflightRequests, capacity, InFlight>>
    BY <1>0, <1>8 DEF TypeOK, CheckDrained, SignalDrained, At, fields
  <2>2. /\ Active' = Active
        /\ \A e \in Endpoint : Holding(e)' = Holding(e) /\ AtSandbox(e)' = AtSandbox(e)
    BY <1>0, <2>1 DEF Active, Holding, AtSandbox
  <2> QED BY <1>0, <2>1, <2>2, QuietStep
<1>9. ASSUME runLoadBalancingAlgorithm(r) \/ CapacityTimeout(r) PROVE Counts'
  <2>1. /\ pc[r] \in {"balance", "capacity"} /\ UNCHANGED <<inflightRequests, capacity, InFlight>>
        /\ \A q \in Request \ {r} : pc'[q] = pc[q] /\ target'[q] = target[q]
        /\ pc'[r] \in {"capacity", "panic", "balance", "leave"}
    BY <1>0, <1>9 DEF TypeOK, runLoadBalancingAlgorithm, CapacityTimeout, fields
  <2>2. /\ Active' = Active
        /\ \A e \in Endpoint : Holding(e)' = Holding(e) /\ AtSandbox(e)' = AtSandbox(e)
    BY <1>0, <2>1 DEF Active, Holding, AtSandbox
  <2> QED BY <1>0, <2>1, <2>2, QuietStep
<1>10. CASE contextTerminationHandler(r)
  BY <1>0, <1>10, QuietStep
     DEF contextTerminationHandler, handlers, fields, Active, Holding, AtSandbox
<1> QED BY <1>1, <1>2, <1>3, <1>4, <1>5, <1>6, <1>7, <1>8, <1>9, <1>10 DEF HandlerStep

\* Accounting is inductive.
LEMMA AccountingStep ==
  ASSUME Accounting, [Next]_vars PROVE Accounting'
<1>1. ASSUME NEW r \in Request, TryWarmStart(r) \/ HandlerStep(r) \/ contextTerminationHandler(r)
      PROVE  Accounting'
  BY <1>1, HandlerTypes, HandlerCounts DEF Accounting, Counts
<1>2. ASSUME UNCHANGED vars \/ MetricsStep \/ AddStep \/ cleanCache
           \/ (\E patch \in Patches, s \in Sandbox : AddEndpoints(patch, s))
           \/ (\E s \in Sandbox : DrainEndpoints(s)) \/ removeEndpoints
           \/ \E e \in Endpoint : DrainingStep(e)
      PROVE  Accounting'
  <2>1. TypeOK' /\ UNCHANGED <<handlers, capacity, InFlight, inflightRequests>>
    BY <1>2, OtherTypes
  <2>2. Routing' /\ Active' = Active /\ \A e \in Endpoint : Holding(e)' = Holding(e) /\ AtSandbox(e)' = AtSandbox(e)
    BY <2>1 DEF handlers, Accounting, Routing, Active, Holding, AtSandbox
  <2>3. Counts'
    BY <2>1, <2>2, QuietStep DEF Accounting, Counts
  <2> QED BY <2>1, <2>2, <2>3 DEF Accounting, Counts
<1> QED BY <1>1, <1>2 DEF Next

\* It holds of a data plane that has just learned of the function.
LEMMA AccountingInit == Init => Accounting
<1> SUFFICES ASSUME Init PROVE Accounting
  OBVIOUS
<1>1. TypeOK /\ Routing
  BY RequestPathAssumption DEF Init, TypeOK, Routing
<1>2. Active = {} /\ \A e \in Endpoint : Holding(e) = {} /\ AtSandbox(e) = {}
  BY DEF Init, Active, Holding, AtSandbox
<1>3. InflightMatches
  BY <1>2, FS_EmptySet DEF Init, InflightMatches
<1>4. ASSUME NEW e \in Endpoint
      PROVE  /\ capacity[e] + Cardinality(Holding(e)) = SandboxParallelism
             /\ InFlight[e] = Cardinality(AtSandbox(e))
  <2>1. Cardinality(Holding(e)) = 0 /\ Cardinality(AtSandbox(e)) = 0
    BY <1>2, FS_EmptySet
  <2>2. capacity[e] = SandboxParallelism /\ InFlight[e] = 0
    BY DEF Init
  <2> QED BY <2>1, <2>2, RequestPathAssumption
<1>5. IsFiniteSet(Active)
  BY <1>2, FS_EmptySet
<1> QED BY <1>1, <1>3, <1>4, <1>5 DEF Accounting, ConcurrencyLimit, EndpointCountsRequests

\* The handlers, the deferred calls, AddEndpoints, DrainEndpoints and the
\* metrics loop keep every variable in its type: no cold start channel
\* overflows, no handler tries more often than LoadBalancingRetries, and an
\* endpoint has at most SandboxParallelism tokens.
THEOREM TypeCorrect == Spec => []TypeOK
BY AccountingInit, AccountingStep, PTL DEF Spec, Accounting

\* The metric the autoscaler scales by (scalingMetric.inflightRequests) is the
\* number of handlers that have not returned, however they are interleaved
\* and whichever way they leave.
THEOREM MetricIsExact == Spec => []InflightMatches
BY AccountingInit, AccountingStep, PTL DEF Spec, Accounting

\* The tokens in the Capacity channel of an endpoint and the handlers that
\* hold one are SandboxParallelism together, whatever is drained, cleaned,
\* sent again or times out. (A sandbox that is sent again has two endpoints.)
THEOREM EndpointsAreNotOverloaded == Spec => []ConcurrencyLimit
BY AccountingInit, AccountingStep, PTL DEF Spec, Accounting

\* An endpoint's InFlight, by which DrainEndpoints and the last request decide
\* that it is drained, is the number of requests at its sandbox.
THEOREM EndpointsCount == Spec => []EndpointCountsRequests
BY AccountingInit, AccountingStep, PTL DEF Spec, Accounting
=============================================================================
