------------------------ MODULE ServiceScalingProofs ------------------------
(***************************************************************************)
(* Theorems of ServiceScaling, for every finite set of sandboxes and,      *)
(* unless one says otherwise, every upper bound of the scale and every     *)
(* number of sandboxes that fail by themselves.                            *)
(***************************************************************************)
EXTENDS ServiceScaling, FiniteSetTheorems, TLAPS

----------------------------------------------------------------------------
(* Type correctness *)

\* Sets of sandboxes are finite.
LEMMA FiniteSandboxes ==
  ASSUME NEW S \in SUBSET Sandbox PROVE IsFiniteSet(S) /\ Cardinality(S) \in Nat
BY ScalingAssumption, FS_Subset, FS_CardinalityType

\* Goroutines work on sandboxes, and identities that are not in use are idle.
LEMMA CreatingTypes ==
  /\ Creating \in SUBSET Sandbox /\ Unused \in SUBSET Sandbox
  /\ Failed \in SUBSET Sandbox /\ Handled \in SUBSET Failed /\ Pending \in SUBSET Creating
BY DEF Creating, Unused, Failed, Handled, Pending

\* The list of all endpoints adds a copy of each one, or of none.
LEMMA SendAllAdds ==
  ASSUME TypeOK, NEW E, SendAll(E)
  PROVE  /\ upstream' \in [Sandbox -> Nat] /\ resent' \in [Sandbox -> Nat]
         /\ \A t \in Sandbox : \/ upstream'[t] = upstream[t] /\ resent'[t] = resent[t]
                               \/ upstream'[t] = upstream[t] + 1 /\ resent'[t] = resent[t] + 1
BY DEF SendAll, TypeOK, list

\* A step of the autoscaler, of ScalingControllerLoop, of RegisterDataplane or of
\* DeregisterService keeps the types.
LEMMA LoopTypes ==
  ASSUME TypeOK,
         \/ OnMetricsReceive \/ (\E d \in 0..ScalingUpperBound : scalingCycle(d)) \/ SendOnClosed
         \/ LoopStep \/ DownScalingAllowed \/ RegisterDataplane
         \/ removeServiceFromDataplane \/ CloseDesiredStateChannel \/ UNCHANGED vars
  PROVE  TypeOK'
<1> USE ScalingAssumption
    DEF TypeOK, service, pause, loopVars, scale, creators, evictions, outside, list
<1>1. CASE OnMetricsReceive
  BY <1>1 DEF OnMetricsReceive
<1>2. ASSUME NEW d \in 0..ScalingUpperBound, scalingCycle(d) PROVE TypeOK'
  BY <1>2 DEF scalingCycle
<1>3. CASE SendOnClosed
  BY <1>3 DEF SendOnClosed
<1>4. CASE ReceiveFromClosed
  BY <1>4 DEF ReceiveFromClosed
<1>5. CASE SwapScale
  BY <1>5 DEF SwapScale
<1>6. CASE doUpscaling
  <2>1. PICK new \in SUBSET Unused :
          /\ creator' = [s \in Sandbox |-> IF s \in new THEN "placing" ELSE creator[s]]
          /\ rpcFailed' = rpcFailed \ new
          /\ resent' = [s \in Sandbox |-> IF s \in new THEN 0 ELSE resent[s]]
    BY <1>6 DEF doUpscaling
  <2> QED BY <1>6, <2>1 DEF doUpscaling
<1>7. CASE doDownscaling
  <2>1. PICK victims \in SUBSET Endpoints :
          /\ Endpoints' = Endpoints \ victims
          /\ draining' = draining \cup ({victims} \ {{}})
    BY <1>7 DEF doDownscaling, Victims
  <2> QED BY <1>7, <2>1 DEF doDownscaling
<1>8. CASE NothingToScale
  BY <1>8 DEF NothingToScale
<1>9. CASE UpscalingDone
  BY <1>9 DEF UpscalingDone
<1>10. CASE removeServiceFromDataplane
  <2>1. upstream' \in [Sandbox -> Nat]
    BY <1>10 DEF removeServiceFromDataplane
  <2>2. lockLeaked' \in BOOLEAN /\ deployed' \in BOOLEAN
    BY <1>10 DEF removeServiceFromDataplane
  <2> QED BY <1>10, <2>1, <2>2 DEF removeServiceFromDataplane
<1>11. CASE CloseDesiredStateChannel
  BY <1>11 DEF CloseDesiredStateChannel
<1>12. CASE UNCHANGED vars
  BY <1>12 DEF vars
<1>13. CASE DownScalingAllowed
  BY <1>13 DEF DownScalingAllowed
<1>14. CASE RegisterDataplane
  <2>1. upstream' \in [Sandbox -> Nat] /\ resent' \in [Sandbox -> Nat]
    BY <1>14, SendAllAdds DEF RegisterDataplane
  <2> QED BY <1>14, <2>1 DEF RegisterDataplane
<1> QED BY <1>1, <1>2, <1>3, <1>4, <1>5, <1>6, <1>7, <1>8, <1>9, <1>10, <1>11, <1>12, <1>13, <1>14 DEF LoopStep

\* A step of a goroutine of doUpscaling keeps the types.
LEMMA GoroutineTypes ==
  ASSUME TypeOK, NEW s \in Sandbox, GoroutineStep(s) PROVE TypeOK'
<1> USE ScalingAssumption
    DEF TypeOK, service, pause, loopVars, scale, creators, evictions, outside, list, Goroutine
<1>1. CASE CreationFails(s)
  BY <1>1 DEF CreationFails
<1>2. CASE CreateSandboxRPCFails(s)
  BY <1>2 DEF CreateSandboxRPCFails
<1>3. CASE CreateSandbox(s)
  BY <1>3 DEF CreateSandbox
<1>4. CASE ReadEndpoints(s)
  BY <1>4 DEF ReadEndpoints
<1>5. CASE AppendEndpoint(s)
  BY <1>5 DEF AppendEndpoint
<1>6. CASE updateEndpoints(s)
  <2>1. upstream' \in [Sandbox -> Nat]
    BY <1>6 DEF updateEndpoints
  <2>2. rpcFailed' \in SUBSET Sandbox
    BY <1>6 DEF updateEndpoints
  <2> QED BY <1>6, <2>1, <2>2 DEF updateEndpoints
<1> QED BY <1>1, <1>2, <1>3, <1>4, <1>5, <1>6 DEF GoroutineStep

\* An eviction and a sandbox that fails keep the types.
LEMMA SandboxTypes ==
  ASSUME TypeOK, NEW v, NEW s,
         \/ v \in draining /\ drainSandbox(v)
         \/ s \in Sandbox /\ (deleteSandbox(s) \/ SandboxFails(s) \/ LoseReport(s))
  PROVE  TypeOK'
<1> USE ScalingAssumption
    DEF TypeOK, service, pause, loopVars, scale, creators, evictions, outside, list
<1>1. ASSUME v \in draining, drainSandbox(v) PROVE TypeOK'
  <2>1. Removed(v) \in [Sandbox -> Nat]
    BY DEF Removed
  <2>2. upstream' \in [Sandbox -> Nat]
    BY <1>1, <2>1 DEF drainSandbox
  <2> QED BY <1>1, <2>2 DEF drainSandbox
<1>2. CASE s \in Sandbox /\ deleteSandbox(s)
  BY <1>2 DEF deleteSandbox
<1>3. CASE s \in Sandbox /\ SandboxFails(s)
  BY <1>3 DEF SandboxFails
<1>4. CASE s \in Sandbox /\ LoseReport(s)
  BY <1>4 DEF LoseReport
<1> QED BY <1>1, <1>2, <1>3, <1>4

\* HandleFailure keeps the types, and a report is handled once.
LEMMA FailureTypes ==
  ASSUME TypeOK, NEW s \in Sandbox, HandleFailure(s)
  PROVE  /\ TypeOK' /\ Failed' = Failed
         /\ Cardinality(Handled) \in Nat /\ Cardinality(Handled') = Cardinality(Handled) + 1
<1> USE ScalingAssumption
    DEF TypeOK, service, pause, loopVars, scale, creators, evictions, outside, list
<1>1. report[s] = "sent" /\ report' = [report EXCEPT ![s] = "handled"]
  BY DEF HandleFailure
<1>2. Handled' = Handled \cup {s} /\ s \notin Handled /\ Failed' = Failed
  BY <1>1 DEF Handled, Failed
<1>3. Cardinality(Handled) \in Nat /\ Cardinality(Handled') = Cardinality(Handled) + 1
  <2>1. IsFiniteSet(Handled)
    BY CreatingTypes, FiniteSandboxes
  <2> QED BY <1>2, <2>1, FS_AddElement, FS_CardinalityType
<1>4. upstream' \in [Sandbox -> Nat] /\ resent' \in [Sandbox -> Nat]
  BY SendAllAdds DEF HandleFailure
<1>5. Cardinality(Endpoints \cap {s}) \in Int
  BY FiniteSandboxes
<1>6. ActualScale' \in Int
  BY <1>5 DEF HandleFailure
<1>7. TypeOK'
  <2>1. /\ UNCHANGED <<service, pause, loopVars, creators, evictions, running, rpcFailed>>
        /\ Endpoints' \in SUBSET Sandbox
    BY DEF HandleFailure
  <2>2. report' \in [Sandbox -> {"none", "sent", "handled", "lost"}]
    BY <1>1
  <2> QED BY <1>4, <1>6, <2>1, <2>2
<1> QED BY <1>2, <1>3, <1>7

----------------------------------------------------------------------------
(* Endpoints are sent once *)

\* The steps of the autoscaler, the loop and DeregisterService keep SentOnce:
\* doUpscaling takes identities that nobody knows, and the loop goes on only
\* when its goroutines have ended.
LEMMA LoopSentOnce ==
  ASSUME TypeOK, SentOnce,
         \/ OnMetricsReceive \/ (\E d \in 0..ScalingUpperBound : scalingCycle(d)) \/ SendOnClosed
         \/ LoopStep \/ DownScalingAllowed \/ RegisterDataplane
         \/ removeServiceFromDataplane \/ CloseDesiredStateChannel \/ UNCHANGED vars
  PROVE  SentOnce'
<1> USE DEF service, pause, loopVars, scale, creators, evictions, outside, list
<1>0. Cardinality(Handled) \in Nat
  BY CreatingTypes, FiniteSandboxes
<1>1. ASSUME \/ OnMetricsReceive \/ SendOnClosed \/ CloseDesiredStateChannel
             \/ DownScalingAllowed \/ UNCHANGED vars
      PROVE  SentOnce'
  <2>1. UNCHANGED <<loop, creator, draining, killing, running, report, list, registrations>>
    BY <1>1 DEF OnMetricsReceive, SendOnClosed, CloseDesiredStateChannel, DownScalingAllowed, vars
  <2> QED BY <2>1 DEF SentOnce, Creating, Evicted, Failed, Handled
<1>2. ASSUME (\E d \in 0..ScalingUpperBound : scalingCycle(d)) \/ ReceiveFromClosed \/ SwapScale
               \/ NothingToScale \/ UpscalingDone
      PROVE  SentOnce'
  <2>1. Creating = {} /\ UNCHANGED <<creator, draining, killing, running, report, list, registrations>>
    BY <1>2 DEF scalingCycle, ReceiveFromClosed, SwapScale, NothingToScale, UpscalingDone, SentOnce
  <2> QED BY <2>1 DEF SentOnce, Creating, Evicted, Failed, Handled
<1>3. CASE doUpscaling
  <2>1. PICK new \in SUBSET Unused :
          /\ creator' = [s \in Sandbox |-> IF s \in new THEN "placing" ELSE creator[s]]
          /\ resent' = [s \in Sandbox |-> IF s \in new THEN 0 ELSE resent[s]]
    BY <1>3 DEF doUpscaling
  <2>2. loop' = "upscaling" /\ UNCHANGED <<draining, killing, running, report, upstream, registrations>>
    BY <1>3 DEF doUpscaling
  <2>3. \A s \in new : s \in Sandbox /\ s \notin Evicted /\ s \notin running /\ upstream[s] = 0 /\ report[s] = "none"
    BY DEF Unused
  <2>4. Creating' = Creating \cup new
    BY <2>1, <2>3 DEF Creating, TypeOK
  <2>5. Evicted' = Evicted /\ Failed' = Failed /\ Handled' = Handled
    BY <2>2 DEF Evicted, Failed, Handled
  <2>6. \A s \in Sandbox : /\ upstream'[s] <= resent'[s] + 1 /\ resent'[s] <= Cardinality(Handled') + registrations'
                           /\ s \in Creating' => upstream'[s] <= resent'[s]
    BY <1>0, <2>1, <2>2, <2>3, <2>4, <2>5 DEF SentOnce, TypeOK
  <2> QED BY <2>1, <2>2, <2>3, <2>4, <2>5, <2>6, CreatingTypes DEF SentOnce
<1>4. CASE doDownscaling
  <2>1. Creating = {} /\ UNCHANGED <<creator, running, report, list, registrations>>
    BY <1>4 DEF doDownscaling, SentOnce
  <2>2. Creating' = {} /\ Failed' = Failed /\ Handled' = Handled
    BY <2>1 DEF Creating, Failed, Handled
  <2> QED BY <2>1, <2>2 DEF SentOnce
<1>5. CASE removeServiceFromDataplane
  <2>1. UNCHANGED <<loop, creator, draining, killing, running, report, resent, registrations>>
    BY <1>5 DEF removeServiceFromDataplane
  <2>2. \A s \in Sandbox : upstream'[s] \in {0, upstream[s]}
    BY <1>5 DEF removeServiceFromDataplane
  <2>3. Creating' = Creating /\ Evicted' = Evicted /\ Failed' = Failed /\ Handled' = Handled
    BY <2>1 DEF Creating, Evicted, Failed, Handled
  <2>4. \A s \in Sandbox : upstream'[s] <= upstream[s] /\ upstream'[s] \in Nat
    BY <2>2 DEF TypeOK
  <2> QED BY <1>0, <2>1, <2>3, <2>4, CreatingTypes DEF SentOnce, TypeOK
<1>6. CASE RegisterDataplane
  <2>1. /\ UNCHANGED <<loop, creator, draining, killing, running, report>> /\ registrations' = registrations + 1
        /\ SendAll(Endpoints)
    BY <1>6 DEF RegisterDataplane
  <2>2. Creating' = Creating /\ Evicted' = Evicted /\ Failed' = Failed /\ Handled' = Handled
    BY <2>1 DEF Creating, Evicted, Failed, Handled
  <2>3. \A t \in Sandbox : \/ upstream'[t] = upstream[t] /\ resent'[t] = resent[t]
                           \/ upstream'[t] = upstream[t] + 1 /\ resent'[t] = resent[t] + 1
    BY <2>1, SendAllAdds
  <2>4. \A t \in Sandbox : /\ upstream'[t] <= resent'[t] + 1 /\ resent'[t] <= Cardinality(Handled') + registrations'
                           /\ t \in Creating' => upstream'[t] <= resent'[t]
    BY <1>0, <2>1, <2>2, <2>3 DEF SentOnce, TypeOK
  <2> QED BY <2>1, <2>2, <2>4, CreatingTypes DEF SentOnce
<1> QED BY <1>1, <1>2, <1>3, <1>4, <1>5, <1>6 DEF LoopStep

\* So it is with the goroutines: the endpoint that updateEndpoints sends was
\* sent in lists of all only, and the goroutine ends.
LEMMA GoroutineSentOnce ==
  ASSUME TypeOK, SentOnce, NEW s \in Sandbox, GoroutineStep(s) PROVE SentOnce'
<1> USE DEF service, pause, loopVars, scale, creators, evictions, outside, list, Goroutine
<1>0. Cardinality(Handled) \in Nat
  BY CreatingTypes, FiniteSandboxes
<1>1. UNCHANGED <<loop, draining, killing, report, resent, registrations>>
  BY DEF GoroutineStep, CreationFails, CreateSandboxRPCFails, CreateSandbox, ReadEndpoints,
         AppendEndpoint, updateEndpoints
<1>2. PICK to \in {"idle", "created", "appending", "appended"} :
        creator[s] # "idle" /\ creator' = [creator EXCEPT ![s] = to]
  BY DEF GoroutineStep, CreationFails, CreateSandboxRPCFails, CreateSandbox, ReadEndpoints,
         AppendEndpoint, updateEndpoints
<1>3. /\ Creating' = IF to = "idle" THEN Creating \ {s} ELSE Creating
      /\ Evicted' = Evicted /\ Failed' = Failed /\ Handled' = Handled
  BY <1>1, <1>2 DEF Creating, Evicted, Failed, Handled, TypeOK
<1>4. \/ running' = running
      \/ running' = running \cup {s} /\ creator[s] = "placing"
  BY DEF GoroutineStep, CreationFails, CreateSandboxRPCFails, CreateSandbox, ReadEndpoints,
         AppendEndpoint, updateEndpoints
<1>5. \/ upstream' = upstream
      \/ upstream' = [upstream EXCEPT ![s] = @ + 1] /\ creator'[s] = "idle" /\ s \in Creating
  BY DEF GoroutineStep, CreationFails, CreateSandboxRPCFails, CreateSandbox, ReadEndpoints,
         AppendEndpoint, updateEndpoints, Creating, TypeOK
<1>6. /\ \A t \in Creating' : upstream'[t] <= resent'[t]
      /\ \A t \in Sandbox : upstream'[t] <= resent'[t] + 1
  <2>1. CASE upstream' = upstream
    BY <1>1, <1>3, <2>1 DEF SentOnce
  <2>2. CASE upstream' = [upstream EXCEPT ![s] = @ + 1] /\ creator'[s] = "idle" /\ s \in Creating
    <3>1. upstream[s] <= resent[s] /\ to = "idle"
      BY <1>2, <2>2 DEF SentOnce, TypeOK
    <3> QED BY <1>1, <1>3, <2>2, <3>1, CreatingTypes DEF SentOnce, TypeOK
  <2> QED BY <1>5, <2>1, <2>2
<1>7. \A t \in Sandbox : /\ creator'[t] = "placing" => t \notin running'
                         /\ t \in running' \/ creator'[t] = "placing" => report'[t] = "none"
  BY <1>1, <1>2, <1>4 DEF SentOnce, TypeOK
<1> QED BY <1>1, <1>3, <1>6, <1>7 DEF SentOnce

\* Evictions and failures keep SentOnce.
LEMMA SandboxSentOnce ==
  ASSUME TypeOK, SentOnce, NEW v, NEW s,
         \/ v \in draining /\ drainSandbox(v)
         \/ s \in Sandbox /\ (deleteSandbox(s) \/ SandboxFails(s) \/ HandleFailure(s) \/ LoseReport(s))
  PROVE  SentOnce'
<1> USE DEF service, pause, loopVars, scale, creators, evictions, outside, list
<1>0. /\ Cardinality(Handled) \in Nat /\ Cardinality(Failed) \in Nat /\ IsFiniteSet(Failed)
      /\ Creating \in SUBSET Sandbox
  BY CreatingTypes, FiniteSandboxes
<1>1. ASSUME v \in draining, drainSandbox(v) PROVE SentOnce'
  <2>1. UNCHANGED <<loop, creator, running, report, resent, registrations>>
    BY <1>1 DEF drainSandbox
  <2>2. Creating' = Creating /\ Failed' = Failed /\ Handled' = Handled
    BY <2>1 DEF Creating, Failed, Handled
  <2>3. Evicted' \subseteq Evicted
    BY <1>1 DEF drainSandbox, Evicted
  <2>4. \A t \in Sandbox : upstream'[t] \in {upstream[t], 0} \/ (upstream[t] > 0 /\ upstream'[t] = upstream[t] - 1)
    BY <1>1 DEF drainSandbox, Removed
  <2>5. \A t \in Sandbox : upstream'[t] \in Nat /\ upstream'[t] <= upstream[t]
    BY <2>4 DEF TypeOK
  <2>6. \A t \in Sandbox : /\ upstream'[t] <= resent'[t] + 1
                           /\ t \in Creating => upstream'[t] <= resent'[t]
    BY <2>1, <2>5 DEF SentOnce, TypeOK
  <2> QED BY <1>0, <2>1, <2>2, <2>3, <2>6 DEF SentOnce
<1>2. CASE s \in Sandbox /\ deleteSandbox(s)
  <2>1. UNCHANGED <<loop, creator, report, list, registrations>> /\ running' \subseteq running
    BY <1>2 DEF deleteSandbox
  <2>2. Creating' = Creating /\ Failed' = Failed /\ Handled' = Handled
    BY <2>1 DEF Creating, Failed, Handled
  <2>3. Evicted' \subseteq Evicted
    BY <1>2 DEF deleteSandbox, Evicted
  <2> QED BY <2>1, <2>2, <2>3 DEF SentOnce
<1>3. CASE s \in Sandbox /\ SandboxFails(s)
  <2>1. UNCHANGED <<loop, creator, draining, killing, list, registrations>> /\ running' = running \ {s}
    BY <1>3 DEF SandboxFails
  <2>2. report[s] = "none" /\ report' = [report EXCEPT ![s] = "sent"] /\ creator[s] # "placing"
    BY <1>3 DEF SandboxFails, SentOnce
  <2>3. /\ Creating' = Creating /\ Evicted' = Evicted /\ Handled' = Handled
        /\ Failed' = Failed \cup {s} /\ s \notin Failed
    <3>1. \A t \in Sandbox : report'[t] = IF t = s THEN "sent" ELSE report[t]
      BY <1>3, <2>2 DEF TypeOK
    <3>2. Creating' = Creating /\ Evicted' = Evicted
      BY <2>1 DEF Creating, Evicted
    <3>3. Handled' = Handled
      BY <2>2, <3>1 DEF Handled
    <3>4. Failed' = Failed \cup {s} /\ s \notin Failed
      BY <1>3, <2>2, <3>1 DEF Failed
    <3> QED BY <3>2, <3>3, <3>4
  <2>4. Cardinality(Failed') = Cardinality(Failed) + 1
    BY <1>0, <2>3, FS_AddElement
  <2>5. Cardinality(Failed') <= MaxFailures
    BY <1>0, <1>3, <2>4, ScalingAssumption DEF SandboxFails, Failed
  <2>6. \A t \in Sandbox : /\ creator'[t] = "placing" => t \notin running'
                           /\ t \in running' \/ creator'[t] = "placing" => report'[t] = "none"
    BY <2>1, <2>2 DEF SentOnce, TypeOK
  <2> QED BY <2>1, <2>3, <2>5, <2>6 DEF SentOnce
<1>4. CASE s \in Sandbox /\ HandleFailure(s)
  <2>1. /\ UNCHANGED <<loop, creator, draining, killing, running, registrations>> /\ loop # "upscaling"
        /\ report[s] = "sent" /\ report' = [report EXCEPT ![s] = "handled"]
    BY <1>4 DEF HandleFailure, LockFree
  <2>2. Creating = {} /\ Creating' = {} /\ Failed' = Failed
    BY <2>1 DEF Creating, Failed, SentOnce, TypeOK
  <2>3. \A t \in Sandbox : upstream'[t] <= resent'[t] + 1 /\ resent'[t] <= Cardinality(Handled') + registrations'
    <3>1. \A t \in Sandbox : \/ upstream'[t] = upstream[t] /\ resent'[t] = resent[t]
                             \/ upstream'[t] = upstream[t] + 1 /\ resent'[t] = resent[t] + 1
      BY <1>4, SendAllAdds DEF HandleFailure
    <3>2. Cardinality(Handled') = Cardinality(Handled) + 1
      BY <1>4, FailureTypes
    <3> QED BY <1>0, <2>1, <3>1, <3>2 DEF SentOnce, TypeOK
  <2>4. \A t \in Sandbox : /\ creator'[t] = "placing" => t \notin running'
                           /\ t \in running' \/ creator'[t] = "placing" => report'[t] = "none"
    BY <2>1 DEF SentOnce, TypeOK
  <2> QED BY <2>2, <2>3, <2>4 DEF SentOnce
<1>5. CASE s \in Sandbox /\ LoseReport(s)
  <2>1. /\ UNCHANGED <<loop, creator, draining, killing, running, list, registrations>>
        /\ report[s] = "sent" /\ report' = [report EXCEPT ![s] = "lost"]
    BY <1>5 DEF LoseReport
  <2>2. Creating' = Creating /\ Evicted' = Evicted /\ Handled' = Handled /\ Failed' = Failed
    BY <2>1 DEF Creating, Evicted, Failed, Handled, TypeOK
  <2>3. \A t \in Sandbox : /\ creator'[t] = "placing" => t \notin running'
                           /\ t \in running' \/ creator'[t] = "placing" => report'[t] = "none"
    BY <2>1 DEF SentOnce, TypeOK
  <2> QED BY <2>1, <2>2, <2>3 DEF SentOnce
<1> QED BY <1>1, <1>2, <1>3, <1>4, <1>5

\* TypeOK and SentOnce are inductive.
LEMMA TypesAndSentOnce ==
  ASSUME TypeOK, SentOnce, [Next]_vars PROVE TypeOK' /\ SentOnce'
<1>1. ASSUME \/ OnMetricsReceive \/ (\E d \in 0..ScalingUpperBound : scalingCycle(d)) \/ SendOnClosed
             \/ LoopStep \/ DownScalingAllowed \/ RegisterDataplane
         \/ removeServiceFromDataplane \/ CloseDesiredStateChannel \/ UNCHANGED vars
      PROVE  TypeOK' /\ SentOnce'
  BY <1>1, LoopTypes, LoopSentOnce
<1>2. ASSUME NEW s \in Sandbox, GoroutineStep(s) PROVE TypeOK' /\ SentOnce'
  BY <1>2, GoroutineTypes, GoroutineSentOnce
<1>3. ASSUME NEW v \in draining, drainSandbox(v) PROVE TypeOK' /\ SentOnce'
  BY <1>3, SandboxTypes, SandboxSentOnce
<1>4. ASSUME NEW s \in Sandbox, deleteSandbox(s) \/ SandboxFails(s) \/ HandleFailure(s) \/ LoseReport(s)
      PROVE  TypeOK' /\ SentOnce'
  BY <1>4, SandboxTypes, SandboxSentOnce, FailureTypes
<1> QED BY <1>1, <1>2, <1>3, <1>4 DEF Next

\* At the start nothing is created or known.
LEMMA InitSentOnce == Init => TypeOK /\ SentOnce
<1> SUFFICES ASSUME Init PROVE TypeOK /\ SentOnce
  OBVIOUS
<1>1. TypeOK
  <2>1. /\ upstream \in [Sandbox -> Nat] /\ resent \in [Sandbox -> Nat]
        /\ kept \in Nat /\ registrations \in 0..MaxRegistrations
    BY ScalingAssumption DEF Init
  <2>2. /\ creator \in [Sandbox -> {"idle", "placing", "created", "appending", "appended"}]
        /\ snapshot \in [Sandbox -> SUBSET Sandbox]
        /\ report \in [Sandbox -> {"none", "sent", "handled", "lost"}]
    BY DEF Init
  <2>3. /\ desiredCount \in 0..ScalingUpperBound /\ actualScale \in Int /\ ActualScale \in Int
    BY ScalingAssumption DEF Init
  <2>4. /\ draining \in SUBSET SUBSET Sandbox /\ Endpoints \in SUBSET Sandbox
        /\ killing \in SUBSET Sandbox /\ running \in SUBSET Sandbox /\ rpcFailed \in SUBSET Sandbox
    BY DEF Init
  <2>5. /\ deployed \in BOOLEAN /\ closed \in BOOLEAN /\ lockLeaked \in BOOLEAN /\ crashed \in BOOLEAN
        /\ autoscaler \in {"off", "first", "on"}
        /\ loop \in {"receive", "drain", "lock", "upscaling"}
    BY DEF Init
  <2>6. paused \in BOOLEAN
    BY ScalingAssumption, Zenon DEF Init
  <2> QED BY <2>1, <2>2, <2>3, <2>4, <2>5, <2>6 DEF TypeOK
<1>2. Creating = {} /\ Failed = {} /\ Handled = {}
  BY DEF Init, Creating, Failed, Handled
<1>3. Cardinality(Failed) = 0 /\ Cardinality(Handled) = 0
  BY <1>2, FS_EmptySet
<1> QED BY <1>1, <1>2, <1>3, ScalingAssumption DEF Init, SentOnce

\* The autoscaler, the scaling loop and its goroutines, HandleFailure,
\* RegisterDataplane and DeregisterService keep every variable in its type.
THEOREM TypeCorrect == Spec => []TypeOK
BY InitSentOnce, TypesAndSentOnce, PTL DEF Spec

\* The goroutines of doUpscaling run only while the loop waits for them, on
\* sandboxes that nobody evicts, and a data plane has one copy of an endpoint
\* more, at most, than the lists of all have brought it: one per failure handled
\* and one per data plane registered.
THEOREM EndpointsAreSentOnce == Spec => []SentOnce
BY InitSentOnce, TypesAndSentOnce, PTL DEF Spec

----------------------------------------------------------------------------
(* Evicted sandboxes are drained *)

\* DrainEndpoints removes one copy: the one sent when the sandbox was created,
\* or one that stands for it.
LEMMA KilledAreDrainedStep ==
  ASSUME TypeOK, SentOnce, KilledAreDrained, [Next]_vars
  PROVE  KilledAreDrained'
<1> USE DEF service, pause, loopVars, scale, creators, evictions, outside, list
<1>0. \A s \in Sandbox : upstream[s] \in Nat /\ resent[s] \in Nat /\ upstream[s] <= resent[s] + 1
  BY DEF TypeOK, SentOnce
<1>1. ASSUME UNCHANGED <<killing, list>>, rpcFailed \subseteq rpcFailed' PROVE KilledAreDrained'
  BY <1>1 DEF KilledAreDrained
<1>2. ASSUME OnMetricsReceive \/ (\E d \in 0..ScalingUpperBound : scalingCycle(d)) \/ SendOnClosed
             \/ CloseDesiredStateChannel \/ DownScalingAllowed \/ UNCHANGED vars
             \/ ReceiveFromClosed \/ SwapScale \/ doDownscaling \/ NothingToScale \/ UpscalingDone
      PROVE  KilledAreDrained'
  BY <1>1, <1>2 DEF OnMetricsReceive, scalingCycle, SendOnClosed, CloseDesiredStateChannel, vars,
     ReceiveFromClosed, SwapScale, doDownscaling, NothingToScale, UpscalingDone, DownScalingAllowed
<1>3. CASE removeServiceFromDataplane
  <2>1. /\ UNCHANGED <<killing, resent, rpcFailed>>
        /\ \A s \in Sandbox : upstream'[s] \in {0, upstream[s]}
    BY <1>3 DEF removeServiceFromDataplane
  <2> QED BY <1>0, <2>1 DEF KilledAreDrained, TypeOK
<1>4. CASE doUpscaling
  <2>1. PICK new \in SUBSET Unused :
          /\ rpcFailed' = rpcFailed \ new
          /\ resent' = [s \in Sandbox |-> IF s \in new THEN 0 ELSE resent[s]]
    BY <1>4 DEF doUpscaling
  <2>2. UNCHANGED <<killing, upstream>> /\ new \cap killing = {}
    BY <1>4, <2>1 DEF doUpscaling, Unused, Evicted
  <2> QED BY <2>1, <2>2 DEF KilledAreDrained, TypeOK
<1>5. ASSUME NEW s \in Sandbox, GoroutineStep(s) PROVE KilledAreDrained'
  <2>1. UNCHANGED <<killing, resent>> /\ rpcFailed \subseteq rpcFailed'
    BY <1>5 DEF GoroutineStep, CreationFails, CreateSandboxRPCFails, CreateSandbox, ReadEndpoints,
         AppendEndpoint, updateEndpoints
  <2>2. \/ upstream' = upstream
        \/ upstream' = [upstream EXCEPT ![s] = @ + 1] /\ s \in Creating
    BY <1>5 DEF GoroutineStep, CreationFails, CreateSandboxRPCFails, CreateSandbox, ReadEndpoints,
         AppendEndpoint, updateEndpoints, Creating, Goroutine
  <2>3. s \in Creating => s \notin killing
    BY DEF SentOnce, Evicted
  <2> QED BY <2>1, <2>2, <2>3 DEF KilledAreDrained, TypeOK
<1>6. ASSUME NEW v \in draining, drainSandbox(v) PROVE KilledAreDrained'
  <2>1. killing' = killing \cup v /\ v \in SUBSET Sandbox /\ resent' = resent
    BY <1>6 DEF drainSandbox, TypeOK
  <2>2. \/ rpcFailed' = rpcFailed \cup v /\ upstream' \in {upstream, Removed(v)}
        \/ rpcFailed' = rpcFailed /\ upstream' = Removed(v)
    BY <1>6 DEF drainSandbox
  <2>3. \A s \in Sandbox : /\ Removed(v)[s] <= upstream[s] /\ Removed(v)[s] \in Nat
                           /\ s \in v => Removed(v)[s] <= resent[s]
    BY <1>0 DEF Removed
  <2> QED BY <1>0, <2>1, <2>2, <2>3 DEF KilledAreDrained, TypeOK
<1>7. ASSUME NEW s \in Sandbox, deleteSandbox(s) PROVE KilledAreDrained'
  BY <1>7 DEF deleteSandbox, KilledAreDrained
<1>8. ASSUME NEW s \in Sandbox, SandboxFails(s) \/ LoseReport(s) PROVE KilledAreDrained'
  BY <1>1, <1>8 DEF SandboxFails, LoseReport
<1>9. ASSUME RegisterDataplane \/ \E s \in Sandbox : HandleFailure(s) PROVE KilledAreDrained'
  <2>1. UNCHANGED <<killing, rpcFailed>> /\ \E E \in SUBSET Sandbox : SendAll(E)
    BY <1>9 DEF RegisterDataplane, HandleFailure, TypeOK
  <2>2. \A t \in Sandbox : \/ upstream'[t] = upstream[t] /\ resent'[t] = resent[t]
                           \/ upstream'[t] = upstream[t] + 1 /\ resent'[t] = resent[t] + 1
    BY <2>1, SendAllAdds
  <2> QED BY <1>0, <2>1, <2>2 DEF KilledAreDrained, TypeOK
<1> QED BY <1>2, <1>3, <1>4, <1>5, <1>6, <1>7, <1>8, <1>9 DEF Next, LoopStep

\* When doDownscaling kills a sandbox on its worker node the data plane has
\* removed a copy of its endpoint, unless a call about it has failed: none is
\* left but those of lists of all, for every upper bound of the scale, and
\* however creations, evictions, failures, registrations of data planes and a
\* deregistration interleave.
THEOREM EvictionsDrain == Spec => []KilledAreDrained
<1>1. Init => KilledAreDrained
  BY DEF Init, KilledAreDrained
<1>2. TypeOK /\ SentOnce /\ KilledAreDrained /\ [Next]_vars => KilledAreDrained'
  BY KilledAreDrainedStep
<1> QED BY <1>1, <1>2, InitSentOnce, TypesAndSentOnce, PTL DEF Spec

----------------------------------------------------------------------------
(* One sandbox at a time *)

\* A step that leaves the sandboxes and who knows them alone, while the loop
\* is not about to scale.
LEMMA QuietStep ==
  ASSUME OneAtATime, NoOrphans, UNCHANGED <<creators, evictions, scale, kept, running, rpcFailed>>,
         \/ UNCHANGED loopVars
         \/ loop # "lock" /\ loop' # "lock"
  PROVE  OneAtATime' /\ NoOrphans'
<1> USE DEF creators, evictions, scale, loopVars
<1>1. Creating' = Creating /\ Pending' = Pending /\ Evicted' = Evicted
  BY DEF Creating, Pending, Evicted
<1> QED BY <1>1 DEF OneAtATime, NoOrphans

\* The steps of ScalingControllerLoop.
LEMMA LoopOneAtATime ==
  ASSUME ScalingUpperBound = 1, TypeOK, SentOnce, OneAtATime, NoOrphans, LoopStep
  PROVE  OneAtATime' /\ NoOrphans'
<1> USE DEF service, pause, loopVars, scale, creators, evictions, outside, list
<1>0. /\ IsFiniteSet(Endpoints) /\ Cardinality(Endpoints) \in Nat
      /\ Pending \in SUBSET Creating /\ Creating \in SUBSET Sandbox
  BY CreatingTypes, FiniteSandboxes DEF TypeOK
<1>1. CASE ReceiveFromClosed
  BY <1>1, QuietStep DEF ReceiveFromClosed
<1>2. CASE UpscalingDone
  BY <1>2, QuietStep DEF UpscalingDone
<1>3. ASSUME SwapScale \/ NothingToScale PROVE OneAtATime' /\ NoOrphans'
  <2>0. /\ loop' # "lock" => kept' = kept + (actualScale - desiredCount) /\ UNCHANGED ActualScale
        /\ loop' = "lock" => kept' = kept
        /\ loop # "lock" <=> loop' = "lock"
    BY <1>3 DEF SwapScale, NothingToScale
  <2>1. Creating = {} /\ Pending = {} /\ UNCHANGED <<creators, evictions, Endpoints, running, rpcFailed>>
    BY <1>0, <1>3 DEF SwapScale, NothingToScale, SentOnce
  <2>2. Creating' = {} /\ Pending' = {} /\ Evicted' = Evicted
    BY <2>1 DEF Creating, Pending, Evicted
  <2>3. Endpoints \cup Pending = Endpoints /\ Endpoints' \cup Pending' = Endpoints
    BY <2>1, <2>2
  <2>4. /\ kept' <= Cardinality(Endpoints')
        /\ loop' # "lock" => ActualScale' = Cardinality(Endpoints' \cup Pending') - kept'
        /\ loop' = "lock" => ActualScale' = desiredCount' /\ actualScale' = Cardinality(Endpoints') - kept'
    <3>1. CASE loop' = "lock"
      BY <1>3, <2>0, <2>1, <2>3, <3>1 DEF SwapScale, NothingToScale, OneAtATime
    <3>2. CASE loop' # "lock"
      <4>1. ActualScale = desiredCount /\ actualScale = Cardinality(Endpoints) - kept
        BY <2>0, <3>2 DEF OneAtATime
      <4>2. desiredCount \in Nat /\ kept \in Nat
        BY ScalingAssumption DEF TypeOK
      <4>3. kept' = Cardinality(Endpoints) - desiredCount
        BY <1>0, <2>0, <3>2, <4>1, <4>2
      <4>4. Cardinality(Endpoints') = Cardinality(Endpoints) /\ Cardinality(Endpoints' \cup Pending') = Cardinality(Endpoints)
        BY <2>1, <2>3
      <4>5. ActualScale' = desiredCount
        BY <2>0, <3>2, <4>1
      <4> QED BY <1>0, <3>2, <4>2, <4>3, <4>4, <4>5
    <3> QED BY <3>1, <3>2
  <2>5. \A s \in Sandbox : creator'[s] \notin {"appending", "appended"}
    BY <2>2 DEF Creating
  <2> QED BY <2>1, <2>2, <2>4, <2>5 DEF OneAtATime, NoOrphans
<1>4. CASE doUpscaling
  <2>1. /\ loop = "lock" /\ loop' = "upscaling" /\ actualScale < desiredCount
        /\ UNCHANGED <<ActualScale, Endpoints, snapshot, evictions, running>>
    BY <1>4 DEF doUpscaling
  <2>2. /\ Creating = {} /\ ActualScale = desiredCount /\ actualScale = Cardinality(Endpoints) - kept
        /\ kept <= Cardinality(Endpoints) /\ kept' = kept
    BY <1>4, <2>1 DEF SentOnce, OneAtATime, doUpscaling
  <2>3. actualScale = 0 /\ desiredCount = 1 /\ kept = Cardinality(Endpoints)
    BY <1>0, <2>1, <2>2 DEF TypeOK
  <2>5. PICK new \in SUBSET Unused :
          /\ Cardinality(new) = desiredCount - actualScale
          /\ creator' = [s \in Sandbox |-> IF s \in new THEN "placing" ELSE creator[s]]
          /\ rpcFailed' = rpcFailed \ new
    BY <1>4 DEF doUpscaling
  <2>6. Cardinality(new) = 1 /\ IsFiniteSet(new) /\ new \in SUBSET Sandbox
    BY <2>3, <2>5, CreatingTypes, FiniteSandboxes
  <2>7. PICK x : new = {x}
    BY <2>6, FS_Singleton
  <2>8. Creating' = new /\ Pending' = new /\ Evicted' = Evicted
    BY <2>1, <2>2, <2>5, <2>6 DEF Creating, Pending, Evicted, TypeOK
  <2>9. new \cap running = {} /\ new \cap Endpoints = {}
    BY <2>5 DEF Unused
  <2>10. Endpoints' \cup Pending' = Endpoints \cup {x} /\ x \notin Endpoints
    BY <2>1, <2>7, <2>8, <2>9
  <2>11. ActualScale' = Cardinality(Endpoints' \cup Pending') - kept' /\ kept' <= Cardinality(Endpoints')
    <3>1. Cardinality(Endpoints \cup {x}) = Cardinality(Endpoints) + 1
      BY <1>0, <2>10, FS_AddElement
    <3>2. kept' = Cardinality(Endpoints) /\ ActualScale' = 1 /\ Cardinality(Endpoints') = Cardinality(Endpoints)
      BY <2>1, <2>2, <2>3
    <3>3. Cardinality(Endpoints' \cup Pending') = Cardinality(Endpoints) + 1
      BY <2>10, <3>1
    <3> QED BY <1>0, <3>2, <3>3
  <2>12. \A s \in Sandbox : creator'[s] \notin {"appending", "appended"}
    BY <2>2, <2>5 DEF Creating
  <2>13. OneAtATime'
    BY <2>1, <2>7, <2>8, <2>9, <2>11, <2>12 DEF OneAtATime
  <2> QED BY <2>1, <2>2, <2>5, <2>8, <2>9, <2>13 DEF NoOrphans
<1>5. CASE doDownscaling
  <2>1. /\ loop = "lock" /\ loop' = "receive" /\ actualScale > desiredCount
        /\ UNCHANGED <<ActualScale, kept, creators, killing, running, rpcFailed>>
    BY <1>5 DEF doDownscaling
  <2>2. /\ Creating = {} /\ ActualScale = desiredCount /\ actualScale = Cardinality(Endpoints) - kept
        /\ desiredCount \in Nat /\ kept \in Nat
    BY <2>1, ScalingAssumption DEF SentOnce, OneAtATime, TypeOK
  <2>3. PICK victims \in Victims :
          /\ Endpoints' = Endpoints \ victims
          /\ draining' = draining \cup ({victims} \ {{}})
    BY <1>5 DEF doDownscaling
  <2>4. victims \in SUBSET Endpoints /\ Cardinality(victims) = actualScale - desiredCount
    BY <1>0, <2>2, <2>3 DEF Victims, TypeOK
  <2>5. Cardinality(Endpoints') = desiredCount + kept
    <3>1. /\ IsFiniteSet(victims) /\ Endpoints \cap victims = victims
          /\ Cardinality(Endpoints \ victims) = Cardinality(Endpoints) - Cardinality(Endpoints \cap victims)
      BY <1>0, <2>4, FS_Subset, FS_Difference
    <3>2. Cardinality(Endpoints') = Cardinality(Endpoints) - Cardinality(victims)
      BY <2>3, <3>1
    <3>3. desiredCount \in Int /\ actualScale \in Int
      BY DEF TypeOK
    <3> QED BY <1>0, <2>2, <2>4, <3>2, <3>3
  <2>6. Creating' = {} /\ Pending' = {}
    BY <2>1, <2>2 DEF Creating, Pending
  <2>7. Endpoints' \cup Pending' = Endpoints'
    BY <2>6
  <2>8. \A s \in Sandbox : creator'[s] \notin {"appending", "appended"}
    BY <2>6 DEF Creating
  <2>9. Endpoints' \cup Evicted' = Endpoints \cup Evicted
    BY <2>1, <2>3, <2>4 DEF Evicted
  <2>10. ActualScale' = Cardinality(Endpoints') - kept' /\ kept' <= Cardinality(Endpoints')
    BY <2>1, <2>2, <2>5
  <2> QED BY <2>1, <2>2, <2>6, <2>7, <2>8, <2>9, <2>10 DEF OneAtATime, NoOrphans
<1> QED BY <1>1, <1>2, <1>3, <1>4, <1>5 DEF LoopStep

\* The steps of a goroutine of doUpscaling, which is the only one.
LEMMA GoroutineOneAtATime ==
  ASSUME TypeOK, SentOnce, OneAtATime, NoOrphans, NEW s \in Sandbox, GoroutineStep(s)
  PROVE  OneAtATime' /\ NoOrphans'
<1> USE DEF service, pause, loopVars, scale, creators, evictions, outside, list, Goroutine
<1>0. /\ IsFiniteSet(Endpoints) /\ IsFiniteSet(Endpoints \cup Pending)
      /\ Cardinality(Endpoints) \in Nat /\ Cardinality(Endpoints \cup Pending) \in Nat /\ kept \in Nat
      /\ Pending \in SUBSET Creating /\ Creating \in SUBSET Sandbox
  BY CreatingTypes, FiniteSandboxes DEF TypeOK
<1>1. UNCHANGED <<loop, kept, desiredCount, actualScale, draining, killing>> /\ rpcFailed \subseteq rpcFailed'
  BY DEF GoroutineStep, CreationFails, CreateSandboxRPCFails, CreateSandbox, ReadEndpoints,
         AppendEndpoint, updateEndpoints
<1>2. s \in Creating
  BY DEF GoroutineStep, CreationFails, CreateSandboxRPCFails, CreateSandbox, ReadEndpoints,
         AppendEndpoint, updateEndpoints, Creating
<1>3. loop = "upscaling" /\ Creating = {s} /\ Evicted' = Evicted
  BY <1>1, <1>2 DEF SentOnce, OneAtATime, Evicted
<1>4. \A t \in Sandbox \ {s} : creator[t] = "idle"
  BY <1>3 DEF Creating, TypeOK
<1>5. ASSUME CreationFails(s) \/ CreateSandboxRPCFails(s) PROVE OneAtATime' /\ NoOrphans'
  <2>1. /\ creator[s] = "placing" /\ creator' = [creator EXCEPT ![s] = "idle"]
        /\ ActualScale' = ActualScale - 1 /\ UNCHANGED <<Endpoints, snapshot>>
    BY <1>5 DEF CreationFails, CreateSandboxRPCFails
  <2>2. running' = running \/ (running' = running \cup {s} /\ s \in rpcFailed')
    BY <1>5 DEF CreationFails, CreateSandboxRPCFails
  <2>3. Creating' = {} /\ Pending = {s} /\ Pending' = {}
    BY <1>4, <2>1 DEF Creating, Pending, TypeOK
  <2>4. s \notin Endpoints /\ s \notin running
    BY <2>1, <2>3 DEF OneAtATime, SentOnce
  <2>5. Cardinality(Endpoints' \cup Pending') = Cardinality(Endpoints \cup Pending) - 1
    <3>1. Endpoints' \cup Pending' = (Endpoints \cup Pending) \ {s} /\ s \in Endpoints \cup Pending
      BY <2>1, <2>3, <2>4
    <3>2. \A S : IsFiniteSet(S) /\ s \in S => Cardinality(S \ {s}) = Cardinality(S) - 1
      BY FS_RemoveElement
    <3> QED BY <1>0, <3>1, <3>2
  <2>6. \A t \in Sandbox : creator'[t] \notin {"appending", "appended"}
    BY <2>3 DEF Creating
  <2>7. ActualScale' = Cardinality(Endpoints' \cup Pending') - kept' /\ kept' <= Cardinality(Endpoints')
    <3>1. ActualScale = Cardinality(Endpoints \cup Pending) - kept /\ kept <= Cardinality(Endpoints)
      BY <1>3 DEF OneAtATime
    <3>2. Cardinality(Endpoints') = Cardinality(Endpoints) /\ kept' = kept
      BY <1>1, <2>1
    <3> QED BY <1>0, <2>1, <2>5, <3>1, <3>2
  <2>8. OneAtATime'
    BY <1>1, <1>3, <2>1, <2>3, <2>6, <2>7 DEF OneAtATime
  <2> QED BY <1>1, <1>3, <2>1, <2>2, <2>4, <2>8 DEF NoOrphans
<1>6. ASSUME CreateSandbox(s) \/ ReadEndpoints(s) PROVE OneAtATime' /\ NoOrphans'
  <2>1. PICK to \in {"created", "appending"} :
        /\ creator[s] \in {"placing", "created"} /\ creator' = [creator EXCEPT ![s] = to]
        /\ UNCHANGED <<Endpoints, ActualScale>> /\ running' \subseteq running \cup {s}
        /\ to = "appending" => snapshot' = [snapshot EXCEPT ![s] = Endpoints]
    BY <1>6 DEF CreateSandbox, ReadEndpoints
  <2>2. Creating' = Creating /\ Pending' = Pending
    BY <1>4, <2>1 DEF Creating, Pending, TypeOK
  <2>3. \A t \in Sandbox : /\ creator'[t] = "appending" => snapshot'[t] = Endpoints'
                           /\ creator'[t] # "appended"
    BY <1>4, <2>1 DEF TypeOK
  <2>4. OneAtATime'
    BY <1>1, <1>3, <2>1, <2>2, <2>3 DEF OneAtATime
  <2> QED BY <1>1, <1>3, <2>1, <2>2, <2>4 DEF NoOrphans
<1>7. CASE AppendEndpoint(s)
  <2>1. /\ creator[s] = "appending" /\ creator' = [creator EXCEPT ![s] = "appended"]
        /\ Endpoints' = snapshot[s] \cup {s} /\ UNCHANGED <<ActualScale, running>>
    BY <1>7 DEF AppendEndpoint
  <2>2. Endpoints' = Endpoints \cup {s}
    BY <2>1 DEF OneAtATime
  <2>3. Creating' = Creating /\ Pending = {s} /\ Pending' = {}
    BY <1>4, <2>1 DEF Creating, Pending, TypeOK
  <2>4. Endpoints' \cup Pending' = Endpoints \cup Pending
    BY <2>2, <2>3
  <2>5. \A t \in Sandbox : /\ creator'[t] # "appending"
                           /\ creator'[t] = "appended" => t \in Endpoints'
    BY <1>4, <2>1, <2>2 DEF TypeOK
  <2>6. kept' <= Cardinality(Endpoints')
    <3>1. Cardinality(Endpoints') = Cardinality(Endpoints) + 1
      BY <1>0, <2>2, <2>3, FS_AddElement DEF OneAtATime
    <3>2. kept <= Cardinality(Endpoints) /\ kept' = kept
      BY <1>1 DEF OneAtATime
    <3> QED BY <1>0, <3>1, <3>2
  <2>7. OneAtATime'
    BY <1>1, <1>3, <2>1, <2>3, <2>4, <2>5, <2>6 DEF OneAtATime
  <2> QED BY <1>1, <1>3, <2>1, <2>2, <2>3, <2>7 DEF NoOrphans
<1>8. CASE updateEndpoints(s)
  <2>1. /\ creator[s] = "appended" /\ creator' = [creator EXCEPT ![s] = "idle"]
        /\ UNCHANGED <<scale, snapshot, running>>
    BY <1>8 DEF updateEndpoints
  <2>2. Creating' = {} /\ Pending' = Pending /\ s \in Endpoints
    BY <1>4, <2>1 DEF Creating, Pending, TypeOK, OneAtATime
  <2>3. \A t \in Sandbox : creator'[t] \notin {"appending", "appended"}
    BY <2>2 DEF Creating
  <2>4. OneAtATime'
    BY <1>1, <1>3, <2>1, <2>2, <2>3 DEF OneAtATime
  <2> QED BY <1>1, <1>3, <2>1, <2>2, <2>4 DEF NoOrphans
<1> QED BY <1>5, <1>6, <1>7, <1>8 DEF GoroutineStep

\* OneAtATime and NoOrphans are inductive, given TypeOK and SentOnce.
LEMMA OneAtATimeStep ==
  ASSUME ScalingUpperBound = 1, MaxFailures = 0, TypeOK, SentOnce, OneAtATime, NoOrphans, [Next]_vars
  PROVE  OneAtATime' /\ NoOrphans'
<1> USE DEF service, pause, loopVars, scale, creators, evictions, outside, list
<1>0. Cardinality(Failed) = 0 /\ Failed = {}
  <2>1. Cardinality(Failed) = 0 /\ IsFiniteSet(Failed)
    BY CreatingTypes, FiniteSandboxes DEF SentOnce
  <2> QED BY <2>1, FS_EmptySet
<1>1. ASSUME OnMetricsReceive \/ (\E d \in 0..ScalingUpperBound : scalingCycle(d)) \/ SendOnClosed
             \/ removeServiceFromDataplane \/ CloseDesiredStateChannel \/ UNCHANGED vars
             \/ DownScalingAllowed \/ RegisterDataplane \/ \E s \in Sandbox : LoseReport(s)
      PROVE  OneAtATime' /\ NoOrphans'
  <2>1. /\ UNCHANGED <<creators, evictions, scale, kept, running, rpcFailed>>
        /\ UNCHANGED loopVars \/ (loop # "lock" /\ loop' # "lock")
    BY <1>1 DEF OnMetricsReceive, scalingCycle, SendOnClosed, removeServiceFromDataplane,
       CloseDesiredStateChannel, vars, LoseReport, DownScalingAllowed, RegisterDataplane
  <2> QED BY <2>1, QuietStep
<1>2. CASE LoopStep
  BY <1>2, LoopOneAtATime
<1>3. ASSUME NEW s \in Sandbox, GoroutineStep(s) PROVE OneAtATime' /\ NoOrphans'
  BY <1>3, GoroutineOneAtATime
<1>4. ASSUME NEW v \in draining, drainSandbox(v) PROVE OneAtATime' /\ NoOrphans'
  <2>1. /\ UNCHANGED <<loopVars, kept, scale, creators, running>> /\ rpcFailed \subseteq rpcFailed'
        /\ draining' = draining \ {v} /\ killing' = killing \cup v
    BY <1>4 DEF drainSandbox
  <2>2. Creating' = Creating /\ Pending' = Pending
    BY <2>1 DEF Creating, Pending
  <2>3. Evicted \subseteq Evicted'
    BY <2>1 DEF Evicted
  <2> QED BY <2>1, <2>2, <2>3 DEF OneAtATime, NoOrphans
<1>5. ASSUME NEW s \in Sandbox, deleteSandbox(s) PROVE OneAtATime' /\ NoOrphans'
  <2>1. /\ UNCHANGED <<loopVars, kept, scale, creators, draining>> /\ rpcFailed \subseteq rpcFailed'
        /\ killing' = killing \ {s} /\ running' \subseteq running
        /\ s \in running' => s \in rpcFailed'
    BY <1>5 DEF deleteSandbox
  <2>2. Creating' = Creating /\ Pending' = Pending
    BY <2>1 DEF Creating, Pending
  <2>3. Evicted \subseteq Evicted' \cup {s}
    BY <2>1 DEF Evicted
  <2> QED BY <2>1, <2>2, <2>3 DEF OneAtATime, NoOrphans
<1>6. ASSUME NEW s \in Sandbox, SandboxFails(s) \/ HandleFailure(s) PROVE FALSE
  BY <1>0, <1>6 DEF SandboxFails, HandleFailure, Failed
<1> QED BY <1>1, <1>2, <1>3, <1>4, <1>5, <1>6 DEF Next

\* They hold at the start.
LEMMA OneAtATimeInit == Init => OneAtATime /\ NoOrphans
<1> SUFFICES ASSUME Init PROVE OneAtATime /\ NoOrphans
  OBVIOUS
<1>1. Creating = {} /\ Pending = {} /\ Endpoints \cup Pending = {}
  BY DEF Init, Creating, Pending
<1> QED BY <1>1, FS_EmptySet DEF Init, OneAtATime, NoOrphans

\* For a service of one sandbox at most, none of which fails by itself,
\* ActualScale is the number of endpoints, less those kept while downscaling was
\* disabled, whenever the loop waits for a new scale: creations and calls that
\* fail, and a deregistration, are accounted for.
THEOREM ScaleIsExact ==
  ASSUME ScalingUpperBound = 1, MaxFailures = 0 PROVE Spec => []ScaleMatches
<1>1. TypeOK /\ SentOnce /\ OneAtATime /\ NoOrphans /\ [Next]_vars => OneAtATime' /\ NoOrphans'
  BY OneAtATimeStep
<1>2. TypeOK /\ SentOnce /\ OneAtATime => ScaleMatches
  <2> SUFFICES ASSUME TypeOK, SentOnce, OneAtATime, loop \in {"receive", "drain"}
               PROVE  ActualScale = Cardinality(Endpoints) - kept
    BY DEF ScaleMatches
  <2>1. Pending = {}
    BY CreatingTypes DEF SentOnce
  <2>2. Endpoints \cup Pending = Endpoints
    BY <2>1
  <2> QED BY <2>2 DEF OneAtATime
<1> QED BY <1>1, <1>2, OneAtATimeInit, InitSentOnce, TypesAndSentOnce, PTL DEF Spec

\* For such a service, every sandbox that runs on a worker node is being
\* created, known as an endpoint or being evicted, unless a call about it has
\* failed: none is left that nobody would stop.
THEOREM SandboxesAreKnown ==
  ASSUME ScalingUpperBound = 1, MaxFailures = 0 PROVE Spec => []NoOrphans
<1>1. TypeOK /\ SentOnce /\ OneAtATime /\ NoOrphans /\ [Next]_vars => OneAtATime' /\ NoOrphans'
  BY OneAtATimeStep
<1> QED BY <1>1, OneAtATimeInit, InitSentOnce, TypesAndSentOnce, PTL DEF Spec
=============================================================================
