---------------------------- MODULE Autoscaling ----------------------------
(***************************************************************************)
(* The autoscaler of a service: data planes report how many requests they  *)
(* have in flight while they have any, a loop averages the sum of the      *)
(* reports over a long and a short window and sends the scale it wants to  *)
(* the scaling loop.  A sudden load is a panic, during which it does not   *)
(* scale down.  A service that a new leader reconstructs has the endpoints *)
(* that the worker nodes list.  Reports are sent by goroutines of their    *)
(* own, may overtake each other and may fail, which is only logged.        *)
(***************************************************************************)
EXTENDS Integers, FiniteSets, SequencesExt, FiniteSetsExt, Functions

CONSTANTS
  DataPlane,
  Load,                         \* numbers of requests in flight at a data plane
  MaxReports,                   \* bound: reports of a data plane under way
  MaxPause,                     \* bound: periods in which a reconstructed service is not scaled down
  Listed,                       \* how many endpoints the worker nodes may list
  Overtaking,                   \* a report may overtake an earlier one
  StableBuckets, PanicBuckets,  \* the widths of the windows in periods
  Target,                       \* requests in flight wanted at a sandbox
  ScalingUpperBound, MaxScaleUpRate, MaxScaleDownRate, PanicThresholdPercentage,
  None

ASSUME AutoscalingAssumption ==
  /\ Load \subseteq Nat /\ 0 \in Load /\ Listed \subseteq Nat
  /\ Overtaking \in BOOLEAN
  /\ {MaxReports, MaxPause, StableBuckets, PanicBuckets, Target, ScalingUpperBound,
      MaxScaleUpRate, MaxScaleDownRate, PanicThresholdPercentage} \subseteq Nat \ {0}
  /\ PanicBuckets <= StableBuckets

VARIABLES
  registered, inflight, triggered, reports,           \* of the data planes; triggered: autoscalingTriggered
  inflightRequestsPerDataPlane, cachedScalingMetric,
  scalingMetrics, windowHead,
  InPanicMode, panicAge, MaxPanicPods,                \* panicAge: in periods, at least
  loop, desired,                                      \* of the autoscaler; what it sends
  StopCh, stopper,                                    \* its channel; the last loop, on its way out
  ActualScale, endpoints,
  restored, toRestore, pause,                         \* of a reconstruction; pause: isDownScalingDisabled, periods left at most
  declared,                                           \* it has declared the present panic (history)
  recent                                              \* the last observations, the latest first

clients == <<registered, inflight, triggered, reports>>
metric == <<inflightRequestsPerDataPlane, cachedScalingMetric>>
window == <<scalingMetrics, windowHead, recent>>
panic == <<InPanicMode, panicAge, MaxPanicPods>>
scale == <<ActualScale, endpoints>>
leader == <<restored, toRestore, pause, declared>>
stop == <<StopCh, stopper>>
vars == <<clients, metric, window, panic, loop, desired, stop, scale, leader>>

(* A data plane reports under its name and is deregistered under its address.  *)
Key == {"name", "address"} \X DataPlane

MaxScale == ScalingUpperBound + Max(Listed)

TypeOK ==
  /\ registered \in [DataPlane -> BOOLEAN] /\ inflight \in [DataPlane -> Load]
  /\ triggered \in [DataPlane -> {"no", "yes", "resetting"}]
  /\ \A d \in DataPlane : reports[d] \in Seq(Load) /\ Len(reports[d]) <= MaxReports
  /\ inflightRequestsPerDataPlane \in [Key -> Load] /\ cachedScalingMetric \in Nat
  /\ scalingMetrics \in Seq(Nat) /\ Len(scalingMetrics) <= StableBuckets
  /\ windowHead \in 0 .. Min({StableBuckets - 1, Len(scalingMetrics)})
  /\ InPanicMode \in BOOLEAN /\ panicAge \in 0 .. StableBuckets /\ MaxPanicPods \in Nat
  /\ loop \in {"off", "making", "first", "waiting", "sending", "stopping", "crashed"}
  /\ StopCh \in {"open", "closed", "nil"} /\ stopper \in {"none", "close", "clear"} /\ declared \in BOOLEAN
  /\ desired \in 0 .. MaxScale \cup {None}
  /\ ActualScale \in 0 .. MaxScale /\ endpoints \in 0 .. MaxScale + 2 * MaxPause * ScalingUpperBound
  /\ restored \in Listed /\ toRestore \in 0 .. restored /\ pause \in 0 .. MaxPause

Init ==
  /\ registered = [d \in DataPlane |-> TRUE] /\ inflight = [d \in DataPlane |-> 0]
  /\ triggered = [d \in DataPlane |-> "no"] /\ reports = [d \in DataPlane |-> <<>>]
  /\ inflightRequestsPerDataPlane = [k \in Key |-> 0] /\ cachedScalingMetric = 0
  /\ scalingMetrics = <<>> /\ windowHead = 0 /\ recent = <<>>
  /\ InPanicMode = FALSE /\ panicAge = 0 /\ MaxPanicPods = 0
  /\ loop = "off" /\ desired = None /\ StopCh = "nil" /\ stopper = "none" /\ declared = FALSE
  /\ ActualScale = 0 /\ endpoints = 0
  /\ restored \in Listed /\ toRestore = restored /\ pause = IF restored > 0 THEN MaxPause ELSE 0

-----------------------------------------------------------------------------
(* The data planes.  *)
Requests(d) ==
  /\ registered[d]
  /\ \E n \in Load \ {inflight[d]} :
       /\ inflight' = [inflight EXCEPT ![d] = n]
       /\ triggered' = [triggered EXCEPT ![d] = IF n > inflight[d] /\ @ = "no" THEN "yes" ELSE @]
  /\ UNCHANGED <<registered, reports, metric, window, panic, loop, desired, stop, scale, leader>>

(* Each report is sent by a goroutine of its own; none follows that of zero.  *)
sendMetricsToAutoscaler(d) ==
  /\ registered[d] /\ triggered[d] = "yes" /\ Len(reports[d]) < MaxReports
  /\ reports' = [reports EXCEPT ![d] = Append(@, inflight[d])]
  /\ triggered' = [triggered EXCEPT ![d] = IF inflight[d] = 0 THEN "resetting" ELSE "yes"]
  /\ UNCHANGED <<registered, inflight, metric, window, panic, loop, desired, stop, scale, leader>>

(* The loop ends later than it has looked, and requests do not take its lock.  *)
resetAutoscalingTriggered(d) ==
  /\ triggered[d] = "resetting" /\ triggered' = [triggered EXCEPT ![d] = "no"]
  /\ UNCHANGED <<registered, inflight, reports, metric, window, panic, loop, desired, stop, scale, leader>>

(* A report that fails is logged and not sent again.  *)
ReportFails(d) ==
  /\ \E i \in DOMAIN reports[d] : reports' = [reports EXCEPT ![d] = RemoveAt(@, i)]
  /\ UNCHANGED <<registered, inflight, triggered, metric, window, panic, loop, desired, stop, scale, leader>>

-----------------------------------------------------------------------------
(* Calls of the control plane, whose process a panic of the autoscaler ends.  *)
Alive == loop # "crashed"

(* Start sets AutoscalingRunning, unless it is set, then makes the channel.  *)
Start == loop' = IF loop = "off" THEN "making" ELSE loop

SetCachedScalingMetric(k, n) ==
  /\ cachedScalingMetric' = cachedScalingMetric + n - inflightRequestsPerDataPlane[k]
  /\ inflightRequestsPerDataPlane' = [inflightRequestsPerDataPlane EXCEPT ![k] = n]

RemoveDataplane(k) == SetCachedScalingMetric(k, 0)

OnMetricsReceive(d) ==
  /\ Alive
  /\ \E i \in IF Overtaking THEN DOMAIN reports[d] ELSE DOMAIN reports[d] \cap {1} :
       /\ SetCachedScalingMetric(<<"name", d>>, reports[d][i])
       /\ reports' = [reports EXCEPT ![d] = RemoveAt(@, i)]
  /\ Start
  /\ UNCHANGED <<registered, inflight, triggered, window, panic, desired, stop, scale, leader>>

DeregisterDataplane(d) ==
  /\ Alive /\ registered[d]
  /\ RemoveDataplane(<<"address", d>>)
  /\ registered' = [registered EXCEPT ![d] = FALSE] /\ inflight' = [inflight EXCEPT ![d] = 0]
  /\ triggered' = [triggered EXCEPT ![d] = "no"]
  /\ UNCHANGED <<reports, window, panic, loop, desired, stop, scale, leader>>

reconstructEndpointsState ==
  /\ Alive /\ toRestore > 0 /\ toRestore' = toRestore - 1
  /\ InPanicMode' = TRUE /\ panicAge' = 0 /\ declared' = TRUE
  /\ ActualScale' = ActualScale + 1 /\ endpoints' = endpoints + 1
  /\ Start
  /\ UNCHANGED <<clients, metric, window, MaxPanicPods, desired, stop, restored, pause>>

-----------------------------------------------------------------------------
(* The algorithm.  Averages are kept as a sum and a length, <<sum, length>>.  *)
CeilDiv(a, b) == (a + b - 1) \div b
Clamp(n, low, high) == Min({Max({n, low}), high})

(* The buckets are a ring that the head runs around once it is full.  *)
Buckets(observed) ==
  IF Len(scalingMetrics) < StableBuckets
  THEN Append(scalingMetrics, observed)
  ELSE [scalingMetrics EXCEPT ![windowHead + 1] = observed]

(* The sum goes back from the head, and on at the end of the WINDOW when it
   has passed the beginning of the ring.  *)
windowAverage(metrics, buckets) ==
  LET length == Min({buckets, Len(metrics)}) IN
  <<SumFunction([i \in 1 .. length |->
      metrics[IF i - 1 <= windowHead THEN windowHead - i + 2 ELSE length - (i - 2 - windowHead)]]),
    length>>

desiredPods(average) == CeilDiv(average[1], average[2] * Target)

(* The desired scale, kept within the rates.  *)
readyPodsCount == Max({1, ActualScale})
WithinRates(pods) ==
  Clamp(pods, readyPodsCount \div MaxScaleDownRate, MaxScaleUpRate * readyPodsCount)

isOverPanicThreshold(pods) == pods * 100 >= PanicThresholdPercentage * readyPodsCount

\* Mutant: a panic does not keep its scale.
panicForgets(stable, short, over, expired) ==
  /\ InPanicMode' = (over \/ (InPanicMode /\ ~expired))
  /\ panicAge' = IF over \/ ~InPanicMode' THEN 0 ELSE Min({panicAge + 1, StableBuckets})
  /\ MaxPanicPods' = IF InPanicMode' THEN Max({stable, short}) ELSE 0
  /\ desired' = Clamp(IF InPanicMode' THEN MaxPanicPods' ELSE stable, 0, ScalingUpperBound)

\* Mutant: a panic has no end.
panicStays(stable, short, over, expired) ==
  /\ InPanicMode' = (over \/ InPanicMode)
  /\ panicAge' = IF over \/ ~InPanicMode' THEN 0 ELSE Min({panicAge + 1, StableBuckets})
  /\ MaxPanicPods' = IF InPanicMode' THEN Max({MaxPanicPods, stable, short}) ELSE MaxPanicPods
  /\ desired' = Clamp(IF InPanicMode' THEN MaxPanicPods' ELSE stable, 0, ScalingUpperBound)

(* Panic mode begins or is extended over the threshold, and ends when it is
   older than the stable window; its scale grows only.  *)
internalScaleAlgorithm(stable, short, over, expired) ==
  /\ InPanicMode' = (over \/ (InPanicMode /\ ~expired))
  /\ panicAge' = IF over \/ ~InPanicMode' THEN 0 ELSE Min({panicAge + 1, StableBuckets})
  /\ MaxPanicPods' =
       IF InPanicMode' THEN Max({MaxPanicPods, stable, short})
       ELSE IF InPanicMode THEN 0 ELSE MaxPanicPods
  /\ desired' = Clamp(IF InPanicMode' THEN MaxPanicPods' ELSE stable, 0, ScalingUpperBound)

KnativeScaling ==
  \E dspc \in {desiredPods(windowAverage(Buckets(cachedScalingMetric), StableBuckets))},
     dppc \in {desiredPods(windowAverage(Buckets(cachedScalingMetric), PanicBuckets))},
     expired \in {TRUE} \cup IF panicAge = StableBuckets THEN {} ELSE {FALSE} :
       /\ scalingMetrics' = Buckets(cachedScalingMetric)
       /\ recent' = SubSeq(<<cachedScalingMetric>> \o recent, 1, Min({StableBuckets, Len(recent) + 1}))
       /\ internalScaleAlgorithm(WithinRates(dspc), WithinRates(dppc), isOverPanicThreshold(dppc), expired)

\* Mutant: the head stays where it is once the ring is full.
windowHeadStays == windowHead' = Min({windowHead + 1, StableBuckets - 1})

AdvanceHead == windowHead' = (windowHead + 1) % StableBuckets

(* A cycle of the loop; the first one wants a single sandbox.  The others come
   after a period, in which an autoscaler that was stopping has stopped.  *)
scalingCycle ==
  /\ loop' = "sending"
  /\ \/ loop = "first" /\ desired' = 1 /\ UNCHANGED <<window, panic, pause, declared>>
     \/ /\ loop = "waiting" /\ stopper = "none" /\ KnativeScaling /\ AdvanceHead /\ pause' = Max({0, pause - 1})
        /\ declared' = (declared /\ InPanicMode')
  /\ UNCHANGED <<clients, metric, stop, scale, restored, toRestore>>

(* The second half of Start.  *)
makeStopCh ==
  /\ loop = "making" /\ loop' = "first" /\ StopCh' = "open"
  /\ UNCHANGED <<clients, metric, window, panic, desired, stopper, scale, leader>>

(* A loop that finds its channel closed stops, too.  *)
StopSignal ==
  /\ loop = "waiting" /\ StopCh = "closed" /\ loop' = "stopping"
  /\ UNCHANGED <<clients, metric, window, panic, desired, stop, scale, leader>>

\* Mutant: AutoscalingRunning stays set.
stopAutoscalingLoopRunning ==
  /\ loop = "stopping" /\ stopper = "none" /\ StopCh = "open" /\ StopCh' = "closed"
  /\ UNCHANGED <<clients, metric, window, panic, loop, desired, stopper, scale, leader>>

(* The autoscaler that stops resets AutoscalingRunning, closes the channel and
   forgets it, in three steps.  In between another one may start, and the
   channel be its channel: one that is closed twice, or closed when it is
   nil, is a panic.  *)
stopAutoscalingLoop ==
  \/ /\ loop = "stopping" /\ stopper = "none"
     /\ loop' = "off" /\ stopper' = "close"
     /\ UNCHANGED <<clients, metric, window, panic, desired, StopCh, scale, leader>>
  \/ /\ stopper = "close" /\ StopCh = "open"
     /\ StopCh' = "closed" /\ stopper' = "clear"
     /\ loop' = IF loop = "waiting" THEN "stopping" ELSE loop
     /\ UNCHANGED <<clients, metric, window, panic, desired, scale, leader>>
  \/ /\ stopper = "close" /\ StopCh # "open"
     /\ loop' = "crashed" /\ stopper' = "none"
     /\ UNCHANGED <<clients, metric, window, panic, desired, StopCh, scale, leader>>
  \/ /\ stopper = "clear" /\ StopCh' = "nil" /\ stopper' = "none"
     /\ UNCHANGED <<clients, metric, window, panic, loop, desired, scale, leader>>

(* The scaling loop receives the desired scale and applies it, except that it
   deletes nothing for a while after a reconstruction.  A sandbox may not be
   created, or fail later.  *)
ScalingControllerLoop ==
  /\ loop = "sending"
  /\ loop' = IF desired = 0 THEN "stopping" ELSE "waiting"
  /\ desired' = None
  /\ ActualScale' = desired
  /\ endpoints' = IF ActualScale < desired \/ pause = 0
                  THEN Max({0, endpoints + desired - ActualScale}) ELSE endpoints
  /\ UNCHANGED <<clients, metric, window, panic, stop, leader>>

HandleFailure ==
  /\ Alive /\ endpoints > 0 /\ ActualScale > 0
  /\ endpoints' = endpoints - 1 /\ ActualScale' = ActualScale - 1
  /\ UNCHANGED <<clients, metric, window, panic, loop, desired, stop, leader>>

DownScalingAllowed ==
  /\ pause > 0 /\ pause' = 0
  /\ UNCHANGED <<clients, metric, window, panic, loop, desired, stop, scale, restored, toRestore, declared>>

-----------------------------------------------------------------------------
Autoscaler == makeStopCh \/ scalingCycle \/ ScalingControllerLoop \/ StopSignal

Next ==
  \/ \E d \in DataPlane :
       \/ Requests(d) \/ sendMetricsToAutoscaler(d) \/ resetAutoscalingTriggered(d)
       \/ OnMetricsReceive(d) \/ ReportFails(d) \/ DeregisterDataplane(d)
  \/ reconstructEndpointsState \/ Autoscaler \/ stopAutoscalingLoop \/ HandleFailure \/ DownScalingAllowed

Spec == Init /\ [][Next]_vars

(* Loops go on and calls return, with an error perhaps.  Nobody has to send
   requests, and no report has to arrive.  *)
FairSpec ==
  /\ Spec
  /\ WF_vars(Autoscaler) /\ WF_vars(stopAutoscalingLoop)
  /\ WF_vars(reconstructEndpointsState) /\ WF_vars(DownScalingAllowed)
  /\ \A d \in DataPlane : /\ WF_vars(sendMetricsToAutoscaler(d)) /\ WF_vars(resetAutoscalingTriggered(d))
                          /\ WF_vars(OnMetricsReceive(d) \/ ReportFails(d))

-----------------------------------------------------------------------------
(* The metric is the sum of what the data planes last reported, whatever the
   order of reports and deregistrations (SetCachedScalingMetric,
   RemoveDataplane).  *)
CachedMetricIsSum == cachedScalingMetric = SumFunction(inflightRequestsPerDataPlane)

(* The stable window holds the last observations and no others: not when the
   head has gone around the ring, nor after the autoscaler has stopped and
   started again (windowAverage).  *)
StableWindowIsRecent ==
  /\ Len(scalingMetrics) = Len(recent)
  /\ \A v \in Range(recent) :
       Cardinality({i \in DOMAIN scalingMetrics : scalingMetrics[i] = v}) = Cardinality({i \in DOMAIN recent : recent[i] = v})

(* While a panic lasts that the load has caused, no cycle but the first of an
   autoscaler that starts again wants fewer sandboxes than there are.  The
   comment of internalScaleAlgorithm: "We do not scale down while in panic mode.
   Only increases will be applied."  It does not hold of the panic that a
   reconstruction declares (PanicKeepsRestored).  *)
PanicNeverScalesDown ==
  [][loop = "waiting" /\ loop' = "sending" /\ InPanicMode' /\ ~declared' => desired' >= ActualScale]_vars

(* The control plane has heard that there are no requests, and hears no more.  *)
Quiet == cachedScalingMetric = 0 /\ \A d \in DataPlane : reports[d] = <<>>

(* A service that was not reconstructed, and of which the control plane has
   heard last that it has no requests, loses all its sandboxes, after any panic
   and any number of restarts of the autoscaler, unless these end the process
   (KnativeScaling, stopAutoscalingLoop).  *)
IdleScalesToZero ==
  restored = 0 /\ <>[]Quiet => <>[](endpoints = 0) \/ <>(loop = "crashed")

Heard(d) == OnMetricsReceive(d) /\ inflightRequestsPerDataPlane'[<<"name", d>>] > 0

(* While reports of load keep arriving, a service has a sandbox again and
   again, also when the report that should start the autoscaler comes while it
   stops, unless this ends the process (Start, stopAutoscalingLoop).  *)
LoadIsServed ==
  \A d \in DataPlane : []<><<Heard(d)>>_vars => []<>(ActualScale > 0) \/ <>(loop = "crashed")

(* The panic window is that of the latest observations: "sum values of
   buckets, starting at most recent measurement" (windowAverage).  *)
PanicWindowIsRecent ==
  [][loop = "waiting" /\ loop' = "sending" =>
       LET length == Min({PanicBuckets, Len(recent')}) IN
       windowAverage(Buckets(cachedScalingMetric), PanicBuckets) = <<SumFunction(SubSeq(recent', 1, length)), length>>]_vars

(* The sandboxes of a service without requests are deleted, also those that a
   reconstruction has found (reconstructEndpointsState, isDownScalingDisabled).  *)
RestoredAreDeleted == <>[]Quiet => <>[](endpoints = 0) \/ <>(loop = "crashed")

(* "do not allow downscaling until the system stabilizes"
   (reconstructEndpointsState), by declaring a panic.  *)
PanicKeepsRestored ==
  [][loop = "waiting" /\ loop' = "sending" /\ InPanicMode' => desired' >= ActualScale]_vars

Idle == \A d \in DataPlane : inflight[d] = 0

(* That a service has no requests any more, or that it has some, is heard:
   "the data plane shouldn't stop send metrics until the control plane at least
   once confirms" (sendMetricsToAutoscaler).  *)
IdleIsHeard == <>[](Idle /\ \A d \in DataPlane : registered[d]) => <>[](cachedScalingMetric = 0)
LoadIsHeard == \A d \in DataPlane : <>[](inflight[d] > 0) => <>(cachedScalingMetric > 0)

(* An autoscaler that stops does not end the process (stopAutoscalingLoop).  *)
StopDoesNotPanic == Alive

(* The metric counts the requests of registered data planes only, once no
   report is under way (DeregisterDataplane, RemoveDataplane).  *)
OnlyRegisteredCount ==
  \A d \in DataPlane : reports[d] = <<>> /\ ~registered[d] => inflightRequestsPerDataPlane[<<"name", d>>] = 0
=============================================================================
