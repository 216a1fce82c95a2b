--------------------------- MODULE ServiceScaling ---------------------------
(***************************************************************************)
(* How the control plane scales one service: the autoscaler               *)
(* (internal/control_plane/autoscaling/controller.go) that computes the    *)
(* desired scale, the ScalingControllerLoop (scaling_loop.go) that creates *)
(* and evicts sandboxes, HandleFailure (failure.go), DeregisterService,    *)
(* the registration of a further data plane, and what they leave on the    *)
(* worker nodes and in the endpoint list of a data plane                   *)
(* (function_metadata.go).                                                 *)
(*                                                                         *)
(* A step is what happens between two points at which another goroutine    *)
(* can see or change the state: a channel operation, an atomic operation   *)
(* on ActualScale, a critical section of EndpointLock, an RPC. A sandbox   *)
(* stands for its endpoint, too. The scale the autoscaler asks for is      *)
(* abstracted to any value it may compute.                                 *)
(***************************************************************************)
EXTENDS Integers, FiniteSets

CONSTANTS
    Sandbox,           \* sandbox identities; one is reused once nobody knows it
    ScalingUpperBound, \* AutoscalingConfig.ScalingUpperBound
    MaxFailures,       \* bound: sandboxes that fail by themselves
    MaxRegistrations,  \* bound: other data planes that register meanwhile
    Reconstructed,     \* may a new leader have reconstructed the service?
    RPCMayFail,        \* may calls between the nodes fail or time out?
    MayDeregister      \* is the service ever deregistered?

ASSUME ScalingAssumption ==
    /\ IsFiniteSet(Sandbox)
    /\ ScalingUpperBound \in Nat \ {0}
    /\ MaxFailures \in Nat /\ MaxRegistrations \in Nat
    /\ Reconstructed \in BOOLEAN
    /\ RPCMayFail \in BOOLEAN
    /\ MayDeregister \in BOOLEAN

VARIABLES
    autoscaler,   \* PFStateController: off, about to scale from zero, or on
    deployed,     \* does the data plane know the service?
    closed,       \* is DesiredStateChannel closed?
    lockLeaked,   \* has DataPlaneConnections been locked for good?
    crashed,      \* has a panic ended the control plane process?
    paused,       \* isDownScalingDisabled, for a while after a reconstruction
    kept,         \* endpoints that were not evicted meanwhile (history)
    registrations, \* of other data planes
    loop,         \* where ScalingControllerLoop is
    desiredCount, \* its variables
    actualScale,
    ActualScale,  \* ScalingMetadata.ActualScale
    Endpoints,    \* Controller.Endpoints
    creator,      \* the goroutine of doUpscaling that creates each sandbox
    snapshot,     \* the endpoints it appends its own to
    draining,     \* victims of each doDownscaling whose drain is under way
    killing,      \* victims to be deleted on their worker node
    running,      \* sandboxes that run on the worker nodes
    report,       \* the failure report of a sandbox that failed by itself
    upstream,     \* copies of each endpoint in the data plane's list
    resent,       \* how often it was sent in the list of all (history)
    rpcFailed     \* sandboxes about which a call has failed

pause == <<paused, kept>>
service == <<autoscaler, deployed, closed, lockLeaked, crashed, registrations>>
loopVars == <<loop, desiredCount, actualScale>>
scale == <<ActualScale, Endpoints>>
creators == <<creator, snapshot>>
evictions == <<draining, killing>>
list == <<upstream, resent>>
outside == <<running, report, list, rpcFailed>>
vars == <<service, pause, loopVars, scale, creators, evictions, outside>>

\* The goroutines doUpscaling waits for, EndpointLock held.
Creating == {s \in Sandbox : creator[s] \in {"placing", "created", "appending", "appended"}}

Evicted == (UNION draining) \cup killing

\* Identities no part of the system knows of: they stand for fresh ones.
Unused == {s \in Sandbox : /\ s \notin Creating \cup Endpoints \cup Evicted \cup running
                           /\ upstream[s] = 0 /\ report[s] = "none"}

\* EndpointLock is held across steps during doUpscaling only.
LockFree == loop # "upscaling"

Init ==
    /\ autoscaler = "off"
    /\ deployed = TRUE
    /\ closed = FALSE
    /\ lockLeaked = FALSE
    /\ crashed = FALSE
    /\ paused \in {FALSE, Reconstructed} /\ kept = 0
    /\ registrations = 0
    /\ loop = "receive"
    /\ desiredCount = 0
    /\ actualScale = 0
    /\ ActualScale = 0
    /\ Endpoints = {}
    /\ creator = [s \in Sandbox |-> "idle"]
    /\ snapshot = [s \in Sandbox |-> {}]
    /\ draining = {}
    /\ killing = {}
    /\ running = {}
    /\ report = [s \in Sandbox |-> "none"]
    /\ upstream = [s \in Sandbox |-> 0] /\ resent = [s \in Sandbox |-> 0]
    /\ rpcFailed = {}

----------------------------------------------------------------------------
(* PFStateController *)

\* A metric arrives: Start, unless the autoscaler runs. The handler may have
\* fetched the controller before DeregisterService removed it.
OnMetricsReceive ==
    /\ ~crashed
    /\ autoscaler = "off"
    /\ autoscaler' = "first"
    /\ UNCHANGED <<deployed, closed, lockLeaked, crashed, registrations, pause,
                   loopVars, scale, creators, evictions, outside>>

\* KnativeScaling: one when scaling from zero, else what the window says.
KnativeScaling == IF autoscaler = "first" THEN {1} ELSE 0..ScalingUpperBound

\* scalingCycle sends the desired scale over the unbuffered channel, in the
\* moment ScalingControllerLoop receives it, blocked for it or looking for
\* the last value. A scale of zero ends the autoscaler.
scalingCycle(d) ==
    /\ ~crashed
    /\ ~closed
    /\ autoscaler # "off"
    /\ d \in KnativeScaling
    /\ loop \in {"receive", "drain"}
    /\ loop' = "drain"
    /\ desiredCount' = d
    /\ autoscaler' = IF d = 0 THEN "off" ELSE "on"
    /\ UNCHANGED <<deployed, closed, lockLeaked, crashed, registrations, pause,
                   actualScale, scale, creators, evictions, outside>>

\* Sending on a channel that DeregisterService closes or has closed panics.
SendOnClosed ==
    /\ ~crashed
    /\ closed
    /\ autoscaler # "off"
    /\ crashed' = TRUE
    /\ UNCHANGED <<autoscaler, deployed, closed, lockLeaked, registrations, pause,
                   loopVars, scale, creators, evictions, outside>>

----------------------------------------------------------------------------
(* ScalingControllerLoop *)

\* A closed channel yields zero at once, to the first receive and to every
\* round of the loop that looks for the last value.
ReceiveFromClosed ==
    /\ ~crashed
    /\ closed
    /\ loop \in {"receive", "drain"}
    /\ loop' = "drain"
    /\ desiredCount' = 0
    /\ UNCHANGED <<service, pause, actualScale, scale, creators, evictions, outside>>

\* The select takes its default when no value is ready, and on a closed
\* channel one always is: the branch for a loop that is to end is not
\* reached. Then the desired scale is swapped into ActualScale.
SwapScale ==
    /\ ~crashed
    /\ ~closed
    /\ loop = "drain"
    /\ loop' = "lock"
    /\ actualScale' = ActualScale
    /\ ActualScale' = desiredCount
    /\ UNCHANGED <<service, pause, desiredCount, Endpoints, creators, evictions, outside>>

\* doUpscaling starts one goroutine per missing sandbox and waits for them.
doUpscaling ==
    /\ ~crashed
    /\ loop = "lock" /\ actualScale < desiredCount
    /\ loop' = "upscaling"
    /\ \E new \in SUBSET Unused :
          /\ Cardinality(new) = desiredCount - actualScale
          /\ creator' = [s \in Sandbox |-> IF s \in new THEN "placing" ELSE creator[s]]
          /\ rpcFailed' = rpcFailed \ new
          /\ resent' = [s \in Sandbox |-> IF s \in new THEN 0 ELSE resent[s]]
    /\ UNCHANGED <<service, pause, desiredCount, actualScale, scale, snapshot,
                   evictions, running, report, upstream>>

\* doDownscaling draws its victims one by one, with EvictionPolicy, from the
\* endpoints that are left, excludes them and leaves the rest to a goroutine.
Victims == {v \in SUBSET Endpoints :
               \/ Cardinality(v) = actualScale - desiredCount
               \/ v = Endpoints /\ Cardinality(v) < actualScale - desiredCount}

\* Mutant: the victims are deleted without being drained.
doDownscalingUndrained ==
    /\ ~crashed
    /\ loop = "lock" /\ actualScale > desiredCount /\ ~paused
    /\ loop' = "receive"
    /\ \E victims \in Victims :
          /\ Endpoints' = Endpoints \ victims
          /\ killing' = killing \cup victims
    /\ UNCHANGED <<service, pause, desiredCount, actualScale, ActualScale, creators,
                   draining, outside>>

\* Mutant: the victims are excluded and nobody drains and kills them.
doDownscalingForgets ==
    /\ ~crashed
    /\ loop = "lock" /\ actualScale > desiredCount /\ ~paused
    /\ loop' = "receive"
    /\ \E victims \in Victims : Endpoints' = Endpoints \ victims
    /\ UNCHANGED <<service, pause, desiredCount, actualScale, ActualScale, creators,
                   evictions, outside>>

doDownscaling ==
    /\ ~crashed
    /\ loop = "lock" /\ actualScale > desiredCount /\ ~paused
    /\ loop' = "receive"
    /\ \E victims \in Victims :
          /\ Endpoints' = Endpoints \ victims
          /\ draining' = draining \cup ({victims} \ {{}})
    /\ UNCHANGED <<service, pause, desiredCount, actualScale, ActualScale, creators,
                   killing, outside>>

\* The scale is as desired, or downscaling is disabled: ActualScale is lowered
\* all the same, and the endpoints stay.
NothingToScale ==
    /\ ~crashed
    /\ loop = "lock"
    /\ actualScale = desiredCount \/ (actualScale > desiredCount /\ paused)
    /\ loop' = "receive"
    /\ kept' = kept + (actualScale - desiredCount)
    /\ UNCHANGED <<service, paused, desiredCount, actualScale, scale, creators,
                   evictions, outside>>

\* The stable window has passed since the reconstruction.
DownScalingAllowed ==
    /\ ~crashed
    /\ paused
    /\ paused' = FALSE
    /\ UNCHANGED <<service, kept, loopVars, scale, creators, evictions, outside>>

\* Mutant: only a goroutine that succeeds calls wg.Done().
UpscalingDoneIfAll ==
    /\ ~crashed
    /\ loop = "upscaling" /\ Creating = {} /\ Cardinality(Endpoints) >= desiredCount
    /\ loop' = "receive"
    /\ UNCHANGED <<service, pause, desiredCount, actualScale, scale, creators,
                   evictions, outside>>

\* wg.Wait() returns and EndpointLock is released.
UpscalingDone ==
    /\ ~crashed
    /\ loop = "upscaling" /\ Creating = {}
    /\ loop' = "receive"
    /\ UNCHANGED <<service, pause, desiredCount, actualScale, scale, creators,
                   evictions, outside>>

----------------------------------------------------------------------------
(* One goroutine of doUpscaling *)

Goroutine(s, from, to) ==
    ~crashed /\ creator[s] = from /\ creator' = [creator EXCEPT ![s] = to]

\* Mutant: a sandbox that could not be placed stays counted.
CreationFailsUncounted(s) ==
    /\ Goroutine(s, "placing", "idle")
    /\ UNCHANGED <<service, pause, loopVars, scale, snapshot, evictions, outside>>

\* No node is schedulable, or the worker node answers that it has failed.
CreationFails(s) ==
    /\ Goroutine(s, "placing", "idle")
    /\ ActualScale' = ActualScale - 1
    /\ UNCHANGED <<service, pause, loopVars, Endpoints, snapshot, evictions, outside>>

\* The call fails or times out, and the sandbox may run all the same.
CreateSandboxRPCFails(s) ==
    /\ RPCMayFail
    /\ Goroutine(s, "placing", "idle")
    /\ ActualScale' = ActualScale - 1
    /\ rpcFailed' = rpcFailed \cup {s}
    /\ \/ UNCHANGED running
       \/ running' = running \cup {s}
    /\ UNCHANGED <<service, pause, loopVars, Endpoints, snapshot, evictions, report,
                   list>>

CreateSandbox(s) ==
    /\ Goroutine(s, "placing", "created")
    /\ running' = running \cup {s}
    /\ UNCHANGED <<service, pause, loopVars, scale, snapshot, evictions, report,
                   list, rpcFailed>>

\* The goroutines append to Controller.Endpoints without a lock between
\* them: each reads the slice in one step and stores the longer one in
\* another.
ReadEndpoints(s) ==
    /\ Goroutine(s, "created", "appending")
    /\ snapshot' = [snapshot EXCEPT ![s] = Endpoints]
    /\ UNCHANGED <<service, pause, loopVars, scale, evictions, outside>>

AppendEndpoint(s) ==
    /\ Goroutine(s, "appending", "appended")
    /\ Endpoints' = snapshot[s] \cup {s}
    /\ snapshot' = [snapshot EXCEPT ![s] = {}]
    /\ UNCHANGED <<service, pause, loopVars, ActualScale, evictions, outside>>

\* updateEndpoints sends the new endpoint to the data plane, which adds it
\* to its list; an error of the call is only logged.
updateEndpoints(s) ==
    /\ ~lockLeaked
    /\ Goroutine(s, "appended", "idle")
    /\ \/ /\ deployed
          /\ upstream' = [upstream EXCEPT ![s] = @ + 1]
          /\ UNCHANGED rpcFailed
       \/ /\ RPCMayFail \/ ~deployed
          /\ rpcFailed' = rpcFailed \cup {s}
          /\ UNCHANGED upstream
    /\ UNCHANGED <<service, pause, loopVars, scale, snapshot, evictions, running,
                   report, resent>>

----------------------------------------------------------------------------
(* The goroutine of doDownscaling *)

\* DrainEndpoints removes the first copy of each victim from the list, and
\* answers when the victims' last requests have left.
Removed(v) == [s \in Sandbox |-> IF s \in v /\ upstream[s] > 0 THEN upstream[s] - 1
                                 ELSE upstream[s]]

\* drainSandbox; the deletion follows whether or not the call has failed.
drainSandbox(v) ==
    /\ ~crashed
    /\ v \in draining
    /\ ~lockLeaked
    /\ draining' = draining \ {v}
    /\ killing' = killing \cup v
    /\ \/ /\ deployed
          /\ upstream' = Removed(v)
          /\ UNCHANGED rpcFailed
       \/ /\ RPCMayFail \/ ~deployed
          /\ rpcFailed' = rpcFailed \cup v
          /\ upstream' \in {upstream, Removed(v)}
    /\ UNCHANGED <<service, pause, loopVars, scale, creators, running, report, resent>>

\* Mutant: a victim whose node is not found is not deleted.
deleteSandboxIgnored(s) ==
    /\ ~crashed
    /\ s \in killing
    /\ killing' = killing \ {s}
    /\ UNCHANGED <<service, pause, loopVars, scale, creators, draining, outside>>

\* deleteSandbox; a call that fails may have stopped the sandbox or not.
deleteSandbox(s) ==
    /\ ~crashed
    /\ s \in killing
    /\ killing' = killing \ {s}
    /\ \/ /\ running' = running \ {s}
          /\ UNCHANGED rpcFailed
       \/ /\ RPCMayFail
          /\ rpcFailed' = rpcFailed \cup {s}
          /\ running' \in {running, running \ {s}}
    /\ UNCHANGED <<service, pause, loopVars, scale, creators, draining, report, list>>

----------------------------------------------------------------------------
(* The list of all endpoints *)

\* UpdateEndpointList appends what it is given to the list, also what is in it.
SendAll(endpoints) ==
    \/ /\ deployed
       /\ upstream' = [t \in Sandbox |-> IF t \in endpoints THEN upstream[t] + 1 ELSE upstream[t]]
       /\ resent' = [t \in Sandbox |-> IF t \in endpoints THEN resent[t] + 1 ELSE resent[t]]
    \/ /\ RPCMayFail \/ ~deployed
       /\ UNCHANGED list

\* When a data plane registers, the endpoints of every service are sent to all
\* data planes. The list is read without EndpointLock; no drain is asked for
\* while DataPlaneConnections is locked.
RegisterDataplane ==
    /\ ~crashed
    /\ ~closed /\ ~lockLeaked /\ registrations < MaxRegistrations
    /\ registrations' = registrations + 1
    /\ SendAll(Endpoints)
    /\ UNCHANGED <<autoscaler, deployed, closed, lockLeaked, crashed, pause, loopVars,
                   scale, creators, evictions, running, report, rpcFailed>>

----------------------------------------------------------------------------
(* Sandboxes that fail by themselves *)

SandboxFails(s) ==
    /\ ~crashed
    /\ s \in running
    /\ Cardinality({t \in Sandbox : report[t] # "none"}) < MaxFailures
    /\ running' = running \ {s}
    /\ report' = [report EXCEPT ![s] = "sent"]
    /\ UNCHANGED <<service, pause, loopVars, scale, creators, evictions, list, rpcFailed>>

\* HandleFailure for a sandbox, if the service is still stored: removeEndpoints
\* under EndpointLock, and the list of the endpoints that are left.
HandleFailure(s) ==
    /\ ~crashed
    /\ report[s] = "sent"
    /\ ~closed /\ LockFree /\ ~lockLeaked
    /\ report' = [report EXCEPT ![s] = "handled"]
    /\ Endpoints' = Endpoints \ {s}
    /\ ActualScale' = ActualScale - Cardinality(Endpoints \cap {s})
    /\ SendAll(Endpoints')
    /\ UNCHANGED <<service, pause, loopVars, creators, evictions, running, rpcFailed>>

\* The report does not arrive, or finds the service deregistered.
LoseReport(s) ==
    /\ ~crashed
    /\ report[s] = "sent"
    /\ RPCMayFail \/ closed
    /\ report' = [report EXCEPT ![s] = "lost"]
    /\ UNCHANGED <<service, pause, loopVars, scale, creators, evictions, running,
                   list, rpcFailed>>

----------------------------------------------------------------------------
(* DeregisterService *)

\* removeServiceFromDataplane deletes the deployment, its endpoint list
\* included; when the call fails it returns without unlocking
\* DataPlaneConnections, and DeregisterService gives up.
removeServiceFromDataplane ==
    /\ ~crashed
    /\ MayDeregister /\ deployed /\ ~lockLeaked
    /\ \/ /\ deployed' = FALSE
          /\ UNCHANGED lockLeaked
       \/ /\ RPCMayFail
          /\ lockLeaked' = TRUE
          /\ deployed' \in {TRUE, FALSE}
    /\ upstream' = IF deployed' THEN upstream ELSE [s \in Sandbox |-> 0]
    /\ UNCHANGED <<autoscaler, closed, crashed, registrations, pause, loopVars, scale,
                   creators, evictions, running, report, resent, rpcFailed>>

\* The channel is closed and the service leaves SIStorage.
CloseDesiredStateChannel ==
    /\ ~crashed
    /\ ~deployed /\ ~lockLeaked /\ ~closed
    /\ closed' = TRUE
    /\ UNCHANGED <<autoscaler, deployed, lockLeaked, crashed, registrations, pause,
                   loopVars, scale, creators, evictions, outside>>

----------------------------------------------------------------------------

GoroutineStep(s) ==
    \/ CreationFails(s)
    \/ CreateSandboxRPCFails(s)
    \/ CreateSandbox(s)
    \/ ReadEndpoints(s)
    \/ AppendEndpoint(s)
    \/ updateEndpoints(s)

LoopStep ==
    \/ ReceiveFromClosed
    \/ SwapScale
    \/ doUpscaling
    \/ doDownscaling
    \/ NothingToScale
    \/ UpscalingDone

Next ==
    \/ OnMetricsReceive
    \/ \E d \in 0..ScalingUpperBound : scalingCycle(d)
    \/ SendOnClosed
    \/ LoopStep
    \/ DownScalingAllowed
    \/ RegisterDataplane
    \/ \E s \in Sandbox : GoroutineStep(s)
    \/ \E v \in draining : drainSandbox(v)
    \/ \E s \in Sandbox : \/ deleteSandbox(s)
                           \/ SandboxFails(s)
                           \/ HandleFailure(s)
                           \/ LoseReport(s)
    \/ removeServiceFromDataplane
    \/ CloseDesiredStateChannel

Spec == Init /\ [][Next]_vars

\* Runnable goroutines run, and every call of the loop and of its goroutines
\* ends, by WorkerNodeTrafficTimeout at the latest. Nothing is assumed of
\* metrics, failures and deregistrations.
Fairness ==
    /\ WF_vars(LoopStep)
    /\ \A s \in Sandbox : WF_vars(GoroutineStep(s))
    /\ \A v \in SUBSET Sandbox : WF_vars(drainSandbox(v))
    /\ \A s \in Sandbox : WF_vars(deleteSandbox(s))

FairSpec == Spec /\ Fairness

----------------------------------------------------------------------------
(* Properties *)

\* The values the variables of the scaling loop, of its goroutines and of
\* the data plane's list can have.
TypeOK ==
    /\ autoscaler \in {"off", "first", "on"}
    /\ deployed \in BOOLEAN /\ closed \in BOOLEAN
    /\ lockLeaked \in BOOLEAN /\ crashed \in BOOLEAN
    /\ paused \in BOOLEAN /\ kept \in Nat /\ registrations \in 0..MaxRegistrations
    /\ loop \in {"receive", "drain", "lock", "upscaling"}
    /\ desiredCount \in 0..ScalingUpperBound
    /\ actualScale \in Int /\ ActualScale \in Int
    /\ Endpoints \in SUBSET Sandbox
    /\ creator \in [Sandbox -> {"idle", "placing", "created", "appending", "appended"}]
    /\ snapshot \in [Sandbox -> SUBSET Sandbox]
    /\ draining \in SUBSET SUBSET Sandbox
    /\ killing \in SUBSET Sandbox /\ running \in SUBSET Sandbox /\ rpcFailed \in SUBSET Sandbox
    /\ report \in [Sandbox -> {"none", "sent", "handled", "lost"}]
    /\ upstream \in [Sandbox -> Nat] /\ resent \in [Sandbox -> Nat]

\* Between two scalings ActualScale, from which the loop computes how many
\* sandboxes to create or to evict, is the number of endpoints it knows, less
\* those it did not evict when downscaling was disabled: creations that fail,
\* wherever they fail, are accounted for.
ScaleMatches ==
    loop \in {"receive", "drain"} => ActualScale = Cardinality(Endpoints) - kept

\* A sandbox that runs on a worker node is one the control plane is creating,
\* can evict, or is evicting, unless a call about it has failed. Otherwise
\* nobody would ever stop it.
NoOrphans == running \subseteq Creating \cup Endpoints \cup Evicted \cup rpcFailed

\* When doDownscaling gets to kill sandboxes on the worker nodes the data plane
\* has removed what it was sent when they were created: no request can be sent
\* to them any more, unless the call that drains them, or one before, has
\* failed, or HandleFailure or RegisterDataplane has sent them once more.
KilledAreDrained == \A s \in killing \ rpcFailed : upstream[s] <= resent[s]

\* Nor then: the data plane has them in its list no longer (DrainEndpoints
\* removes one copy).
DrainedForGood == \A s \in killing \ rpcFailed : upstream[s] = 0

\* Why an endpoint has one copy more, at most, than it was sent again: goroutines
\* run only while doUpscaling waits for them, for sandboxes that nobody evicts
\* and whose endpoint they have not sent. The list of all is sent once per
\* failure, of which an identity has one, and once per registration.
Failed == {s \in Sandbox : report[s] # "none"}
Handled == {s \in Sandbox : report[s] = "handled"}

SentOnce ==
    /\ Creating # {} => loop = "upscaling"
    /\ Creating \cap Evicted = {}
    /\ \A s \in Creating : upstream[s] <= resent[s]
    /\ \A s \in Sandbox : upstream[s] <= resent[s] + 1
    /\ \A s \in Sandbox : resent[s] <= Cardinality(Handled) + registrations
    /\ Cardinality(Failed) <= MaxFailures
    /\ \A s \in Sandbox : creator[s] = "placing" => s \notin running
    /\ \A s \in Sandbox : s \in running \/ creator[s] = "placing" => report[s] = "none"

\* Why the scale matches if there is one sandbox at most and none fails by
\* itself: ActualScale counts the endpoints that are not kept and the sandbox
\* that is about to become one, and between SwapScale and doUpscaling the loop's
\* own variable has their number.
Pending == {s \in Sandbox : creator[s] \in {"placing", "created", "appending"}}

OneAtATime ==
    /\ \A s, t \in Creating : s = t
    /\ Pending \cap Endpoints = {}
    /\ kept <= Cardinality(Endpoints)
    /\ loop # "lock" => ActualScale = Cardinality(Endpoints \cup Pending) - kept
    /\ loop = "lock" => ActualScale = desiredCount /\ actualScale = Cardinality(Endpoints) - kept
    /\ \A s \in Sandbox : /\ creator[s] = "appending" => snapshot[s] = Endpoints
                          /\ creator[s] = "appended" => s \in Endpoints

\* doDownscaling, which picks its victims under EndpointLock from a list and
\* a count read at different times, finds as many endpoints as it has to evict.
DownscalingFindsVictims ==
    loop = "lock" => actualScale - desiredCount <= Cardinality(Endpoints)

\* HandleFailure propagates the removal of the endpoint of a sandbox that has
\* failed: the data plane does not keep routing to it.
FailedLeaveDataPlane ==
    \A s \in Sandbox : report[s] = "handled" => upstream[s] = 0

\* The loop comes back to its channel after every doUpscaling, whatever
\* becomes of the sandboxes it creates; otherwise the service would never
\* scale again and HandleFailure would wait for EndpointLock forever.
UpscalingEnds == (loop = "upscaling") ~> (loop # "upscaling")

\* A sandbox doDownscaling has chosen is stopped in the end, unless a call
\* about it fails.
EvictionCompletes ==
    \A s \in Sandbox : (s \in Evicted) ~> (s \notin running \/ s \in rpcFailed)

\* Once the channel is closed ScalingControllerLoop removes all endpoints.
DeregistrationRemovesEndpoints == closed ~> (Endpoints = {} \/ crashed)
=============================================================================
