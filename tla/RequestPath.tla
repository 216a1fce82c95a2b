----------------------------- MODULE RequestPath -----------------------------
(***************************************************************************)
(* The path of invocations of one function through a data plane: the       *)
(* handler of the synchronous proxy (proxy/sync_proxy_handler.go,          *)
(* proxy/utils.go), load balancing (load_balancing.go), and the            *)
(* FunctionMetadata it shares with AddEndpoints, DrainEndpoints and the    *)
(* loop that sends metrics (function_metadata.go).                         *)
(*                                                                         *)
(* A step of a handler is an atomic operation, a channel operation or a    *)
(* critical section of the metadata's lock. Which endpoint a policy picks  *)
(* is abstracted to any endpoint of the list. A request is an identity     *)
(* used once. An endpoint is one UpstreamEndpoint object: the control      *)
(* plane may send a sandbox again, which makes another object for it.      *)
(***************************************************************************)
EXTENDS Integers, Sequences, FiniteSets

CONSTANTS
    Request,
    Endpoint,
    Sandbox,            \* IDs (and URLs) of sandboxes
    None,               \* no endpoint, no sandbox
    SandboxParallelism, \* tokens of an endpoint's Capacity
    LoadBalancingRetries,
    MayDrain,           \* does the control plane drain endpoints?
    MayCleanCache       \* does it make the data plane clean its cache?

ASSUME RequestPathAssumption ==
    /\ None \notin Endpoint \cup Sandbox
    /\ SandboxParallelism \in Nat \ {0}
    /\ LoadBalancingRetries \in Nat \ {0}
    /\ MayDrain \in BOOLEAN
    /\ MayCleanCache \in BOOLEAN

VARIABLES
    pc,                   \* where the handler of each request is
    target,               \* the endpoint it was given
    tries,                \* the attempts at load balancing it has made
    coldStart,            \* its cold start channel, a buffer of one outcome
    listener,             \* its contextTerminationHandler
    lock,                 \* who holds the metadata's lock across steps
    queue,                \* FunctionMetadata.queue
    ID,                   \* the sandbox an endpoint was made for, if it was made
    upstreamEndpoints,    \* FunctionMetadata.upstreamEndpoints, in order
    activeEndpointCount,
    capacity,             \* tokens in the Capacity channel of each endpoint
    InFlight,             \* and its other fields
    Drained,
    DrainingCallback,     \* nil, or the number of signals in the buffer of one
    drain,                \* where DrainEndpoints is with each endpoint
    draining,             \* the sandbox it drains while it holds the lock
    inflightRequests,     \* scalingMetric.inflightRequests
    autoscalingTriggered,
    metrics,              \* where sendMetricsToAutoscaler is
    sampled               \* the number of requests it has read

handlers == <<pc, target, tries>>
waiting == <<coldStart, listener, queue>>
list == <<ID, upstreamEndpoints, activeEndpointCount>>
fields == <<capacity, InFlight, Drained, DrainingCallback, drain, draining>>
metricVars == <<autoscalingTriggered, metrics, sampled>>
vars == <<handlers, waiting, lock, list, fields, inflightRequests, metricVars>>

At(r, from, to) == pc[r] = from /\ pc' = [pc EXCEPT ![r] = to]

\* The endpoints of the list.
Listed == {upstreamEndpoints[i] : i \in DOMAIN upstreamEndpoints}

\* Handlers that have counted themselves in inflightRequests.
Active == {r \in Request : pc[r] \notin {"idle", "done"}}

\* Handlers that hold a token of an endpoint's Capacity.
Holding(e) == {r \in Request :
    target[r] = e /\ pc[r] \in {"took", "proxying", "returned", "last", "signal", "stuck", "giveBack"}}

Init ==
    /\ pc = [r \in Request |-> "idle"]
    /\ target = [r \in Request |-> None]
    /\ tries = [r \in Request |-> 0]
    /\ coldStart = [r \in Request |-> <<>>]
    /\ listener = [r \in Request |-> "none"]
    /\ lock = "free"
    /\ queue = <<>>
    /\ ID = [e \in Endpoint |-> None]
    /\ upstreamEndpoints = <<>>
    /\ activeEndpointCount = 0
    /\ capacity = [e \in Endpoint |-> SandboxParallelism]
    /\ InFlight = [e \in Endpoint |-> 0]
    /\ Drained = [e \in Endpoint |-> 0]
    /\ DrainingCallback = [e \in Endpoint |-> "nil"]
    /\ drain = [e \in Endpoint |-> "no"]
    /\ draining = None
    /\ inflightRequests = 0
    /\ autoscalingTriggered = 0
    /\ metrics = "off"
    /\ sampled = 0

----------------------------------------------------------------------------
(* TryWarmStart *)

\* The request is counted.
TryWarmStart(r) ==
    /\ At(r, "idle", "trigger")
    /\ inflightRequests' = inflightRequests + 1
    /\ UNCHANGED <<target, tries, waiting, lock, list, fields, metricVars>>

\* Whoever swaps autoscalingTriggered starts the loop that sends metrics.
triggerAutoscaling(r) ==
    /\ At(r, "trigger", "check")
    /\ autoscalingTriggered' = 1
    /\ metrics' = IF autoscalingTriggered = 0 THEN "load" ELSE metrics
    /\ UNCHANGED <<target, tries, waiting, lock, list, fields, inflightRequests,
                   sampled>>

\* The count of endpoints is read without the lock.
CheckEndpoints(r) ==
    /\ pc[r] = "check"
    /\ pc' = [pc EXCEPT ![r] = IF activeEndpointCount = 0 THEN "enqueue" ELSE "balance"]
    /\ UNCHANGED <<target, tries, waiting, lock, list, fields, inflightRequests,
                   metricVars>>

\* A cold start: the request's channel is queued, and the handler starts to
\* wait on it, together with the listener for the end of its context.
Enqueue(r) ==
    /\ lock = "free"
    /\ At(r, "enqueue", "queued")
    /\ queue' = Append(queue, r)
    /\ listener' = [listener EXCEPT ![r] = "armed"]
    /\ UNCHANGED <<target, tries, coldStart, lock, list, fields,
                   inflightRequests, metricVars>>

\* contextTerminationHandler: the context ends when the client goes away or
\* the handler has returned. The send waits for room in the buffer.
contextTerminationHandler(r) ==
    /\ listener[r] = "armed"
    /\ coldStart[r] = <<>>
    /\ listener' = [listener EXCEPT ![r] = "none"]
    /\ coldStart' = [coldStart EXCEPT ![r] = <<"CanceledColdStart">>]
    /\ UNCHANGED <<handlers, queue, lock, list, fields, inflightRequests,
                   metricVars>>

\* The handler receives from its channel; it answers 504 if it was canceled,
\* and else nobody looks at what the listener may yet send.
ReceiveOutcome(r) ==
    /\ pc[r] = "queued"
    /\ coldStart[r] # <<>>
    /\ coldStart' = [coldStart EXCEPT ![r] = <<>>]
    /\ pc' = [pc EXCEPT ![r] = IF Head(coldStart[r]) = "CanceledColdStart"
                               THEN "leave" ELSE "balance"]
    /\ listener' = [listener EXCEPT ![r] = "none"]
    /\ UNCHANGED <<target, tries, queue, lock, list, fields,
                   inflightRequests, metricVars>>

----------------------------------------------------------------------------
(* DoLoadBalancing *)

\* runLoadBalancingAlgorithm, under the read lock. It answers nil when there
\* is no endpoint, and reading the Capacity of nil panics; the HTTP server
\* recovers after the deferred calls.
runLoadBalancingAlgorithm(r) ==
    /\ lock = "free"
    /\ pc[r] = "balance"
    /\ \/ \E e \in Listed :
             /\ target' = [target EXCEPT ![r] = e]
             /\ pc' = [pc EXCEPT ![r] = "capacity"]
       \/ /\ upstreamEndpoints = <<>>
          /\ target' = [target EXCEPT ![r] = None]
          /\ pc' = [pc EXCEPT ![r] = "panic"]
    /\ UNCHANGED <<tries, waiting, lock, list, fields, inflightRequests,
                   metricVars>>

\* Mutant: capacity is looked at and not taken.
TakeCapacityShared(r) ==
    /\ At(r, "capacity", "took")
    /\ capacity[target[r]] > 0
    /\ UNCHANGED <<target, tries, waiting, lock, list, fields, inflightRequests,
                   metricVars>>

\* waitForCapacityOrDie receives a token ...
TakeCapacity(r) ==
    /\ At(r, "capacity", "took")
    /\ capacity[target[r]] > 0
    /\ capacity' = [capacity EXCEPT ![target[r]] = @ - 1]
    /\ UNCHANGED <<target, tries, waiting, lock, list, InFlight, Drained,
                   DrainingCallback, drain, draining, inflightRequests, metricVars>>

\* Mutant: the attempts are not counted.
CapacityTimeoutForever(r) ==
    /\ At(r, "capacity", "balance")
    /\ UNCHANGED <<target, tries, waiting, lock, list, fields, inflightRequests,
                   metricVars>>

\* ... or times out. After the last attempt the handler answers 410.
CapacityTimeout(r) ==
    /\ pc[r] = "capacity"
    /\ tries' = [tries EXCEPT ![r] = @ + 1]
    /\ pc' = [pc EXCEPT ![r] = IF tries'[r] = LoadBalancingRetries THEN "leave"
                               ELSE "balance"]
    /\ target' = [target EXCEPT ![r] = None]
    /\ UNCHANGED <<waiting, lock, list, fields, inflightRequests, metricVars>>

CountInFlight(r) ==
    /\ At(r, "took", "proxying")
    /\ InFlight' = [InFlight EXCEPT ![target[r]] = @ + 1]
    /\ UNCHANGED <<target, tries, waiting, lock, list, capacity, Drained,
                   DrainingCallback, drain, draining, inflightRequests, metricVars>>

----------------------------------------------------------------------------
(* The way back: giveBackCCCapacity and the other deferred calls *)

\* The sandbox has answered, or the connection to it is broken.
DecrementInFlight(r) ==
    /\ pc[r] = "proxying"
    /\ InFlight' = [InFlight EXCEPT ![target[r]] = @ - 1]
    /\ pc' = [pc EXCEPT ![r] = IF InFlight'[target[r]] = 0 THEN "last" ELSE "returned"]
    /\ UNCHANGED <<target, tries, waiting, lock, list, capacity, Drained,
                   DrainingCallback, drain, draining, inflightRequests, metricVars>>

\* The last request at an endpoint that is drained signals so. A send on a
\* nil channel never returns.
CheckDrained(r) ==
    /\ pc[r] \in {"last", "returned"}
    /\ pc' = [pc EXCEPT ![r] =
          IF pc[r] = "returned" \/ Drained[target[r]] = 0 THEN "giveBack"
          ELSE IF DrainingCallback[target[r]] = "nil" THEN "stuck" ELSE "signal"]
    /\ UNCHANGED <<target, tries, waiting, lock, list, fields, inflightRequests,
                   metricVars>>

SignalDrained(r) ==
    /\ At(r, "signal", "giveBack")
    /\ DrainingCallback[target[r]] = "empty"
    /\ DrainingCallback' = [DrainingCallback EXCEPT ![target[r]] = "full"]
    /\ UNCHANGED <<target, tries, waiting, lock, list, capacity, InFlight,
                   Drained, drain, draining, inflightRequests, metricVars>>

GiveBack(r) ==
    /\ At(r, "giveBack", "leave")
    /\ capacity' = [capacity EXCEPT ![target[r]] = @ + 1]
    /\ UNCHANGED <<target, tries, waiting, lock, list, InFlight, Drained,
                   DrainingCallback, drain, draining, inflightRequests, metricVars>>

\* Mutant: a panic skips the deferred call.
DecreaseInflightSkipped(r) ==
    /\ pc[r] \in {"leave", "panic"}
    /\ pc' = [pc EXCEPT ![r] = "done"]
    /\ inflightRequests' = IF pc[r] = "panic" THEN inflightRequests
                           ELSE inflightRequests - 1
    /\ UNCHANGED <<target, tries, waiting, lock, list, fields, metricVars>>

DecreaseInflight(r) ==
    /\ pc[r] \in {"leave", "panic"}
    /\ pc' = [pc EXCEPT ![r] = "done"]
    /\ target' = [target EXCEPT ![r] = None]
    /\ tries' = [tries EXCEPT ![r] = 0]
    /\ inflightRequests' = inflightRequests - 1
    /\ UNCHANGED <<waiting, lock, list, fields, metricVars>>

----------------------------------------------------------------------------
(* The control plane's calls *)

\* What a call may bring: nothing (HandleFailure sends what endpoints are
\* left), or one sandbox, for which a new UpstreamEndpoint is made.
Unused == {e \in Endpoint : ID[e] = None}
Patches == {<<>>} \cup (IF Unused = {} THEN {} ELSE {<<CHOOSE e \in Unused : TRUE>>})

\* AddEndpoints: the list and the count change under the lock. Whatever is
\* sent is appended, a sandbox that is in the list already too.
AddEndpoints(patch, s) ==
    /\ lock = "free"
    /\ lock' = "add"
    /\ ID' = [e \in Endpoint |-> IF \E i \in DOMAIN patch : patch[i] = e THEN s ELSE ID[e]]
    /\ upstreamEndpoints' = upstreamEndpoints \o patch
    /\ activeEndpointCount' = Len(upstreamEndpoints')
    /\ UNCHANGED <<handlers, waiting, fields, inflightRequests, metricVars>>

\* Mutant: the request that is signalled stays in the queue.
DequeueKeeps ==
    /\ lock = "add" /\ upstreamEndpoints # <<>> /\ queue # <<>>
    /\ coldStart[Head(queue)] = <<>>
    /\ coldStart' = [coldStart EXCEPT ![Head(queue)] = <<"SuccessfulColdStart">>]
    /\ UNCHANGED <<handlers, listener, queue, lock, list, fields,
                   inflightRequests, metricVars>>

\* Each queued request is sent its outcome, the lock held; the send waits
\* for room in the buffer.
Dequeue ==
    /\ lock = "add" /\ upstreamEndpoints # <<>> /\ queue # <<>>
    /\ coldStart[Head(queue)] = <<>>
    /\ queue' = Tail(queue)
    /\ coldStart' = [coldStart EXCEPT ![Head(queue)] = <<"SuccessfulColdStart">>]
    /\ UNCHANGED <<handlers, listener, lock, list, fields, inflightRequests,
                   metricVars>>

AddEndpointsDone ==
    /\ lock = "add" /\ (upstreamEndpoints = <<>> \/ queue = <<>>)
    /\ lock' = "free"
    /\ UNCHANGED <<handlers, waiting, list, fields, inflightRequests, metricVars>>

\* RemoveAllEndpoints
cleanCache ==
    /\ MayCleanCache
    /\ lock = "free"
    /\ upstreamEndpoints' = <<>>
    /\ activeEndpointCount' = 0
    /\ UNCHANGED <<handlers, waiting, lock, ID, fields, inflightRequests,
                   metricVars>>

\* DrainEndpoints of one sandbox. It does nothing to one that is not listed.
DrainEndpoints(s) ==
    /\ MayDrain
    /\ lock = "free" /\ \E e \in Listed : ID[e] = s
    /\ lock' = "drain"
    /\ draining' = s
    /\ UNCHANGED <<handlers, waiting, list, capacity, InFlight, Drained,
                   DrainingCallback, drain, inflightRequests, metricVars>>

DrainStep(e, from, to) == drain[e] = from /\ drain' = [drain EXCEPT ![e] = to]

\* markEndpointsAsDraining goes through all endpoints of the sandbox in the
\* order of the list. The flag of one that was not drained is set ...
MarkDrained(e) ==
    /\ lock = "drain" /\ ID[e] = draining
    /\ \E i \in DOMAIN upstreamEndpoints :
          /\ upstreamEndpoints[i] = e
          /\ \A j \in 1..(i - 1) : ID[upstreamEndpoints[j]] = draining
                 => drain[upstreamEndpoints[j]] \in {"marked", "wait", "done"}
    /\ DrainStep(e, "no", "make")
    /\ Drained' = [Drained EXCEPT ![e] = 1]
    /\ UNCHANGED <<handlers, waiting, lock, list, capacity, InFlight,
                   DrainingCallback, draining, inflightRequests, metricVars>>

\* ... the channel is made that will say that the endpoint is drained ...
MakeCallback(e) ==
    /\ DrainStep(e, "make", "read")
    /\ DrainingCallback' = [DrainingCallback EXCEPT ![e] = "empty"]
    /\ UNCHANGED <<handlers, waiting, lock, list, capacity, InFlight, Drained,
                   draining, inflightRequests, metricVars>>

\* ... and, if nothing is in flight, it is said at once.
ReadInFlight(e) ==
    /\ drain[e] = "read"
    /\ drain' = [drain EXCEPT ![e] = IF InFlight[e] = 0 THEN "send" ELSE "marked"]
    /\ UNCHANGED <<handlers, waiting, lock, list, capacity, InFlight, Drained,
                   DrainingCallback, draining, inflightRequests, metricVars>>

SendCallback(e) ==
    /\ DrainStep(e, "send", "marked")
    /\ DrainingCallback[e] = "empty"
    /\ DrainingCallback' = [DrainingCallback EXCEPT ![e] = "full"]
    /\ UNCHANGED <<handlers, waiting, lock, list, capacity, InFlight, Drained,
                   draining, inflightRequests, metricVars>>

\* removeEndpoints drops the first endpoint of the sandbox, and only that
\* one; the lock is released, and the call waits for what it has marked.
removeEndpoints ==
    /\ lock = "drain"
    /\ \A e \in Listed : ID[e] = draining => drain[e] \in {"marked", "wait", "done"}
    /\ \E i \in DOMAIN upstreamEndpoints :
          /\ ID[upstreamEndpoints[i]] = draining
          /\ \A j \in 1..(i - 1) : ID[upstreamEndpoints[j]] # draining
          /\ upstreamEndpoints' = SubSeq(upstreamEndpoints, 1, i - 1)
                                   \o SubSeq(upstreamEndpoints, i + 1, Len(upstreamEndpoints))
    /\ activeEndpointCount' = Len(upstreamEndpoints')
    /\ drain' = [e \in Endpoint |-> IF drain[e] = "marked" THEN "wait" ELSE drain[e]]
    /\ lock' = "free"
    /\ draining' = None
    /\ UNCHANGED <<handlers, waiting, ID, capacity, InFlight, Drained,
                   DrainingCallback, inflightRequests, metricVars>>

waitForDrainingToComplete(e) ==
    /\ DrainStep(e, "wait", "done")
    /\ DrainingCallback[e] = "full"
    /\ DrainingCallback' = [DrainingCallback EXCEPT ![e] = "empty"]
    /\ UNCHANGED <<handlers, waiting, lock, list, capacity, InFlight, Drained,
                   draining, inflightRequests, metricVars>>

----------------------------------------------------------------------------
(* sendMetricsToAutoscaler *)

\* The loop reads the number of requests, the lock held, and reports it ...
LoadMetric ==
    /\ metrics = "load" /\ lock = "free"
    /\ lock' = "metrics"
    /\ metrics' = "store"
    /\ sampled' = inflightRequests
    /\ UNCHANGED <<handlers, waiting, list, fields, inflightRequests,
                   autoscalingTriggered>>

\* ... and ends if it was zero, else it waits for the next tick.
StoreTriggered ==
    /\ metrics = "store"
    /\ lock' = "free"
    /\ metrics' = IF sampled = 0 THEN "off" ELSE "load"
    /\ autoscalingTriggered' = IF sampled = 0 THEN 0 ELSE autoscalingTriggered
    /\ sampled' = 0
    /\ UNCHANGED <<handlers, waiting, list, fields, inflightRequests>>

----------------------------------------------------------------------------

HandlerStep(r) ==
    \/ triggerAutoscaling(r)
    \/ CheckEndpoints(r)
    \/ Enqueue(r)
    \/ ReceiveOutcome(r)
    \/ runLoadBalancingAlgorithm(r)
    \/ TakeCapacity(r)
    \/ CapacityTimeout(r)
    \/ CountInFlight(r)
    \/ DecrementInFlight(r)
    \/ CheckDrained(r)
    \/ SignalDrained(r)
    \/ GiveBack(r)
    \/ DecreaseInflight(r)

AddStep == Dequeue \/ AddEndpointsDone

DrainingStep(e) ==
    \/ MarkDrained(e)
    \/ MakeCallback(e)
    \/ ReadInFlight(e)
    \/ SendCallback(e)
    \/ waitForDrainingToComplete(e)

MetricsStep == LoadMetric \/ StoreTriggered

Next ==
    \/ \E r \in Request : \/ TryWarmStart(r)
                          \/ HandlerStep(r)
                          \/ contextTerminationHandler(r)
    \/ \E patch \in Patches, s \in Sandbox : AddEndpoints(patch, s)
    \/ AddStep
    \/ cleanCache
    \/ \E s \in Sandbox : DrainEndpoints(s)
    \/ \E e \in Endpoint : DrainingStep(e)
    \/ removeEndpoints
    \/ MetricsStep

Spec == Init /\ [][Next]_vars

\* The Go scheduler runs every goroutine that can run, and a mutex is handed
\* to every goroutine that waits for it (strong fairness: the lock is taken
\* and released in between). Sandboxes answer or their connection breaks.
\* Nothing is assumed of clients and of the control plane.
Fairness ==
    /\ \A r \in Request : SF_vars(HandlerStep(r))
    /\ WF_vars(AddStep)
    /\ \A e \in Endpoint : WF_vars(DrainingStep(e))
    /\ WF_vars(removeEndpoints)
    /\ SF_vars(MetricsStep)

FairSpec == Spec /\ Fairness

----------------------------------------------------------------------------
(* Properties *)

\* The values of the handlers' and the metadata's variables. A cold start
\* channel never holds more than its buffer of one outcome.
TypeOK ==
    /\ pc \in [Request -> {"idle", "trigger", "check", "enqueue", "queued", "balance",
                           "capacity", "took", "proxying", "returned", "last", "signal",
                           "stuck", "giveBack", "leave", "panic", "done"}]
    /\ target \in [Request -> Endpoint \cup {None}]
    /\ tries \in [Request -> 0..LoadBalancingRetries]
    /\ coldStart \in [Request -> {<<>>, <<"SuccessfulColdStart">>, <<"CanceledColdStart">>}]
    /\ listener \in [Request -> {"none", "armed"}]
    /\ lock \in {"free", "add", "drain", "metrics"}
    /\ queue \in Seq(Request)
    /\ ID \in [Endpoint -> Sandbox \cup {None}]
    /\ upstreamEndpoints \in Seq(Endpoint)
    /\ activeEndpointCount \in Nat
    /\ capacity \in [Endpoint -> 0..SandboxParallelism]
    /\ InFlight \in [Endpoint -> Int]
    /\ Drained \in [Endpoint -> {0, 1}]
    /\ DrainingCallback \in [Endpoint -> {"nil", "empty", "full"}]
    /\ drain \in [Endpoint -> {"no", "make", "read", "send", "marked", "wait", "done"}]
    /\ draining \in Sandbox \cup {None}
    /\ inflightRequests \in Int
    /\ autoscalingTriggered \in {0, 1}
    /\ metrics \in {"off", "load", "store"}
    /\ sampled \in Int

\* The metric the autoscaler scales by is the number of requests whose
\* handlers have not returned, on every path out of the handler: served,
\* canceled (504), out of capacity (410), or a panic.
InflightMatches == inflightRequests = Cardinality(Active)

\* No endpoint is sent more than SandboxParallelism requests at a time: the
\* tokens of an UpstreamEndpoint are taken and given back in pairs, also by
\* the handlers at one that has been drained or dropped from the list.
ConcurrencyLimit ==
    \A e \in Endpoint : capacity[e] + Cardinality(Holding(e)) = SandboxParallelism

\* No sandbox is: what an UpstreamEndpoint stands for. A sandbox that was
\* sent again has an endpoint with tokens of its own.
SandboxLimit ==
    \A s \in Sandbox :
        Cardinality(UNION {Holding(e) : e \in {f \in Endpoint : ID[f] = s}}) <= SandboxParallelism

\* An endpoint's InFlight is the number of requests that are at its sandbox:
\* DrainEndpoints takes zero as leave to have it killed.
AtSandbox(e) == {r \in Request : target[r] = e /\ pc[r] = "proxying"}
EndpointCountsRequests == \A e \in Endpoint : InFlight[e] = Cardinality(AtSandbox(e))

\* Why: a handler that goes for a token has an endpoint, and an attempt left
\* until it gets there; the handlers that count themselves are finitely many.
Routing ==
    \A r \in Request :
        /\ pc[r] \in {"capacity", "took", "proxying", "returned", "last", "signal", "stuck",
                      "giveBack"} => target[r] \in Endpoint
        /\ pc[r] \in {"idle", "trigger", "check", "enqueue", "queued", "balance", "capacity"}
              => tries[r] < LoadBalancingRetries

Accounting ==
    /\ TypeOK
    /\ Routing
    /\ IsFiniteSet(Active)
    /\ InflightMatches
    /\ ConcurrencyLimit
    /\ EndpointCountsRequests

\* AddEndpoints, which sends to the queued requests with the lock held, gets
\* to the end of the queue and releases the lock, canceled requests in the
\* queue or not.
AddEndpointsEnds == (lock = "add") ~> (lock # "add")

\* A request that was given an endpoint or resumed from a cold start leaves
\* the handler in the end, unless an endpoint is drained meanwhile: a drain
\* can leave requests, or itself, waiting for ever on its callback channel.
RoutedRequestsEnd ==
    \A r \in Request :
        (pc[r] = "balance") ~> (pc[r] = "done" \/ \E e \in Endpoint : Drained[e] = 1)

\* A request that waits for a cold start while there is an endpoint is
\* resumed, unless the endpoint goes away.
ColdStartResolved ==
    \A r \in Request : (pc[r] = "queued" /\ upstreamEndpoints # <<>>)
                            ~> (pc[r] # "queued" \/ upstreamEndpoints = <<>>)

\* A request past triggerAutoscaling has a metrics loop that will report it
\* to the control plane.
InFlightIsReported ==
    (\E r \in Active : pc[r] # "trigger") => metrics # "off"

\* A handler that finds no endpoint answers so (410) and does not panic.
GoneIsAnswered == \A r \in Request : pc[r] # "panic"

\* When DrainEndpoints returns, and the control plane goes on to kill the
\* sandbox, no request is at the endpoint or on its way to it.
DrainWaits == \A e \in Endpoint : drain[e] = "done" => Holding(e) = {}

\* DrainEndpoints gets past its critical section: an endpoint is removed and
\* the lock released.
DrainRemoves == \A e \in Endpoint : (drain[e] = "make") ~> (drain[e] = "wait")
=============================================================================
