------------------------------ MODULE WorkerNode ------------------------------
(***************************************************************************)
(* The daemon of a worker node: sandboxes are created and deleted by calls *)
(* of the control plane, as containers or as virtual machines; each has a  *)
(* port of the host with its rules, a machine also has a network.  The     *)
(* process monitor tells a goroutine of each sandbox that its process has  *)
(* ended, and that one tells the control plane.  The daemon can stop, end  *)
(* with an error, and start again; the kernel keeps what it has.           *)
(***************************************************************************)
EXTENDS NetworkPool

CONSTANTS
  Runtimes,  \* containerd, firecracker or both
  Sandbox, Port, None,
  Deleter    \* concurrent callers of DeleteSandbox

ASSUME NodeAssumption ==
  /\ Runtimes \subseteq {"containerd", "firecracker"}
  /\ None \notin Sandbox \cup Port \cup Deleter \cup Network

VARIABLES
  runtime, UseSnapshots,          \* as configured
  daemon,
  pc, port, network, fromSnapshot,
  images, snapshot,               \* the image is there; whose machine the snapshot is of
  Metadata, portsInUse,
  portMutex,                      \* who looks for a port for ever
  rules,                          \* in the tables of the kernel
  process, pid, killed,           \* of the operating system
  containers,                     \* what containerd has of each sandbox: nothing, the container,
                                  \* the task besides, and the network of the CNI plugins besides
  abandoned,                      \* left as they were by a step that has failed (history)
  events,                         \* processes whose end the monitor has to read
  NotifyChannels, monitor, code,  \* what the monitor is sending, and to whom
  watcher,                        \* the goroutine of each sandbox
  deletion                        \* how far each DeleteSandbox is

config_ == <<runtime, UseSnapshots>>
cache == <<images, snapshot>>
ports == <<portsInUse, portMutex>>
processes == <<process, pid, killed>>
kernel == <<processes, containers, abandoned>>
monitoring == <<events, NotifyChannels, monitor, code, watcher>>
vars == <<networks, config_, daemon, pc, port, network, fromSnapshot, cache, Metadata,
          ports, rules, kernel, monitoring, deletion>>

Caller == Deleter \cup {None}  \* None: CreateSandbox cleans up after itself
Ended == {"created", "failed", "lost"}

TypeOK ==
  /\ PoolTypeOK
  /\ runtime \in Runtimes /\ UseSnapshots \in BOOLEAN
  /\ daemon \in {"down", "boot", "registering", "up", "stopped", "dead"}
  /\ pc \in [Sandbox -> Ended \cup {"idle", "image", "network", "start", "port", "pid", "metadata",
                                    "channel", "rules", "probe", "snapshot", "cleanup"}]
  /\ port \in [Sandbox -> Port \cup {None}] /\ network \in [Sandbox -> Network \cup {None}]
  /\ fromSnapshot \in [Sandbox -> BOOLEAN]
  /\ images \in BOOLEAN /\ snapshot \in Sandbox \cup {None}
  /\ Metadata \in SUBSET Sandbox
  /\ portsInUse \in SUBSET Port /\ portMutex \in Sandbox \cup {None}
  /\ rules \in SUBSET (Port \X Sandbox)
  /\ process \in [Sandbox -> {"none", "alive", "ended"}]
  /\ pid \in [Sandbox -> Sandbox \cup {None}] /\ killed \in [Sandbox -> BOOLEAN]
  /\ containers \in [Sandbox -> {"none", "container", "task", "network"}]
  /\ abandoned \in SUBSET Sandbox
  /\ events \in SUBSET Sandbox
  /\ NotifyChannels \in [Sandbox -> Sandbox \cup {None}]
  /\ monitor \in Sandbox \cup {None} /\ code \in {"SIGKILL", "other"}
  /\ watcher \in [Sandbox -> {"none", "waiting", "failed", "reported", "unreported", "killed"}]
  /\ deletion \in [Caller -> [Sandbox -> {"none", "got", "removed", "stop", "network", "done"}]]

(* What the daemon has in its memory when it starts.  *)
Fresh(v) == [s \in Sandbox |-> v]
Init ==
  /\ PoolInit /\ namespaces = {}
  /\ runtime \in Runtimes /\ UseSnapshots \in BOOLEAN
  /\ runtime = "containerd" => ~UseSnapshots
  /\ daemon = "down"
  /\ pc = Fresh("idle") /\ port = Fresh(None) /\ network = Fresh(None) /\ fromSnapshot = Fresh(FALSE)
  /\ images = FALSE /\ snapshot = None
  /\ Metadata = {} /\ portsInUse = {} /\ portMutex = None /\ rules = {}
  /\ process = Fresh("none") /\ pid = Fresh(None) /\ killed = Fresh(FALSE)
  /\ containers = Fresh("none") /\ abandoned = {}
  /\ events = {} /\ NotifyChannels = Fresh(None) /\ monitor = None /\ code = "other" /\ watcher = Fresh("none")
  /\ deletion = [d \in Caller |-> Fresh("none")]

-----------------------------------------------------------------------------
(* The daemon.  *)
NewWorkerNode ==
  /\ daemon \in {"down", "stopped"} \cup IF "crash" \in Faults THEN {"dead"} ELSE {}
  /\ IF runtime = "firecracker"
     THEN daemon' = "boot" /\ NewNetworkPoolManager
     ELSE daemon' = "registering" /\ UNCHANGED networks
  /\ UNCHANGED <<config_, pc, port, network, fromSnapshot, cache, Metadata, ports, rules, kernel,
                 monitoring, deletion>>

PopulateNetworkPool ==
  /\ populate \/ populateStarts
  /\ daemon' = IF daemon = "boot" /\ ~populating' THEN "registering" ELSE daemon
  /\ UNCHANGED <<config_, pc, port, network, fromSnapshot, cache, Metadata, ports, rules,
                 kernel, monitoring, deletion>>

RegisterNodeWithControlPlane ==
  /\ daemon = "registering"
  /\ daemon' = "up"
  /\ UNCHANGED <<networks, config_, pc, port, network, fromSnapshot, cache, Metadata, ports,
                 rules, kernel, monitoring, deletion>>

(* The memory is gone; sandboxes go on without the daemon and keep what they
   have, of which only the rules and the namespaces matter to the next one.  *)
ProcessEnds(how) ==
  /\ daemon' = how
  /\ pc' = [s \in Sandbox |-> IF pc[s] = "idle" THEN "idle" ELSE "lost"]
  /\ port' = Fresh(None) /\ network' = Fresh(None) /\ fromSnapshot' = Fresh(FALSE)
  /\ process' = Fresh("none") /\ pid' = Fresh(None) /\ killed' = Fresh(FALSE)
  /\ containers' = Fresh("none") /\ abandoned' = {}
  /\ pool' = <<>> /\ counter' = 0 /\ populating' = FALSE /\ populateWanted' = FALSE
  /\ images' = FALSE /\ snapshot' = None
  /\ Metadata' = {} /\ portsInUse' = {} /\ portMutex' = None
  /\ events' = {} /\ NotifyChannels' = Fresh(None) /\ monitor' = None /\ code' = "other" /\ watcher' = Fresh("none")
  /\ deletion' = [d \in Caller |-> Fresh("none")]
  /\ UNCHANGED config_

(* What the daemon gives up after: a registration that is not answered, a
   heartbeat for which no replica is found, no address for another network.  *)
sendInstructionToControlPlane == daemon = "registering" /\ "register" \in Faults
sendHeartbeatLoop == daemon = "up" /\ "heartbeat" \in Faults

Fatal ==
  /\ \/ sendInstructionToControlPlane
     \/ sendHeartbeatLoop
     \/ RunOutOfAddresses /\ populating /\ Len(pool) < MaxNetworkPoolSize
     \/ RunOutOfAddresses /\ ~populating /\ pool = <<>> /\ \E s \in Sandbox : pc[s] = "network"
  /\ ProcessEnds("dead")
  /\ UNCHANGED <<namespaces, rules>>

resetIPTables == rules' = {}

(* The signal: networks, snapshots and rules are deleted, sandboxes are not.  *)
WaitTerminationSignal ==
  /\ daemon = "up"
  /\ ProcessEnds("stopped")
  /\ DeleteUnusedNetworkDevices
  /\ resetIPTables

-----------------------------------------------------------------------------
(* CreateSandbox: one call for each sandbox.  *)
node == <<config_, daemon>>

Goes(s, from, to) ==
  /\ daemon = "up" /\ pc[s] = from
  /\ pc' = [pc EXCEPT ![s] = to]

MayFail(s, fault, from, to) ==
  \/ Goes(s, from, to)
  \/ fault \in Faults /\ Goes(s, from, "failed")

CreateSandbox(s) ==
  /\ Goes(s, "idle", IF runtime = "containerd" THEN "image" ELSE "network")
  /\ fromSnapshot' = [fromSnapshot EXCEPT ![s] = snapshot # None]
  /\ UNCHANGED <<networks, node, port, network, cache, Metadata, ports, rules, kernel, monitoring, deletion>>

GetImage(s) ==
  /\ IF images THEN Goes(s, "image", "start") ELSE MayFail(s, "image", "image", "start")
  /\ images' = (images \/ pc'[s] = "start")
  /\ UNCHANGED <<networks, node, port, network, fromSnapshot, snapshot, Metadata, ports, rules, kernel, monitoring, deletion>>

(* A process has a number that no other process has.  *)
Start(s) ==
  /\ process' = [process EXCEPT ![s] = "alive"]
  /\ \E p \in IF "reuse" \in Faults THEN Sandbox ELSE {s} :
       /\ \A t \in Sandbox : pid[t] = p => process[t] # "alive"
       /\ pid' = [pid EXCEPT ![s] = p]
  /\ UNCHANGED killed

(* The container, its task, the network and the start: what was there before a
   step that fails is left as it is.  *)
StartContainer(s) ==
  /\ runtime = "containerd"
  /\ \/ /\ Goes(s, "start", "port") /\ Start(s)
        /\ containers' = [containers EXCEPT ![s] = "network"]
        /\ UNCHANGED abandoned
     \/ /\ "start" \in Faults /\ Goes(s, "start", "failed")
        /\ \E left \in {"none", "container", "task", "network"} :
             /\ IF left \in {"task", "network"} THEN Start(s) ELSE UNCHANGED processes
             /\ containers' = [containers EXCEPT ![s] = left]
             /\ abandoned' = abandoned \cup IF left = "none" THEN {} ELSE {s}
  /\ UNCHANGED <<networks, node, port, network, fromSnapshot, cache, Metadata, ports, rules, monitoring, deletion>>

GetNetwork(s) ==
  /\ \E config \in Network \cup {Nil} :
       /\ GetOneConfig(config)
       /\ Goes(s, "network", IF config = Nil THEN "failed" ELSE "start")
       /\ network' = [network EXCEPT ![s] = IF config = Nil THEN None ELSE config]
  /\ UNCHANGED <<node, port, fromSnapshot, cache, Metadata, ports, rules, kernel, monitoring, deletion>>

(* A machine that cannot be resumed from the snapshot is left as it is.  *)
StartFirecrackerVM(s) ==
  /\ runtime = "firecracker"
  /\ \/ Goes(s, "start", "port") /\ Start(s) /\ UNCHANGED <<abandoned, networks>>
     \/ /\ "start" \in Faults /\ Goes(s, "start", "failed") /\ GiveUpNetwork(network[s])
        /\ UNCHANGED <<processes, abandoned>>
     \/ /\ "resume" \in Faults /\ fromSnapshot[s]
        /\ Goes(s, "start", "failed") /\ Start(s) /\ GiveUpNetwork(network[s])
        /\ abandoned' = abandoned \cup {s}
  /\ UNCHANGED containers
  /\ UNCHANGED <<node, port, network, fromSnapshot, cache, Metadata, ports, rules, monitoring, deletion>>

\* Mutant: ports in use are not left out.
AssignAnyPort(s) ==
  /\ Goes(s, "port", IF runtime = "containerd" THEN "channel" ELSE "pid")
  /\ \E p \in Port : portsInUse' = portsInUse \cup {p} /\ port' = [port EXCEPT ![s] = p]
  /\ UNCHANGED <<portMutex, networks, node, network, fromSnapshot, cache, Metadata, rules, kernel, monitoring, deletion>>

(* Without a free port the search goes on for ever, with the mutex held.  *)
AssignRandomPort(s) ==
  /\ portMutex = None
  /\ \E p \in IF portsInUse = Port THEN {None} ELSE Port \ portsInUse :
       /\ Goes(s, "port", IF p = None THEN "port" ELSE IF runtime = "containerd" THEN "channel" ELSE "pid")
       /\ portsInUse' = portsInUse \cup ({p} \ {None})
       /\ port' = [port EXCEPT ![s] = p]
       /\ portMutex' = IF p = None THEN s ELSE None
  /\ UNCHANGED <<networks, node, network, fromSnapshot, cache, Metadata, rules, kernel, monitoring, deletion>>

UnassignPort(s) ==
  /\ portMutex = None
  /\ portsInUse' = portsInUse \ {port[s]}
  /\ UNCHANGED portMutex

(* Without its number the machine is left as it is, too.  *)
VMPid(s) ==
  /\ \/ Goes(s, "pid", "metadata") /\ UNCHANGED <<networks, ports, abandoned>>
     \/ /\ "pid" \in Faults /\ Goes(s, "pid", "failed")
        /\ GiveUpNetwork(network[s]) /\ UnassignPort(s)
        /\ abandoned' = abandoned \cup {s}
  /\ UNCHANGED <<node, port, network, fromSnapshot, cache, Metadata, rules, processes, containers, monitoring, deletion>>

(* Containers are monitored first and entered afterwards, machines the other
   way round.  *)
AddSandbox(s) ==
  /\ Goes(s, "metadata", IF runtime = "containerd" THEN "rules" ELSE "channel")
  /\ Metadata' = Metadata \cup {s}
  /\ UNCHANGED <<networks, node, port, network, fromSnapshot, cache, ports, rules, kernel, monitoring, deletion>>

(* The monitor holds its lock while it sends.  *)
AddChannel(s) ==
  /\ monitor = None
  /\ Goes(s, "channel", IF runtime = "containerd" THEN "metadata" ELSE "rules")
  /\ NotifyChannels' = [NotifyChannels EXCEPT ![pid[s]] = s]
  /\ UNCHANGED <<networks, node, port, network, fromSnapshot, cache, Metadata, ports, rules, kernel, events, monitor,
                 code, watcher, deletion>>

\* Mutant: nobody waits for a process that has ended already.
AddRulesAndWatchAlive(s) ==
  /\ Goes(s, "rules", IF runtime = "containerd" THEN "created" ELSE "probe")
  /\ rules' = rules \cup {<<port[s], s>>}
  /\ watcher' = [watcher EXCEPT ![s] = IF process[s] = "alive" THEN "waiting" ELSE "none"]
  /\ UNCHANGED <<networks, node, port, network, fromSnapshot, cache, Metadata, ports, kernel, events, NotifyChannels,
                 monitor, code, deletion>>

\* Mutant: there are rules already.
AddRulesOnce(s) ==
  /\ Goes(s, "rules", IF runtime = "containerd" THEN "created" ELSE "probe")
  /\ rules' = IF rules = {} THEN {<<port[s], s>>} ELSE rules
  /\ watcher' = [watcher EXCEPT ![s] = "waiting"]
  /\ UNCHANGED <<networks, node, port, network, fromSnapshot, cache, Metadata, ports, kernel, events, NotifyChannels,
                 monitor, code, deletion>>

(* Errors of iptables are logged.  The goroutine of WatchExitChannel starts.  *)
AddRules(s) ==
  /\ Goes(s, "rules", IF runtime = "containerd" THEN "created" ELSE "probe")
  /\ rules' \in {rules \cup {<<port[s], s>>}} \cup IF "iptables" \in Faults THEN {rules} ELSE {}
  /\ watcher' = [watcher EXCEPT ![s] = "waiting"]
  /\ UNCHANGED <<networks, node, port, network, fromSnapshot, cache, Metadata, ports, kernel, events, NotifyChannels,
                 monitor, code, deletion>>

(* The probes stop when the next one would be too far away.  *)
SendReadinessProbe(s) ==
  /\ \/ /\ process[s] = "alive" /\ <<port[s], s>> \in rules
        /\ Goes(s, "probe", IF UseSnapshots /\ snapshot = None THEN "snapshot" ELSE "created")
     \/ Goes(s, "probe", "cleanup")
  /\ UNCHANGED <<networks, node, port, network, fromSnapshot, cache, Metadata, ports, rules, kernel, monitoring, deletion>>

(* The first snapshot of an image is kept; the machine is resumed after it.  *)
CreateVMSnapshot(s) ==
  /\ \E to \in {"created", "cleanup"} : Goes(s, "snapshot", to)
  /\ snapshot' \in {snapshot} \cup IF snapshot = None THEN {s} ELSE {}
  /\ UNCHANGED <<networks, node, port, network, fromSnapshot, images, Metadata, ports, rules, kernel, monitoring, deletion>>

-----------------------------------------------------------------------------
(* DeleteSandbox, by a caller or by the creation that has failed.  *)
Deletes(d, s, from, to) ==
  /\ daemon = "up" /\ deletion[d][s] = from
  /\ deletion' = [deletion EXCEPT ![d][s] = to]

ListEndpoints == Metadata

(* The control plane knows the sandboxes that it was told of; ListEndpoints
   tells it of the others.  *)
DeleteSandbox(d, s) ==
  /\ \/ d = None /\ pc[s] = "cleanup"
     \/ d # None /\ s \in {t \in Sandbox : pc[t] = "created"} \cup IF "listed" \in Faults THEN ListEndpoints ELSE {}
  /\ Deletes(d, s, "none", IF s \in Metadata THEN "got" ELSE "done")
  /\ UNCHANGED <<networks, node, pc, port, network, fromSnapshot, cache, Metadata, ports, rules, kernel, monitoring>>

RemoveMetadata(d, s) ==
  /\ Deletes(d, s, "got", "removed")
  /\ Metadata' = Metadata \ {s}
  /\ UNCHANGED <<networks, node, pc, port, network, fromSnapshot, cache, ports, rules, kernel, monitoring>>

DeleteRules(d, s) ==
  /\ Deletes(d, s, "removed", "stop")
  /\ rules' \in {rules \ {<<port[s], s>>}} \cup IF "iptables" \in Faults THEN {rules} ELSE {}
  /\ UnassignPort(s)
  /\ UNCHANGED <<networks, node, pc, port, network, fromSnapshot, cache, Metadata, kernel, monitoring>>

Ends(s, kill) ==
  /\ process' = [process EXCEPT ![s] = "ended"]
  /\ killed' = [killed EXCEPT ![s] = kill]
  /\ events' = events \cup {s}
  /\ UNCHANGED <<pid, NotifyChannels, monitor, code, watcher>>

(* The process is killed, if that does not fail.  *)
Kill(s) ==
  \/ process[s] = "alive" /\ Ends(s, TRUE)
  \/ (process[s] # "alive" \/ "kill" \in Faults) /\ UNCHANGED <<processes, monitoring>>

(* The network, the process, the task and the container are removed until one of
   them cannot be; that a process has ended already can be an error, too.  *)
DeleteContainer(d, s) ==
  /\ runtime = "containerd"
  /\ Deletes(d, s, "stop", "done")
  /\ \/ "cni" \in Faults /\ UNCHANGED <<processes, monitoring, containers>>
     \/ /\ Kill(s)
        /\ \E left \in {"none"} \cup IF process[s] = "alive" /\ "kill" \notin Faults THEN {} ELSE {"container", "task"} :
             /\ process'[s] = "alive" => left = "task"
             /\ containers' = [containers EXCEPT ![s] = left]
  /\ abandoned' = abandoned \cup IF containers'[s] = "none" /\ process'[s] # "alive" THEN {} ELSE {s}
  /\ UNCHANGED <<networks, node, pc, port, network, fromSnapshot, cache, Metadata, ports, rules>>

(* An error is logged, and the deletion goes on.  *)
StopFirecrackerVM(d, s) ==
  /\ runtime = "firecracker"
  /\ Deletes(d, s, "stop", "network")
  /\ Kill(s)
  /\ abandoned' = abandoned \cup IF process'[s] = "alive" THEN {s} ELSE {}
  /\ UNCHANGED <<networks, node, pc, port, network, fromSnapshot, cache, Metadata, ports, rules, containers>>

ReleaseNetwork(d, s) ==
  /\ Deletes(d, s, "network", "done")
  /\ GiveUpNetwork(network[s])
  /\ UNCHANGED <<node, pc, port, network, fromSnapshot, cache, Metadata, ports, rules, kernel, monitoring>>

CleanedUp(s) ==
  /\ deletion[None][s] = "done"
  /\ Goes(s, "cleanup", "failed")
  /\ UNCHANGED <<networks, node, port, network, fromSnapshot, cache, Metadata, ports, rules, kernel, monitoring, deletion>>

-----------------------------------------------------------------------------
(* Processes end by themselves, too.  *)
Exit(s) ==
  /\ process[s] = "alive"
  /\ Ends(s, FALSE)
  /\ UNCHANGED <<containers, abandoned, networks, node, pc, port, network, fromSnapshot, cache, Metadata, ports, rules, deletion>>

(* internalEventHandler: an event of a process that nobody waits for is
   dropped; the others are sent, with the lock for reading held.  *)
ReadPCN(s) ==
  /\ daemon = "up" /\ monitor = None /\ s \in events
  /\ events' = events \ {s}
  /\ monitor' = NotifyChannels[pid[s]]
  /\ code' = IF killed[s] /\ monitor' # None THEN "SIGKILL" ELSE "other"
  /\ UNCHANGED <<networks, node, pc, port, network, fromSnapshot, cache, Metadata, ports, rules, kernel, NotifyChannels,
                 watcher, deletion>>

WatchExitChannel(s) ==
  /\ monitor = s /\ watcher[s] = "waiting"
  /\ monitor' = None /\ code' = "other"
  /\ watcher' = [watcher EXCEPT ![s] = IF code = "SIGKILL" THEN "killed" ELSE "failed"]
  /\ UNCHANGED <<networks, node, pc, port, network, fromSnapshot, cache, Metadata, ports, rules, kernel, events,
                 NotifyChannels, deletion>>

(* The runtime keeps the connection that it was given at the start, also when
   the heartbeats have found another replica since.  *)
ReportFailure(s) ==
  /\ watcher[s] = "failed"
  /\ \E outcome \in {"reported"} \cup IF "replica" \in Faults THEN {"unreported"} ELSE {} :
       watcher' = [watcher EXCEPT ![s] = outcome]
  /\ UNCHANGED <<networks, node, pc, port, network, fromSnapshot, cache, Metadata, ports, rules, kernel, events,
                 NotifyChannels, monitor, code, deletion>>

-----------------------------------------------------------------------------
Create(s) ==
  \/ GetImage(s) \/ StartContainer(s) \/ GetNetwork(s) \/ StartFirecrackerVM(s) \/ AssignRandomPort(s) \/ VMPid(s)
  \/ AddSandbox(s) \/ AddChannel(s) \/ AddRules(s) \/ SendReadinessProbe(s) \/ CreateVMSnapshot(s) \/ CleanedUp(s)

Delete(d, s) ==
  \/ RemoveMetadata(d, s) \/ DeleteRules(d, s)
  \/ DeleteContainer(d, s) \/ StopFirecrackerVM(d, s) \/ ReleaseNetwork(d, s)

Monitor(s) == ReadPCN(s) \/ WatchExitChannel(s) \/ ReportFailure(s)

Next ==
  \/ NewWorkerNode \/ PopulateNetworkPool \/ RegisterNodeWithControlPlane \/ Fatal \/ WaitTerminationSignal
  \/ \E s \in Sandbox :
       \/ CreateSandbox(s) \/ Create(s) \/ Exit(s) \/ Monitor(s)
       \/ \E d \in Caller : DeleteSandbox(d, s) \/ Delete(d, s)

Spec == Init /\ [][Next]_vars

(* The goroutines of the daemon go on.  Nobody has to call, and a process does
   not have to end.  *)
FairSpec ==
  /\ Spec
  /\ WF_vars(PopulateNetworkPool)
  /\ \A s \in Sandbox :
       /\ WF_vars(Create(s)) /\ WF_vars(DeleteSandbox(None, s))
       /\ WF_vars(ReadPCN(s)) /\ WF_vars(WatchExitChannel(s)) /\ WF_vars(ReportFailure(s))
       /\ \A d \in Caller : WF_vars(Delete(d, s))

-----------------------------------------------------------------------------
Free == {pool[i] : i \in DOMAIN pool} \ {Nil}

(* No two sandboxes that the daemon has entered share a port or a network, nor
   is a network in the pool, twice in it or somebody's at the same time: not
   when creations fail half-way or clean up after themselves while others are
   created and deleted (GetOneConfig, GiveUpNetwork, AssignRandomPort).  *)
SandboxesAreExclusive ==
  /\ \A s \in Metadata : port[s] \in portsInUse /\ network[s] \notin Free
  /\ \A s, t \in Metadata : s # t => port[s] # port[t] /\ (network[s] = network[t] => network[s] = None)
  /\ \A i, j \in DOMAIN pool : i # j /\ pool[i] = pool[j] => pool[i] = Nil

(* The port of a sandbox that was created and not deleted leads to it and to
   no other one, whoever had the port before (AddRules, DeleteRules).  *)
RulesLeadToOwner ==
  \A s \in Metadata : pc[s] = "created" => {t \in Sandbox : <<port[s], t>> \in rules} = {s}

(* No creation and no deletion is under way.  *)
Quiet ==
  /\ daemon = "up" /\ ~populating /\ (\A s \in Sandbox : pc[s] \in Ended \cup {"idle"})
  /\ \A d \in Caller, s \in Sandbox : deletion[d][s] \in {"none", "done"}

(* When no call is under way, every port, rule and network of the pool belongs
   to an entered sandbox or to the pool, whatever step of a creation or of a
   deletion has failed (CreateSandbox, DeleteSandbox).  Processes, containers,
   tasks and networks of the CNI plugins belong to an entered sandbox, or are
   what one of these failed on: StartContainer after the container was made,
   the start of a machine from a snapshot, the number of a machine's process,
   or the removal of a sandbox's network or process.  *)
NothingLeaks ==
  Quiet =>
    /\ portsInUse = {port[s] : s \in Metadata}
    /\ rules = {<<port[s], s>> : s \in Metadata}
    /\ namespaces = Free \cup {network[s] : s \in {t \in Metadata : network[t] # None}}
    /\ \A s \in Sandbox \ (Metadata \cup abandoned) : process[s] # "alive" /\ containers[s] = "none"

(* What the TODO at iface.go:162 asks: whether a container that has failed leaves
   something to containerd and to the CNI plugins.  It does.  *)
NothingIsAbandoned ==
  Quiet => \A s \in Sandbox \ Metadata : process[s] # "alive" /\ containers[s] = "none"

(* The monitor, which keeps everybody from adding a channel while it sends,
   never sends to a channel that nobody will receive from: not when a process
   ends before it has a channel or before its goroutine has started, nor while
   it is killed (internalEventHandler, AddChannel, WatchExitChannel).  *)
MonitorIsHeard ==
  monitor # None => watcher[monitor] = "waiting" \/ pc[monitor] \in {"metadata", "rules"}

(* The end of a process that has a channel reaches the goroutine that waits
   for it, while others are created and deleted, unless the daemon ends first
   (internalEventHandler, WatchExitChannel).  *)
ExitIsSeen ==
  \A s \in Sandbox :
    s \in events /\ NotifyChannels[pid[s]] = s ~> watcher[s] \in {"reported", "unreported", "killed"} \/ daemon # "up"

(* A sandbox that was created and has ended is known to the control plane.  *)
FailureIsReported ==
  \A s \in Sandbox :
    pc[s] = "created" /\ s \in Metadata /\ process[s] = "ended" /\ ~killed[s]
      ~> watcher[s] = "reported" \/ s \notin Metadata

(* A call of DeleteSandbox ends, also when all ports are in use
   (AssignRandomPort, UnassignPort).  *)
DeletionEnds ==
  \A d \in Deleter, s \in Sandbox : deletion[d][s] = "got" ~> deletion[d][s] = "done" \/ daemon # "up"

(* A network of the pool is used by no process.  runtime.go:142 says that
   StartFirecrackerVM has released what it had when it fails.  *)
FreeNetworksAreIdle ==
  \A s \in Sandbox : process[s] = "alive" => network[s] \notin Free
-----------------------------------------------------------------------------
(* What the proofs rest on, of every sandbox s.  CreateSandbox gives s a
   network, a process, a port, an entry and rules, in an order that depends on
   the runtime; DeleteSandbox takes them away one by one.  *)
Networked == {"start", "port", "pid", "metadata", "channel", "rules", "probe", "snapshot", "cleanup", "created"}
Started == Networked \ {"start"}
Bound == Started \ {"port"}
Entered == Bound \ IF runtime = "containerd" THEN {"metadata", "channel"} ELSE {"pid", "metadata"}
Ruled == {"probe", "snapshot", "cleanup", "created"}
Monitored == {"rules", "created", "failed"} \cup IF runtime = "containerd" THEN {"metadata"} ELSE Ruled

Before(s, steps) == \A d \in Caller : deletion[d][s] \in steps
HoldsEntry(s) == pc[s] \in Entered /\ Before(s, {"none", "got"})
HoldsPort(s) == pc[s] \in Bound /\ Before(s, {"none", "got", "removed"})
HoldsRules(s) == pc[s] \in Ruled /\ Before(s, {"none", "got", "removed"})
HoldsNetwork(s) ==
  runtime = "firecracker" /\ pc[s] \in Networked /\ Before(s, {"none", "got", "removed", "stop", "network"})

(* The calls of the two runtimes, and what a call has when it uses it.  *)
CallsInOrder(s) ==
  /\ runtime = "containerd" => pc[s] \notin {"network", "pid", "probe", "snapshot", "cleanup"}
  /\ runtime = "firecracker" => pc[s] # "image"
  /\ daemon # "up" => pc[s] \in {"idle", "lost"}
  /\ pc[s] \in {"idle", "image", "network"} => s \notin Metadata /\ Before(s, {"none"})
  /\ runtime = "firecracker" /\ (pc[s] \in Networked \/ s \in Metadata \/ ~Before(s, {"none", "done"}))
       => network[s] # None
  /\ runtime = "containerd" => network[s] = None /\ Before(s, {"none", "got", "removed", "stop", "done"})
  /\ pc[s] \in Started \/ process[s] # "none" \/ s \in events => pid[s] # None
  /\ pc[s] \in Bound => port[s] # None

(* The end of a process is one event, and is sent once.  *)
EndsOnce(s) ==
  /\ pid[s] \in {None, s} /\ NotifyChannels[s] \in {None, s}
  /\ process[s] = "none" => s \notin events /\ NotifyChannels[s] = None /\ watcher[s] = "none"
  /\ process[s] # "none" => pc[s] \in Started \cup {"failed"} /\ pid[s] = s
  /\ pc[s] \in Started => process[s] # "none"
  /\ NotifyChannels[s] = s => pc[s] \in Monitored
  /\ s \in events \/ process[s] = "alive" => watcher[s] \in {"none", "waiting"} /\ monitor # s
  /\ s \in events => process[s] = "ended"
  /\ monitor = s => NotifyChannels[s] = s /\ watcher[s] \in {"none", "waiting"}
  /\ NotifyChannels[s] = s /\ watcher[s] = "none" => pc[s] \in {"metadata", "rules"}

(* With one caller, whom the control plane tells of created sandboxes only, a
   sandbox is deleted once, and after its creation.  *)
OneDeleter == \A d, e \in Deleter : d = e
OneDeletion(s) ==
  /\ \A d \in Deleter : deletion[d][s] # "none" => pc[s] = "created"
  /\ deletion[None][s] # "none" => pc[s] \in {"cleanup", "failed"}
  /\ pc[s] = "failed" => deletion[None][s] \in {"none", "done"}

(* What is in use, in the daemon and in the kernel, is what sandboxes hold.  *)
EntriesAreHeld == \A s \in Sandbox : OneDeletion(s) /\ (s \in Metadata <=> HoldsEntry(s))
PortsAreHeld ==
  /\ portsInUse = {port[s] : s \in {t \in Sandbox : HoldsPort(t)}}
  /\ \A s, t \in Sandbox : HoldsPort(s) /\ HoldsPort(t) /\ port[s] = port[t] => s = t
RulesAreHeld == daemon # "dead" => rules = {<<port[s], s>> : s \in {t \in Sandbox : HoldsRules(t)}}
NetworksAreHeld ==
  /\ \A s \in Sandbox : HoldsNetwork(s) => network[s] \notin Free /\ network[s] < counter
  /\ \A s, t \in Sandbox : HoldsNetwork(s) /\ HoldsNetwork(t) /\ network[s] = network[t] => s = t
  /\ \A v \in Free : v < counter
  /\ \A i, j \in DOMAIN pool : i # j /\ pool[i] = pool[j] => pool[i] = Nil
(* What the kernel and containerd have is a sandbox's that was started and that
   no deletion has stopped, or was left.  *)
Running(s) ==
  /\ \/ s \in abandoned
     \/ process[s] # "alive" /\ containers[s] = "none"
     \/ pc[s] \in Started /\ Before(s, {"none", "got", "removed", "stop"})
  /\ runtime = "firecracker" => containers[s] = "none"
NamespacesAreHeld ==
  daemon # "dead" => namespaces = Free \cup {network[s] : s \in {t \in Sandbox : HoldsNetwork(t)}}
=============================================================================
