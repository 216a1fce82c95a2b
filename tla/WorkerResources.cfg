SPECIFICATION Spec
CONSTANTS
  Byte = 3
  PoolUnit = 2
  PoolFraction = 2
  NetworkPoolSize = 3
  Nil = Nil
  Faults = {"image", "start", "resume", "pid", "network", "register", "heartbeat", "replica", "cni", "kill"}
  Runtimes = {"containerd", "firecracker"}
  Sandbox = {s1, s2}
  Port = {p1, p2}
  None = None
  Deleter = {d1}
CHECK_DEADLOCK FALSE
SYMMETRY Symmetry
INVARIANTS
  SandboxesAreExclusive
  
  
  MonitorIsHeard
