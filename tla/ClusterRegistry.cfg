SPECIFICATION Spec
CONSTANTS
  Replica = {r1, r2}
  Service = {s1}
  Node = {n1}
  DataPlane = {}
  SilentNodes = {n1}
  RPCMayFail = FALSE
  RedisMayFail = TRUE
  PrecreateSnapshots = FALSE
  OverlappingLeaders = TRUE
  MaxElections = 1
  MaxCrashes = 1
  MaxRestarts = 0
CHECK_DEADLOCK FALSE
SYMMETRY Symmetry
VIEW RegistryView
INVARIANTS
  TypeOK
PROPERTIES
  ImplementsRegistry
