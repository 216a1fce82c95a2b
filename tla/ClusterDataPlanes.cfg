SPECIFICATION Spec
CONSTANTS
  Replica = {r1, r2}
  Service = {s1}
  Node = {}
  DataPlane = {d1}
  SilentNodes = {}
  RPCMayFail = TRUE
  RedisMayFail = FALSE
  PrecreateSnapshots = FALSE
  OverlappingLeaders = TRUE
  MaxElections = 1
  MaxCrashes = 0
  MaxRestarts = 1
CHECK_DEADLOCK FALSE
SYMMETRY Symmetry
VIEW View
INVARIANTS
  ServedAsAnswered
  DataPlanesKnowServices
