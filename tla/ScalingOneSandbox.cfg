SPECIFICATION Spec
CONSTANTS
  Sandbox = {b1, b2, b3}
  ScalingUpperBound = 1
  MaxFailures = 0
  MaxRegistrations = 1
  Reconstructed = TRUE
  RPCMayFail = TRUE
  MayDeregister = TRUE
CHECK_DEADLOCK FALSE
SYMMETRY Symmetry
INVARIANTS
  
  NoOrphans
