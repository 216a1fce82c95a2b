SPECIFICATION FairSpec
CONSTANTS
  Sandbox = {b1, b2}
  ScalingUpperBound = 2
  MaxFailures = 1
  MaxRegistrations = 1
  Reconstructed = TRUE
  RPCMayFail = TRUE
  MayDeregister = FALSE
CHECK_DEADLOCK FALSE

  
PROPERTIES
  UpscalingEnds
  EvictionCompletes
