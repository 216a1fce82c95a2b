SPECIFICATION FairSpec
CONSTANTS
  DataPlane = {d1}
  Load = {0, 2}
  MaxReports = 2
  MaxPause = 1
  Listed = {0, 1}
  Overtaking = TRUE
  StableBuckets = 2
  PanicBuckets = 1
  Target = 1
  ScalingUpperBound = 3
  MaxScaleUpRate = 10
  MaxScaleDownRate = 2
  PanicThresholdPercentage = 200
  None = None
CHECK_DEADLOCK FALSE
INVARIANTS
  StableWindowIsRecent
PROPERTIES
  PanicNeverScalesDown
  
  LoadIsServed
