SPECIFICATION FairSpec
CONSTANTS
  Request = {r1, r2}
  Endpoint = {e1, e2}
  Sandbox = {s1}
  None = None
  SandboxParallelism = 1
  LoadBalancingRetries = 2
  MayDrain = TRUE
  MayCleanCache = TRUE
CHECK_DEADLOCK FALSE
INVARIANTS
  InflightMatches
  ConcurrencyLimit
PROPERTIES
  AddEndpointsEnds
  RoutedRequestsEnd
