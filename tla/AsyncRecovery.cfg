SPECIFICATION FairSpec
CONSTANTS
  Code = {c1, c2}
  AllowedRetries = 2
  MaxCrashes = 2
  ResponseMayBeLost = FALSE
CHECK_DEADLOCK FALSE
INVARIANTS
  TypeOK
  OneTaskPerRequest
  AcceptedIsHandled
PROPERTIES
  ResponseStable
  AcceptedIsAnswered
