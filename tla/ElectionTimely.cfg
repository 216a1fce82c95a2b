SPECIFICATION Spec
CONSTANTS
  Server = {s1, s2, s3}
  None = None
  MaxElections = 2
  MaxRestarts = 0
  Stoppable = {}
  LateReplies = FALSE
SYMMETRY Symmetry
VIEW View
CHECK_DEADLOCK FALSE
INVARIANTS
  TypeOK
  ElectionSafety
PROPERTIES
  VoteStable
