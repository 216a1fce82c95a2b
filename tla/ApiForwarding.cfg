SPECIFICATION Spec
CONSTANTS
  Replica = {r1, r2}
  DataPlane = {d1}
  Call = {c1, c2}
  None = None
  MaxTerm = 2
  MaxEvents = 3
CHECK_DEADLOCK FALSE
SYMMETRY Symmetry
VIEW View
INVARIANTS
  LeadersMonitor
  RunningIsCommitted
  LoadBalancersAgree
