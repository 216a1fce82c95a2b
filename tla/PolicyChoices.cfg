SPECIFICATION Spec
CONSTANTS
  Caller = {c1, c2}
  Member = {m1, m2, m3}
  None = None
  Policies = {"place random", "place round-robin", "place kubernetes", "random", "round-robin", "least-processed",
              "first available", "kubernetes round-robin", "best of two"}
  Tokens = 1
  MaxRequests = 3
  CounterValues = 4
  MayLeave = TRUE
CHECK_DEADLOCK FALSE
INVARIANTS
  ChosenIsEligible
  LeastIsLeast
  FreeIsFound
