SPECIFICATION FairSpec
CONSTANTS
  Server = {s1, s2}
  None = None
  MaxElections = 2
  MaxRestarts = 1
  Stoppable = {s1}
  LateReplies = TRUE
CHECK_DEADLOCK FALSE
INVARIANTS
  TimerAlive
  AnnouncementsTrackState
PROPERTIES
  StaleLeaderStepsDown
