CONSTANTS
  DrainTries = 1
  SlabRows = 2
  QueueRows = 2
  Cap = 2
  Slack = 1
  ReopenDrained = FALSE
  MaxLen = 2
  MaxRewrites = 1
  MaxDowns = 1
SPECIFICATION FairSpec
INVARIANTS NothingLost ExitTells
PROPERTIES StopEnds AllArrives
CHECK_DEADLOCK FALSE
