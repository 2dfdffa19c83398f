CONSTANTS
  DrainTries = 2
  SlabRows = 1
  QueueRows = 2
  Overtakes = FALSE
  MaxLen = 2
  MaxRewrites = 1
  MaxDowns = 1
SPECIFICATION FairSpec
INVARIANTS NothingSkipped
PROPERTIES ExitIsExact StopEnds EventuallyDelivered
