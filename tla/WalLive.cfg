CONSTANTS
  Writer = {w1, w2}
  FrameSizes = {1, 2}
  MaxFrameBytes = 2
  SegmentBytes = 2
  MaxBytes = 4
  Faults = TRUE
  CursorMayBreak = TRUE
  ReopenDrained = FALSE
  MaxFrames = 3
  MaxDowns = 1
SPECIFICATION FairSpec
PROPERTIES NeverSkipsAhead DurableIsDelivered AppendReturns
CHECK_DEADLOCK FALSE
