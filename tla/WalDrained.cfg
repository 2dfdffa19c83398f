CONSTANTS
  Writer = {w1}
  FrameSizes = {1}
  MaxFrameBytes = 1
  SegmentBytes = 2
  MaxBytes = 4
  Faults = FALSE
  CursorMayBreak = FALSE
  ReopenDrained = TRUE
  MaxFrames = 3
  MaxDowns = 1
SPECIFICATION Spec
INVARIANT NoLoss
CHECK_DEADLOCK FALSE
