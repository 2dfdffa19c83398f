CONSTANTS
  Writer = {w1, w2}
  FrameSizes = {1, 2, 3}
  MaxFrameBytes = 2
  SegmentBytes = 2
  MaxBytes = 4
  Faults = TRUE
  CursorMayBreak = FALSE
  ReopenDrained = FALSE
  MaxFrames = 4
  MaxDowns = 2
SPECIFICATION Spec
INVARIANTS WInv NoLoss CapRespected ReadsWholeFrames DrainedStopIsEmpty
PROPERTIES InOrder ResumesAtAck ImplementsLog
CHECK_DEADLOCK FALSE
