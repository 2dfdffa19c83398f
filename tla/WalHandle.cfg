CONSTANTS
  Segments = 4
  Frames = 2
SPECIFICATION HandleSpec
INVARIANT RightSegment
CHECK_DEADLOCK FALSE
