CONSTANTS
  Segments = 4
  Frames = 2
SPECIFICATION HandleSpec
INVARIANT NoSpuriousFatal
CHECK_DEADLOCK FALSE
