CONSTANTS
  File = {a, b}
  MaxEnd = 2
  MaxDowns = 2
  MaxFails = 1
SPECIFICATION Spec
INVARIANTS NeverAhead CleanStopIsExact
CHECK_DEADLOCK FALSE
