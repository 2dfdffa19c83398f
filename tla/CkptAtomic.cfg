CONSTANTS
  File = {a, b}
  MaxEnd = 2
  MaxDowns = 1
  MaxFails = 0
SPECIFICATION Spec
PROPERTY SaveIsAtomic
CHECK_DEADLOCK FALSE
