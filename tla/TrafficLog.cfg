\* The model ends at MaxLines and MaxFiles; the reader goes on.
SPECIFICATION Spec
CONSTANTS
  Limit <- MCLimit
  InodeReused = TRUE
  HalfLines = TRUE
  MaxLines = 5
  MaxFiles = 2
  MaxStops = 1
  MaxSaveFails = 1
INVARIANTS NeverTwice NoneSkipped
