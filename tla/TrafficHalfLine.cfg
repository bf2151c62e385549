\* The model ends at MaxLines and MaxFiles; the reader goes on.
SPECIFICATION Spec
CONSTANTS
  Limit <- MCLimit
  InodeReused = FALSE
  HalfLines = TRUE
  MaxLines = 3
  MaxFiles = 1
  MaxStops = 0
  MaxSaveFails = 0
INVARIANT WholeLines
