\* The model of the clock ends at MaxClock, so a last state is not an error.
SPECIFICATION Spec
CONSTANTS
  Minute = 4
  ReadEvery = 2
  MaxStepBack = 8
  Offset <- MCOffset
  Steps <- MCSteps
  MaxLate = 1
  MaxWork = 4
  MaxRead = 2
  MaxPause = 2
  MaxPauses = 2
  MaxClock = 36
  MaxSteps = 2
INVARIANT SilentBounded
PROPERTIES NoMinuteTwice EachMinute
CHECK_DEADLOCK FALSE
