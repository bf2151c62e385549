\* The model ends at MaxTime, so a last state is not an error.
SPECIFICATION Spec
CONSTANTS
  Day = 4
  CheckGap = 2
  Wait = 4
  Slot <- MCSlot
  Environments <- MCEnvironments
  Steps <- MCSteps
  MaxAhead = 1
  MaxSteps = 1
  MaxSaveFails = 1
  MaxRestarts = 1
  AgentKeys <- MCKeys
  TagKeys <- MCKeys
  Keys <- MCAllKeys
  MaxSkew = 0
  MaxSwaps = 1
  MaxSigns = 1
  MaxTime = 12
INVARIANTS InstalledIsReviewed WithdrawnInTime
PROPERTIES GapKept CheckedInTime
CHECK_DEADLOCK FALSE
