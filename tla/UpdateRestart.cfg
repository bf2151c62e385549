\* The model ends at MaxTime, so a last state is not an error.
SPECIFICATION Spec
CONSTANTS
  Day = 4
  CheckGap = 2
  Wait = 4
  Slot <- MCSlot
  Environments <- MCEnvironments
  Steps <- SmallStepBack
  MaxAhead = 0
  MaxSteps = 1
  MaxSaveFails = 0
  MaxRestarts = 1
  AgentKeys <- MCKeys
  TagKeys <- MCKeys
  Keys <- MCAllKeys
  MaxSkew = 0
  MaxSwaps = 0
  MaxSigns = 1
  MaxTime = 16
PROPERTY GapOverSteps
CHECK_DEADLOCK FALSE
