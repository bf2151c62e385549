\* The bounds of the faults end the model, so a last state is not an error.
\* The send time and the keep time are equal: the tightest case for prune.
SPECIFICATION Spec
CONSTANTS
  c1 = c1
  c2 = c2
  NoCommand = NoCommand
  NoVersion = NoVersion
  Commands = {c1, c2}
  Versions <- TwoVersions
  Compared <- TwoVersions
  FirstVersion <- v1
  MaxEvents = 2
  MaxBatch = 1
  KeepRan = 0
  SendFor = 0
  AutoUpdates = FALSE
  OperatorUpdates = TRUE
  StaleReplies = TRUE
  MaxDay = 1
  MaxCrashes = 1
  MaxDiskErrors = 1
  MaxRefusals = 0
SYMMETRY Symmetry
INVARIANTS TypeOK RunsAtMostOnce ResultNotLost PollAfterResults
CHECK_DEADLOCK FALSE
