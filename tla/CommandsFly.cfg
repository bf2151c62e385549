SPECIFICATION Spec
CONSTANTS
  c1 = c1
  c2 = c2
  NoCommand = NoCommand
  NoVersion = NoVersion
  Commands = {c1}
  Versions <- ThreeVersions
  Compared <- ThreeVersions
  FirstVersion <- v1
  MaxEvents = 2
  MaxBatch = 1
  KeepRan = 2
  SendFor = 1
  AutoUpdates = FALSE
  OperatorUpdates = TRUE
  StaleReplies = TRUE
  MaxDay = 0
  MaxCrashes = 0
  MaxDiskErrors = 0
  MaxRefusals = 0
PROPERTY NeverDowngrades
CHECK_DEADLOCK FALSE
