SPECIFICATION FairSpec
CONSTANTS
  c1 = c1
  c2 = c2
  NoCommand = NoCommand
  NoVersion = NoVersion
  Commands = {c1}
  Versions <- DevVersions
  Compared <- Sample
  FirstVersion <- d2a
  MaxEvents = 3
  MaxBatch = 1
  KeepRan = 2
  SendFor = 1
  AutoUpdates = TRUE
  OperatorUpdates = FALSE
  StaleReplies = FALSE
  MaxDay = 0
  MaxCrashes = 3
  MaxDiskErrors = 0
  MaxRefusals = 1
INVARIANT SameDecision
PROPERTIES NoUpdateCycle NeverDowngrades ImplementsLife EventuallyAnswered
CHECK_DEADLOCK FALSE
