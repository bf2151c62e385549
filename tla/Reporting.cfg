\* The model ends at MaxTime, so a last state is not an error.
SPECIFICATION Spec
CONSTANTS
  MaxSamples = 4
  SamplesBatch = 2
  MaxEvents = 3
  EventsBatch = 1
  SlowRequests = 1
  FirstBackoff = 1
  MaxBackoff = 2
  MaxShift = 2
  UnauthorizedWait = 2
  ThrottledWait = 1
  MaxRetryAfter = 2
  MaxInterval = 2
  Intervals <- MCIntervals
  OutageEnd = 5
  MaxInt = 3
  MaxPercent = 2
  MaxLoad = 4
  MaxSites = 2
  MaxDirectory = 2
  MaxText = 2
  MaxCpus = 3
  InSamples <- MCSamples
  InStatus <- MCStatus
  InEvents <- MCEvents
  MaxTime = 10
  MaxRestarts = 1
  MaxSaveFails = 1
INVARIANTS NothingLost RecoversInTime CleanedAccepted
CHECK_DEADLOCK FALSE
