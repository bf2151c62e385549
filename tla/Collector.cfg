SPECIFICATION MCSpec
CONSTANTS
  Minute = 4
  MaxAge = 6
  MinFirst = 2
  MinWindow = 2
  MaxReadings = 2
  ReadPhases = {2, 3}
  ClockSteps <- MCClockSteps
  FirstTime = 6
  MaxTime = 10
  MaxSteps = 1
  MaxFaults = 2
  Disks = {vda, vdb}
  DiskTime = 7
  DiskFaults = 2
INVARIANTS NotTwice NoGap AboutAMinute WindowsGoUp NoResultDropped DiskIsReal
CHECK_DEADLOCK FALSE
