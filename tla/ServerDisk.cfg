SPECIFICATION DiskSpec
CONSTANTS
  MaxWrites = 2
  MaxFaults = 3
  Releases = {1}
  TempMaxAge = 1
  DownloadLimit = 0
  WriteLimit = 1
  MaxInstalls = 2
INVARIANTS AlwaysComplete SavedSurvives OneTemp OneWriter ExeRuns FilesKept UpdateTakesEffect
PROPERTY ImplementsAtomicFile
CHECK_DEADLOCK FALSE
