SPECIFICATION Spec
CONSTANTS
  Sites <- MCDirs
  Dirs <- MCDirs
  Steady <- MCSteady
  Hangs <- MCHangs
  MaxAge = 3
  Units = 5
INVARIANTS OneWalk CPUTrue
PROPERTIES ExitTruthful SitesComeBack AlwaysMeasured
