CONSTANTS
  Configs <- TwoLinked
  Failures = {}
  DottedDirs <- Dots
  NoFile = NoFile
SPECIFICATION DriverSpec
CHECK_DEADLOCK FALSE
INVARIANTS
  DependenciesGenerated
