CONSTANTS
  Configs <- AllConfigs
  Failures <- AllFailures
  DottedDirs <- Dots
  NoFile = NoFile
SPECIFICATION DriverSpec
CHECK_DEADLOCK FALSE
INVARIANTS
  ExitTellsTheTruth
  NothingLeftBehind
  EachItsOwnObject
  DependenciesFollowProduct
  ErrorsTouchNothing
