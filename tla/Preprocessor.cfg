SPECIFICATION Spec
CONSTANTS
  Names = {"A", "B", "C"}
  NoName = "none"
  Main <- MCMain
  Canonical <- MCCanonical
  Cwd <- MCCwd
  SearchPaths <- MCSearchPaths
  MaxDepth = 5
  MaxCond = 2
  MaxOnce = 2
  MaxFiles = 4
  Items <- MCItems
  Texts <- MCTexts
  Options <- MCOptions
CHECK_DEADLOCK FALSE
INVARIANTS
  SkipsExactlyDeadText
  GroupsOfIncludersKept
  NoMacroInsideItself
  OneMeaningEach
  EveryFileTracked
PROPERTIES
  OnceIsOnce
  ReadingEnds
