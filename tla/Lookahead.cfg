SPECIFICATION LookaheadSpec
CONSTANTS
  Names = {"V"}
  NoName = "none"
  Main <- MCMain
  Canonical <- MCCanonical
  Cwd = "src"
  SearchPaths <- MCSearchPaths
  MaxDepth = 3
  MaxCond = 1
  MaxOnce = 1
  MaxFiles = 1
  Items <- MCItems
  Texts <- MCTexts
  Options <- MCOptions
  MaxLooks = 1
CHECK_DEADLOCK FALSE
INVARIANT
  RereadTheSame
