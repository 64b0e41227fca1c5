CONSTANTS
  Functions <- AllFunctions
  CalleeSaved <- TwoSaved
  CallerSaved <- JustR10
  NoReg = NoReg
SPECIFICATION FairSpec
CHECK_DEADLOCK FALSE
INVARIANTS
  NoInterference
  ActiveFits
  CallSafe
  LoopsCovered
  FrameSound
PROPERTIES
  Implements
  SpillOnlyWhenFull
  Terminates
