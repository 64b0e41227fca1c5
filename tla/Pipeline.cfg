CONSTANTS
  Functions <- Pipelined
  CalleeSaved <- OneSaved
  CallerSaved <- AllScratch
  NoReg = NoReg
  WordBits = 8
  IntBits = 5
  StepBound = 0
  MaxStackConsts = 1
  MaxShift = 6
  Folded <- Integer
  Level = 1
SPECIFICATION PipelineSpec
CHECK_DEADLOCK FALSE
INVARIANTS
  OptimizedCodeFindsItsValues
