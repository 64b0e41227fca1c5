CONSTANTS
  Functions <- MachineFunctions
  CalleeSaved <- OneSaved
  CallerSaved <- AllScratch
  NoReg = NoReg
SPECIFICATION MachineSpec
CHECK_DEADLOCK FALSE
INVARIANTS
  ReadsAreRight
  DefinedBeforeUse
  ArgumentsDelivered
  LocalsIntact
  CallerRestored
  ValueReturned
