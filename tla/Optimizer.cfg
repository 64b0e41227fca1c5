CONSTANTS
  WordBits = 8
  IntBits = 5
  StepBound = 150
  Sources <- IntegerFunctions
  Inputs <- SmallInputs
  MaxStackConsts = 2
  MaxShift = 6
  Folded <- Integer
  Outcome <- Run
  Level = 2
SPECIFICATION OptSpec
CHECK_DEADLOCK FALSE
INVARIANTS
  Preserved
  PassesStandAlone
  CanBeEmitted
  StaysInside
  Settles
