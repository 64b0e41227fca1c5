SPECIFICATION MCSpec
CONSTANTS
  Programs <- MacroPrograms
  Marks <- MarkTokens
  MaxParams = 3
  MaxDepth = 4
CHECK_DEADLOCK FALSE
INVARIANTS
  ValueIsMeaning
  ResultIsMeaning
  NoMacroTwice
  ParsedAsWritten
