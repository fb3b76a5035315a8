SPECIFICATION Spec
CONSTANTS
  PseudoBase = 100
  PerModel = 10
  UndefinedValue <- Minus1
  Programs <- MCPrograms
CHECK_DEADLOCK FALSE
INVARIANTS NoExcludedRow SubmodelRowsSurvive SeedAppears FetchedEachOnce FreedNotRead
