SPECIFICATION FairSpec
CONSTANTS
  PseudoBase = 100
  UndefinedValue <- Minus1
  UndefinedOrder <- Minus1
  MaximumOrder = 9
  Commands <- MCCommands
CHECK_DEADLOCK FALSE
INVARIANTS OneNegativePerTest SubmodelRowsAgree ConstraintsHold PairsTested ResultValuesImplied
PROPERTIES Ends
