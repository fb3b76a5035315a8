SPECIFICATION Spec
CONSTANTS
  PseudoBase = 100
  UndefinedValue <- Minus1
  UndefinedOrder <- Minus1
  MaximumOrder = 9
  Commands <- LostNegative
CHECK_DEADLOCK FALSE
INVARIANTS InvalidValuesTested
