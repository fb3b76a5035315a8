SPECIFICATION FairSpec
CONSTANTS
  Param <- Three
  ValueCount <- TwoTwoThree
  ExclusionChoices <- ManyExclusions
  MayAbort = TRUE
CHECK_DEADLOCK FALSE
INVARIANTS TypeOK MeaningKept WaitingOrSaturated ClosedWhenDone ClosureReached NoDanglingLink
PROPERTIES Terminates
