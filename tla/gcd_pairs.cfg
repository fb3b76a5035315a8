SPECIFICATION FairSpec
CONSTANTS
  Param <- Three
  ValueCount <- TwoValues3
  Position <- Position3
  Weight <- Even3
  BaseCombos <- Pairs3
  ExclusionChoices <- ClosedSets
  SeedChoices <- NoneOrSeeds
  Mode = "Regular"
  MaxRows = 20
  MayAbort = TRUE
CHECK_DEADLOCK FALSE
INVARIANTS TypeOK CountersAgree AssertionsHold BindingDiscipline LastParamsQueued NoInvalidRow NeverFails SeedRowsKeepSeeds CoverageIsExact
PROPERTIES PromiseKept Terminates
