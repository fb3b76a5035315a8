SPECIFICATION FairSpec
CONSTANTS
  Param <- Three
  ValueCount <- TwoValues3
  Position <- Position3
  Weight <- Even3
  BaseCombos <- Pairs3
  ExclusionChoices <- RawSets
  SeedChoices <- NoSeeds
  Mode = "Approximate"
  MaxRows = 5
  MayAbort = FALSE
CHECK_DEADLOCK FALSE
INVARIANTS AssertionsHold NoInvalidRow
