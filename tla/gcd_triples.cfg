SPECIFICATION FairSpec
CONSTANTS
  Param <- Five
  ValueCount <- TwoOfACD
  Position <- Position5
  Weight <- EvenACD
  BaseCombos <- Triples5
  ExclusionChoices <- TripleSets
  SeedChoices <- TripleSeeds
  Mode = "Regular"
  MaxRows = 20
  MayAbort = FALSE
CHECK_DEADLOCK FALSE
INVARIANTS LastParamsQueued SafeFromAmpleSeeds CoverageIsExact
