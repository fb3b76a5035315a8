SPECIFICATION FairSpec
CONSTANTS
  Param <- Four
  ValueCount <- TwoValues4
  Position <- Position4
  Weight <- Even4
  BaseCombos <- OnesNoA
  ExclusionChoices <- RawSetsBCD
  SeedChoices <- SeedsOfA
  Mode = "Preview"
  MaxRows = 20
  MayAbort = FALSE
CHECK_DEADLOCK FALSE
INVARIANTS StuckForCause
PROPERTIES Terminates
