SPECIFICATION Spec
CONSTANTS
  Upper <- Capitals
  CharRank <- Rank
  NumberOf <- Numbers
  Cases <- AllCases
CHECK_DEADLOCK FALSE
INVARIANTS ExclusionsMeanConstraints RefusedForCause WarnsAboutTheOffender StacksBalance
