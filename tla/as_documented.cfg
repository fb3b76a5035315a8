SPECIFICATION Spec
CONSTANTS
  Upper <- Capitals
  CharRank <- Rank
  NumberOf <- Numbers
  Cases <- AsDocumented
CHECK_DEADLOCK FALSE
INVARIANTS ExclusionsMeanConstraints
