CONSTANTS
  Searches <- MCSearches
  Variants = 1
  IntegerCCF = {1}
  Tests = 2
SPECIFICATION Spec
INVARIANTS
  TypeOK
  RankedFromOwnRun
  CheapestFirst
  GaveUpExhausted
  RepairKept
PROPERTY SearchEnds
CHECK_DEADLOCK FALSE
