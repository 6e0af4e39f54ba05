CONSTANTS
  Methods <- MCMethods
  Policies <- MCPolicies
SPECIFICATION Spec
INVARIANTS
  TypeOK
  FirstInRankOrder
  NullExhaustsRank
  OnlyRepairKept
  TriesCountPositions
PROPERTY RepairEnds
CHECK_DEADLOCK FALSE
