CONSTANTS
  MaxPolicies = 3
  PolicyLists <- MCPolicyLists
SPECIFICATION Spec
INVARIANTS
  TypeOK
  ObligationsOfDecision
  StatusExplains
  OnlyOneEvaluated
PROPERTY KeepsPromise
CHECK_DEADLOCK FALSE
