CONSTANTS
  Methods <- MCMethods
  Policies <- MCPolicies
SPECIFICATION Spec
INVARIANT EveryRuleMutated
CHECK_DEADLOCK FALSE
