CONSTANTS
  MaxPolicies = 3
  PolicyLists <- MCPolicyLists
SPECIFICATION Spec
INVARIANT UnlessIsDefinite
CHECK_DEADLOCK FALSE
