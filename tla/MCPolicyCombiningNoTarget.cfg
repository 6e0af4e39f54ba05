CONSTANTS
  MaxPolicies = 3
  PolicyLists <- MCPolicyLists
SPECIFICATION Spec
INVARIANT MissingTargetInherits
CHECK_DEADLOCK FALSE
