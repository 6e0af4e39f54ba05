CONSTANTS
  MaxPolicies = 3
  PolicyLists <- MCPolicyLists
SPECIFICATION Spec
INVARIANT NotApplicableMeansNoneApplied
CHECK_DEADLOCK FALSE
