CONSTANTS
  MaxRules = 3
  RuleLists <- MCRuleLists
SPECIFICATION Spec
INVARIANTS
  TypeOK
  FlagsSummariseRules
  StatusIsFirstError
  ObligationsOfDecision
PROPERTY KeepsPromise
CHECK_DEADLOCK FALSE
