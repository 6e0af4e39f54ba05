CONSTANTS
  charSetSize = 2
  LenDistance = 2
  ValDistance = 2
  UnrollStep = 2
  MaxLen = 3
  MaxUnrolls = 4
  MaxPushes = 2
  Inputs <- MCInputs
SPECIFICATION Spec
INVARIANTS
  TypeOK
  EveryStringOnce
  UnrollsExact
  ReassertedAlike
  NeverStuck
  SolutionKept
PROPERTIES
  SolutionFound
CHECK_DEADLOCK FALSE
