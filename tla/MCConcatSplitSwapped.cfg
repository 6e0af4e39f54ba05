CONSTANTS
  MaxNode = 2
  NumVars = 2
  MaxLevel = 0
  MaxAxioms = 2
  MaxLength = 4
  AvoidLoopCut = TRUE
  Char <- MCChar
  Inputs <- MCSwapped
  Worlds <- MCSwappedWorlds
SPECIFICATION Spec
INVARIANT NoSolutionLost
CHECK_DEADLOCK FALSE
