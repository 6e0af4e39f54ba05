CONSTANTS
  MaxNode = 9
  NumVars = 5
  MaxLevel = 2
  MaxAxioms = 4
  MaxLength = 4
  AvoidLoopCut = TRUE
  Char <- MCChar
  Inputs <- MCInputs
  Worlds <- MCWorlds
SPECIFICATION Spec
INVARIANTS
  TypeOK
  NoSolutionLost
  CutsBacked
  CutInfoSound
  CutInfoComplete
  SplitsWithinString
CHECK_DEADLOCK FALSE
