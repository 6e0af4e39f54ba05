CONSTANTS
  Mutants <- MCMutants
  Meetings <- MCMeetings
  Oracles <- MCOracles
  MaxTests = 2
  MaxSuites = 2
SPECIFICATION Spec
INVARIANTS
  TypeOK
  SpectrumTellsTruth
  TracingIsTransparent
  CrashNeedsAmbiguity
PROPERTY PastRowsFrozen
CHECK_DEADLOCK FALSE
