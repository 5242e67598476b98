SPECIFICATION FairSpecPR
CONSTANTS
  a1 = a1
  a2 = a2
  a3 = a3
  u1 = u1
  u2 = u2
  Analyses <- MCAnalyses
  NoResult = NoResult
  Owner <- MCOwner
INVARIANTS PRTypeOK ResultsAreComputed
PROPERTY BegunAnalysesEnd
CHECK_DEADLOCK FALSE
