SPECIFICATION FairSpec
CONSTANTS
  a1 = a1
  a2 = a2
  Analyses <- MCAnalyses
  NoResult = NoResult
  CallsMayFail = FALSE
CHECK_DEADLOCK FALSE
PROPERTIES EndIsFinal
