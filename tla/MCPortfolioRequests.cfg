SPECIFICATION FairSpecRequests
CONSTANTS
  a1 = a1
  a2 = a2
  r3 = r3
  c1 = c1
  c2 = c2
  Analyses <- MCAnalyses
  Requests <- MCRequests
  Candidates <- MCCandidates
  KeyCandidate = c1
  NoResult = NoResult
  CallsMayFail = TRUE
  Limit = 2
  LastPeriod = 2
CHECK_DEADLOCK FALSE
INVARIANTS ServedResultsAreComputed QuotaHolds EveryoneIsCounted
PROPERTIES ResultsStay AnalysesEnd
