SPECIFICATION SpecUsage
CONSTANTS
  r1 = r1
  r2 = r2
  r3 = r3
  r4 = r4
  r5 = r5
  c1 = c1
  c2 = c2
  c3 = c3
  Requests <- MCRequests
  Candidates <- MCCandidates
  Limit = 2
  LastPeriod = 1
SYMMETRY Interchangeable
CHECK_DEADLOCK FALSE
INVARIANTS CandidateLimitHolds
