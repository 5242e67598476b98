SPECIFICATION FairSpec
CONSTANTS
  o1 = o1
  o2 = o2
  hourly = hourly
  manual = manual
  Owners <- MCOwners
  Runs <- OneAtATime
  MaxRecords = 3
  LastPeriod = 2
  Limit = 2
  MaxRetries = 2
CHECK_DEADLOCK FALSE
INVARIANTS MarkedIsBilled BilledOnce
PROPERTIES UsageIsReported
