SPECIFICATION FairSpecRoutes
CONSTANTS
  r1 = r1
  r2 = r2
  r3 = r3
  b1 = b1
  t1 = t1
  t2 = t2
  g1 = g1
  h1 = h1
  u1 = u1
  u2 = u2
  Requests <- MCRequests
  Batches <- MCBatches
  TaskIds <- MCTaskIds
  Users <- MCUsers
  OwnerOf <- MCOwnerOf
  IdOf <- MCIdOf
  Paid <- MCPaid
  DiveLimit = 1
  RegisteredId <- MCRegisteredId
  RecordId <- MCRecordId
CHECK_DEADLOCK FALSE
INVARIANTS OverrunIsBounded WorkIsRegistered BatchesTypeOK HistoryMatchesAnswer OverIsForgotten
PROPERTIES Answered BatchesAnswered
