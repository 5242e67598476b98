SPECIFICATION FairSpec
CONSTANTS
  r1 = r1
  r2 = r2
  r3 = r3
  u1 = u1
  Global = Global
  Requests <- MCRequests
  Users <- MCUsers
  UserOf <- MCUserOf
  MaxConcurrent <- MCLimits
  Mortal <- MCMortal
  Replies = {TRUE}
INVARIANTS HoldersBounded CountIsHolders NeverOvercounts StaleCountsExpire
PROPERTIES Answered IsSemaphore
