SPECIFICATION FairSpecSubscriptions
CONSTANTS
  q1 = q1
  q2 = q2
  q3 = q3
  None = None
  OldCustomer = OldCustomer
  Requests <- MCRequests
  Work <- MCWork
  PaidPlans <- MCPlans
  Overage <- MCOverage
  MaxReorders = 1
CHECK_DEADLOCK FALSE
INVARIANTS SubscriptionsTypeOK PaidIsReachable CancellationEndsPlan
PROPERTIES RenewalsRepair
