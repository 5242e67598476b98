SPECIFICATION FairSpec
CONSTANTS
  d1 = d1
  d2 = d2
  d3 = d3
  created = created
  finalized = finalized
  paid = paid
  failed = failed
  subscribed = subscribed
  updated = updated
  repriced = repriced
  deleted = deleted
  Deliveries <- MCDeliveries
  Events <- MCEvents
  Mail <- MCMail
  Kind <- MCKind
  DataOf <- MCDataOf
  Plans <- MCPlans
  StripeData <- MCStripe
  MaxAttempts = 1
  MaxRetries = 1
  MaxFaults = 1
CHECK_DEADLOCK FALSE
INVARIANTS ProcessedWasHandled LateDuplicateIsIgnored
PROPERTIES NoStaleColumns EventsAreProcessed
