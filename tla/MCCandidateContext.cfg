SPECIFICATION FairSpec
CONSTANTS
  r1 = r1
  r2 = r2
  junior = junior
  senior = senior
  startup = startup
  NoContext = NoContext
  Requests <- MCRequests
  Roles <- MCRoles
  Orgs <- MCOrgs
  MaxAttempts = 2
  MaxResets = 3
INVARIANTS ExhaustionNeedsResets HandedLockInForce LateAnalysesAgree
PROPERTIES RequestsAnswered
