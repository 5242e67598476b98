SPECIFICATION Spec
CONSTANTS
  r1 = r1
  r2 = r2
  r3 = r3
  Requests <- MCRequests
  Max <- MCMax
  Window <- MCWindow
SYMMETRY Interchangeable
CHECK_DEADLOCK FALSE
INVARIANTS   RefusalEnds PRWindowEnds
