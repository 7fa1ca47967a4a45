SPECIFICATION Spec
CONSTANTS
  Requests = {r1, r2}
  Names = {n1, n2}
  None = None
  MaxArrivals = 5
CHECK_DEADLOCK FALSE
SYMMETRY Symmetry
INVARIANTS
  OpensFindNoLock
  SessionsComeBack
  ClosedAfterClose
