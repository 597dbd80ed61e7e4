SPECIFICATION Spec
CONSTANTS
  Sessions = {s1}
  Calls = {c1, c2}
  None = None
  TTL = 1
  MaxNow = 2
SYMMETRY Symm
INVARIANTS ClosedStaysClosed MapIsOnDisk StoreInv
PROPERTIES SweepTakesOnlyExpired ImplementsLifecycle
CHECK_DEADLOCK FALSE
