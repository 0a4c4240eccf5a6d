SPECIFICATION Spec
CONSTANTS
  j1 = j1
  j2 = j2
  j3 = j3
  None = None
  Jobs = {j1, j2}
  Dispatchers = {d1}
  Reservations = {r1, r2, r3}
  Limit = 1
  LeaseTTL = 6
  MaxAttempts = 2
  MaxStalls = 1
  MaxFaults = 0
  RateLimitable = {}
  Direct = {}
  PromptPickup = TRUE
  Reconciled = {j1, j2}
  Stoppable = {}
CHECK_DEADLOCK FALSE
INVARIANTS InFlightBound
