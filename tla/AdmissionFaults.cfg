SPECIFICATION FairSpec
CONSTANTS
  j1 = j1
  j2 = j2
  j3 = j3
  None = None
  Jobs = {j1, j2}
  Dispatchers = {d1, d2}
  Reservations = {r1, r2}
  Limit = 1
  LeaseTTL = 2
  MaxAttempts = 2
  MaxStalls = 1
  MaxFaults = 1
  RateLimitable = {j2}
  Direct = {j2}
  PromptPickup = FALSE
  Reconciled = {j1}
  Stoppable = {j1}
CHECK_DEADLOCK FALSE
INVARIANTS LeaseBound
PROPERTIES LeaseOutlivesCall LeaseComesBack JobSettles FailureIsFinal
