SPECIFICATION FairSpec
CONSTANTS
  j1 = j1
  j2 = j2
  j3 = j3
  k1 = k1
  k2 = k2
  w1 = w1
  w2 = w2
  None = None
  Jobs <- ThreeJobs
  Keys = {k1, k2}
  KeyOf <- TwoKeysOf
  Workflows = {w1, w2}
  OwnerOf <- OneOwner
  Cleaners = {}
  Dispatchers = {d1}
  MaxAccepts = 1
  MaxFaults = 2
CHECK_DEADLOCK FALSE
INVARIANTS NoLostPendingJob
PROPERTIES ImplementsHandoff
