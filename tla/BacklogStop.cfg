SPECIFICATION StopSpec
CONSTANTS
  j1 = j1
  j2 = j2
  j3 = j3
  k1 = k1
  k2 = k2
  w1 = w1
  w2 = w2
  None = None
  Jobs <- TwoJobs
  Keys = {k1}
  KeyOf <- OneKeyOf
  Workflows = {w1, w2}
  OwnerOf <- OwnerEach
  Cleaners = {w1}
  Dispatchers = {d1}
  MaxAccepts = 2
  MaxFaults = 1
CHECK_DEADLOCK FALSE
INVARIANTS OneHandoverPerAcceptance
PROPERTIES StopCompletes
