SPECIFICATION FairSpec
CONSTANTS
  s1 = s1
  s2 = s2
  None = None
  Batches <- TwoBatches
  Workflows = {v1, v2}
  Clients = {c1}
  Actions = {"stop", "cancel", "resume", "retry"}
  Faults <- FaultKinds
  MaxFaults = 1
CHECK_DEADLOCK FALSE
INVARIANTS StoppedIsSettled SnapshotExact
PROPERTIES ImplementsLifecycle StopIsHeard RunningEnds
