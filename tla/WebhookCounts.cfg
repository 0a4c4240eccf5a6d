SPECIFICATION RunnerSpec
CONSTANTS
  Servers = {s1, s2}
  Lines <- SynchronousCalls
  Finishing = {"async", "sync"}
  Hits <- OtherHits
  MaxMessage = 2
  MaxEvent = 2
  Batch = 2
  DualFrom = 0
  Failures <- NoFailures
  MaxFailures = 0
CHECK_DEADLOCK FALSE
INVARIANTS CountedIsPushed
