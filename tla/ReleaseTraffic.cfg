SPECIFICATION RunnerFairSpec
CONSTANTS
  Servers = {s1, s2}
  Lines <- TestedLines
  Finishing = {"async", "sync"}
  Hits <- OtherHits
  MaxMessage = 2
  MaxEvent = 2
  Batch = 2
  DualFrom = 1
  Failures <- TestedFailures
  MaxFailures = 1
CHECK_DEADLOCK FALSE
INVARIANTS ServedOnce PushedOnce
PROPERTIES TrafficFlows
