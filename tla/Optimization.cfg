SPECIFICATION FairSpec
CONSTANTS
  None = None
  Modes = {"from_experiment", "from_prompt_version", "from_dataset_only"}
  MaxRounds = 2
  StopAfter = 2
  Goal = 2
  SourceScores = {1}
  Workflows = {w1, w2}
  Actions = {"stop", "resume", "cancel"}
  Faults <- LoopFaults
  MaxFaults = 1
  TwinsFrom = 1
CHECK_DEADLOCK FALSE
INVARIANTS BestIsBest BuildsOnBest ChargedOnce StopReachesChildren
PROPERTIES StopStands RunningEnds
