SPECIFICATION Spec
CONSTANTS
  None = None
  Runner = Runner
  Versions = {v1, v2}
  Clients = {c1, c2}
  Operations <- AllOperations
  MaxEvents = 5
  Faults = {"race", "crash"}
  MaxFaults = 1
CHECK_DEADLOCK FALSE
INVARIANTS OneActive LineTellsTheTruth EndedStaysEnded
PROPERTIES StopHolds
SYMMETRY Symmetry
