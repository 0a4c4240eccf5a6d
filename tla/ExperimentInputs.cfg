SPECIFICATION Spec
CONSTANTS
  u1 = u1
  u2 = u2
  Uploads = {u1, u2}
  MaxBatches <- TwoAndOne
  Texts = {1, 2}
  Clients = {c1, c2}
  Experiments = {e1}
  Faults <- FaultKinds
  MaxFaults = 2
CHECK_DEADLOCK FALSE
INVARIANTS ImportIsWhole StagedIsOwned ResultsFitInputs
SYMMETRY Symmetry
