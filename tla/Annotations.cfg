SPECIFICATION Spec
CONSTANTS
  ann = ann
  bob = bob
  r1 = r1
  r2 = r2
  Nobody = Nobody
  Users = {ann, bob}
  Tabs = {a1, a2}
  UserOf <- TabOwner
  Diligent = {ann}
  Tasks = {t1}
  Results = {r1, r2}
  Categories = {c1, c2}
  Filters <- OldOrAll
  SampleSizes = {2}
  BatchSizes = {1, 2}
  Lease = 1
  MaxClaims = 3
CHECK_DEADLOCK FALSE
INVARIANTS DeletedLineIsBare
PROPERTIES WorkIsKept CompletedIsDone SampleGetsDone
