CONSTANTS
  b1 = b1
  b2 = b2
  i1 = i1
  i2 = i2
  Backends = {b1, b2}
  Items = {i1, i2}
  Interest <- MCInterest
  Sessions = {"s1"}
  MaxTxn = 8
  Disturbances = {"rollback"}
  MaxCommits = 2
  MaxFaults = 1
  Targets <- MCTargets
  FirstUp = {}
  FirstRecords <- MCRecords
SPECIFICATION Spec
INVARIANT RollbackResumes
CHECK_DEADLOCK FALSE
