CONSTANTS
  b1 = b1
  b2 = b2
  i1 = i1
  i2 = i2
  Backends = {b1, b2}
  Items = {i1, i2}
  Interest <- MCInterest
  Sessions = {"s1", "s2"}
  MaxTxn = 8
  Disturbances = {"stray_unlock"}
  MaxCommits = 2
  MaxFaults = 1
  Targets <- MCTargets
  FirstUp = {}
  FirstRecords <- MCRecords
SPECIFICATION Spec
INVARIANT UnlockTolerated
CHECK_DEADLOCK FALSE
