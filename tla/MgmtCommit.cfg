CONSTANTS
  b1 = b1
  b2 = b2
  i1 = i1
  i2 = i2
  Backends = {b1, b2}
  Items = {i1, i2}
  Interest <- MCInterest
  Sessions = {"s1"}
  MaxTxn = 8
  Disturbances = {"refuse", "drop", "restart", "timeout", "logout", "invalid", "unprepared", "rollback", "stray_unlock"}
  MaxCommits = 2
  MaxFaults = 1
  Targets <- MCTargets
  FirstUp = {b1}
  FirstRecords <- MCRecords
SPECIFICATION FairSpec
INVARIANTS TypeOK NoAssertFails InitIsCurrent Synced
PROPERTIES Refines Settles
CHECK_DEADLOCK FALSE
