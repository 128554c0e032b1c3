SPECIFICATION FairSpec
CONSTANTS
  t1 = t1
  t2 = t2
  Tasks = {t1, t2}
  Owners = {o1, o2}
  Class <- MCDenied
  Lease = 1
  MaxActive = 1
  MaxSweeps = 2
  MaxFaults = 1
  Overlap = FALSE
  NoOwner = NoOwner
PROPERTIES
  ClaimedTaskEnds
  WatchedTaskIsBlocked
CHECK_DEADLOCK FALSE
