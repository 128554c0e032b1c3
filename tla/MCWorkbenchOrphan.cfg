SPECIFICATION FairSpec
CONSTANTS
  t1 = t1
  t2 = t2
  Tasks = {t1}
  Owners = {o1, o2}
  Class <- MCGeneral
  Lease = 1
  MaxActive = 1
  MaxSweeps = 2
  MaxFaults = 0
  Overlap = FALSE
  NoOwner = NoOwner
PROPERTIES
  InterruptedTaskIsBlocked
CHECK_DEADLOCK FALSE
