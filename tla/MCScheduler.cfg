SPECIFICATION FairSpec
CONSTANTS
  a1 = a1
  a2 = a2
  a3 = a3
  Schedules = {s1, s2}
  Plans <- MCPlans
  Assignments = {a1, a2, a3}
  HardCeiling = 4
  Outcomes = {"COMPLETED", "FAILED"}
  GuardPolicy <- Two
  NoGuard = NoGuard
  NoPlan = NoPlan
INVARIANTS
  SlotsAreSound
  WavesAreSound
PROPERTIES
  ExecutionEnds
CHECK_DEADLOCK FALSE
