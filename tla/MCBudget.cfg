SPECIFICATION Spec
CONSTANTS
  Policies <- MCPolicies
  Clock <- MCClock
  ToolCalls <- MCToolCalls
  Workers = {w1, w2}
  CallIds = {c1, c2}
  TokenCaps = {2, 3}
  ActualTokens = {0, 2, 4}
  Attempts = {4}
  HistoryWindow = 2
  GraphLimit = 8
  LlmLimit = 3
  ToolLimit = 4
  TokenLimit = 6
  SlotLimit = 1
  RoundLimit = 1
  WallLimit = 20
INVARIANTS
  UsageWithinActive
  NoRecentRepeat
PROPERTIES
  DurableUsageNeverDecreases
CHECK_DEADLOCK FALSE
