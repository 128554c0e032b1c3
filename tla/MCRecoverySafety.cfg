SPECIFICATION Spec
CONSTANTS
  c1 = c1
  c2 = c2
  e1 = e1
  good = good
  bad = bad
  h1 = h1
  h2 = h2
  Runtimes = {r1, r2}
  Requests = {q1, q2}
  Children = {c1, c2}
  DependsOn <- MCChain
  Concurrency = 2
  Effects = {e1}
  EffectOf <- MCSoloEffect
  EffectRequest <- MCPairRequest
  NoEffect = NoEffect
  Values = {good, bad}
  StatusOfValue <- MCStatusOfValue
  NoValue = NoValue
  NoRequest = NoRequest
  NoResult = NoResult
  GraphLimit = 16
  MaxInterrupts = 1
  MaxCrashes = 1
SYMMETRY Symmetry
INVARIANTS
  RunIsAccounted
  SideEffectAtMostOnce
  JournalMatchesOperations
PROPERTIES
  ImplementsRun
CHECK_DEADLOCK FALSE
