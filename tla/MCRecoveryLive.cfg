SPECIFICATION FairSpec
CONSTANTS
  c1 = c1
  c2 = c2
  e1 = e1
  good = good
  bad = bad
  h1 = h1
  h2 = h2
  Runtimes = {r1, r2}
  Requests = {q1}
  Children = {c1}
  DependsOn <- MCIndependent
  Concurrency = 1
  Effects = {e1}
  EffectOf <- MCSoloEffect
  EffectRequest <- MCSoloRequest
  NoEffect = NoEffect
  Values = {good}
  StatusOfValue <- MCStatusOfValue
  NoValue = NoValue
  NoRequest = NoRequest
  NoResult = NoResult
  GraphLimit = 9
  MaxInterrupts = 1
  MaxCrashes = 1
PROPERTIES
  RunSettles
CHECK_DEADLOCK FALSE
