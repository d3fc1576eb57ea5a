CONSTANTS
  c1 = c1
  c2 = c2
  c3 = c3
  p1 = p1
  p2 = p2
  s1 = s1
  s2 = s2
  Callers = {c1, c2}
  Pipelines <- OnePipeline
  Sources = {s1}
  SourcesOf <- OneSource
  DrainPasses = 1
  WakeMayFail = FALSE
  ObserverMayFail = TRUE
SPECIFICATION FairSpec
PROPERTIES
  StopReturns
  StartCompletes
