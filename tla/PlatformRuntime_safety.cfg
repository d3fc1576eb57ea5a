CONSTANTS
  c1 = c1
  c2 = c2
  c3 = c3
  p1 = p1
  p2 = p2
  s1 = s1
  s2 = s2
  Callers = {c1, c2, c3}
  Pipelines <- TwoPipelines
  Sources = {s1, s2}
  SourcesOf <- SeparateSources
  DrainPasses = 1
  WakeMayFail = TRUE
  ObserverMayFail = TRUE
SPECIFICATION Spec
SYMMETRY CallerSymmetry
INVARIANTS
  TypeOK
  WakeNeedsOpenLoop
  SingleJoinOwner
  ReturnedMeansJoined
  ExitLeavesNothing
