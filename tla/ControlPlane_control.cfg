SPECIFICATION Spec
CONSTANT MaxTrouble = 5
INVARIANTS PublishedTruth NoErrorBesideRunning
PROPERTIES StopConverges StartSettles
CHECK_DEADLOCK FALSE
