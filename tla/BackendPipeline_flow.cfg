SPECIFICATION FairSpec
CONSTANTS
  InputCapacity = 1
  QueueCapacity = 2
  OutputDelay = 1
  LostAfter = 10
  ResetBlocksOnce = TRUE
  Faults = {"stall", "create", "count", "gauge", "send", "send_new", "submit", "receive"}
  MaxFrames = 12
  MaxSessions = 2
INVARIANTS NothingLost FlowInOrder
PROPERTIES DrainDeliversAll DrainEnds OnlyFaultsFail
CHECK_DEADLOCK FALSE
