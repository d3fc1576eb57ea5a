SPECIFICATION Spec
CONSTANTS
  InputCapacity = 1
  QueueCapacity = 2
  OutputDelay = 0
  LostAfter = 2
  ResetBlocksOnce = FALSE
  Faults = {}
  MaxFrames = 3
  MaxSessions = 2

PROPERTIES SessionsDoNotMix
CHECK_DEADLOCK FALSE
