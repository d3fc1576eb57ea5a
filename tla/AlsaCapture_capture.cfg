SPECIFICATION Spec
CONSTANTS
  SamplesPerFrame = 2
  BufferFrames = 2
  MaxTime = 9
INVARIANTS DeviceAccounted TimelineExact
PROPERTIES GapsMarked
CHECK_DEADLOCK FALSE
