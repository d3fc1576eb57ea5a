SPECIFICATION Spec
CONSTANTS
  Sources = {"video", "audio", "shared"}
  DescriptorsOf <- MCDescriptors
  EventsOf <- MCEvents
  ReadyFor <- MCReady
  PipelineOf <- MCPipelines
  MaxInterruptions = 2
  MaxCounter = 2
INVARIANTS TablesMatchKernel OwnEventsShown NoWakeLost
PROPERTIES NoSourceStarves
CHECK_DEADLOCK FALSE
