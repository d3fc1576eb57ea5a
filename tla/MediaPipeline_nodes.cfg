SPECIFICATION Spec
CONSTANTS
  Node <- ThreeNodes
  OrderOf <- KahnOrder
CONSTRAINT ThrowBound
INVARIANTS TypeOK RunningTogether StoppedIsQuiet DrainFrontier DestroyLeavesQuiet
PROPERTIES StartAllOrNothing ResetReachesAll GraphSound KeepsService
CHECK_DEADLOCK FALSE
