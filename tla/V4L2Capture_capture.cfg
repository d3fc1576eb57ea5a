SPECIFICATION Spec
CONSTANTS
  Count = 3
  Modulus = 4
  MaxFrame = 8
  MaxPts = 1
INVARIANTS SessionAccounted BuffersInPlace FramesAccounted
CHECK_DEADLOCK FALSE
