CONSTANTS
  Streams <- LengthThenGet
  BufCap = 3
  MaxHeader = 5
  MaxFields = 2
  MaxBody = 3
SPECIFICATION Spec
INVARIANT NoByteLost
CHECK_DEADLOCK FALSE
