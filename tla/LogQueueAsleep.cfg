CONSTANTS
  NumWorkers = 2
  Cap = 3
  BatchMax = 2
  MaxLines = 3
  MayFail = FALSE
SPECIFICATION Spec
INVARIANT NeverSleepsOnPending
CHECK_DEADLOCK FALSE
