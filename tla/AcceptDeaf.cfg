CONSTANTS
  NumListeners = 2
  SqeMayFail = TRUE
  MaxArmed = 1
  MaxCq = 2
SPECIFICATION FairSpec
PROPERTY PausedIsRetried
CHECK_DEADLOCK FALSE
