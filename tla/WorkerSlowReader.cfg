CONSTANTS
  Fds = {3}
  Slots = {s1}
  MaxSend = 1
  MaxFile = 1
  SndBuf = 2
  StashCap = 2
  SqeMayFail = FALSE
  StashMayFail = FALSE
  AllocMayFail = FALSE
SPECIFICATION FairSpec
PROPERTY SlowReaderDisconnected
CHECK_DEADLOCK FALSE
