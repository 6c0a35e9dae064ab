CONSTANTS
  Fds = {3}
  Slots = {s1}
  MaxSend = 2
  MaxFile = 2
  SndBuf = 2
  StashCap = 2
  SqeMayFail = TRUE
  StashMayFail = FALSE
  AllocMayFail = TRUE
SPECIFICATION FairSpec
INVARIANTS RefExact DescriptorOwnership DeadlineFresh
  NeverStranded OneReaderOneWriter ActiveCountExact
PROPERTIES CloseIsFinal IdleIsReclaimed TimedWriteEnds
CHECK_DEADLOCK FALSE
