SPECIFICATION ProcessSpec
CONSTANTS
  Threads = 2
  MaxConns = 1
  SignalAnyTime = TRUE
  StartMayFail = TRUE
  QueueWorkers = 2
  ShardCap = 3
  BatchMax = 2
  QueueMax = 4
  RingWorkers = 2
  RingCap = 3
  FlushLines = 2
  RingMax = 3
  LogMayFail = TRUE
INVARIANTS WakeDelivered 
PROPERTIES PatientDrainStops TimedShutdownCompletes LinesLeave
CHECK_DEADLOCK FALSE
