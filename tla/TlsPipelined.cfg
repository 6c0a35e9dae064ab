SPECIFICATION Spec
CONSTANTS
  ReqLen = 2
  RespLen = 1
  FlightLen = 3
  Room = 4
  ReadMax = 4
  Spins = 2
  StashCap = 2
  RecordSizes = {1, 2, 4}
  MaxRequests = 3
  Pipelined = TRUE
  Sqe = {TRUE}
INVARIANT NoAnswerInvented
