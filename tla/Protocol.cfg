CONSTANTS
  Streams <- Pipelined
  BufCap = 3
  MaxHeader = 5
  MaxFields = 2
  MaxBody = 3
SPECIFICATION ProtocolSpec
INVARIANTS NoByteLost AnswersRight NoAnswerInvented ResponseWatched
PROPERTIES EveryRequestAnswered TlsClientServed
