SPECIFICATION PartsSpec
CONSTANTS
  Fds = {1, 3, 5, 9, 11}
  Conns = {"a", "b"}
  NoConn = "NULL"
  InitCap = 4
  MaxCap = 16
INVARIANTS ProbesEnd BufferOnce
PROPERTIES ImplementsMap DeadlinesKept 
CHECK_DEADLOCK FALSE
