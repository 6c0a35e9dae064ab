CONSTANTS
  Sources <- CorsOnly
  Text <- MCText
  Paths <- MCPaths
  HeaderLine <- MCHeaderLine
  Numeric <- MCNumeric
  Address <- MCAddress
  LinkLocal = {"ll"}
  Sockets <- MCSockets
  MaxVhosts = 2
  MaxRoutes = 3
  FirstCap = 1
  MaxHeaders = 2
  HdrMax = 3
  ExtraCap = 2
SPECIFICATION Spec
INVARIANT PreflightAsConfigured
CHECK_DEADLOCK FALSE
