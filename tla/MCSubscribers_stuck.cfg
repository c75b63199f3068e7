SPECIFICATION ReportingSpec
CHECK_DEADLOCK FALSE
CONSTANTS
  MaxOpen = 1
  MaxClients = 1
  MaxFd = 3
  MaxConns = 1
  Fickle = {1}
  Request <- Requests
PROPERTIES
  StuckAreDropped
