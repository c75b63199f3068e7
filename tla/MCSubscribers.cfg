SPECIFICATION FairSpec
CHECK_DEADLOCK FALSE
CONSTANTS
  MaxOpen = 2
  MaxClients = 2
  MaxFd = 4
  MaxConns = 3
  Fickle = {1}
  Request <- Requests
INVARIANTS
  OneOwner
  SlotsAreWhole
  EveryoneIsWatched
PROPERTIES
  NoOneElseIsDropped
  RequestsAreRead
  AlwaysOpen
