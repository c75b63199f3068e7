SPECIFICATION Spec
CHECK_DEADLOCK FALSE
CONSTANTS
  Vip <- ThreeVip
  Me <- MCMe
  Phy <- ThreePhy
  Stray = 99
  Pos <- MCPos
  NoPos = 0
  BROADCASTADDRESS = 255
  TTLNEIGHBORTABLE = 1
  PurgeAge = 0
  MAXDISTANCE = 2
  InitTtl = 2
  U32 = 3
  MaxTrace = 1
  MaxTime = 2
INVARIANTS
  TypeOK
  NeighborHasRoute
  RouteThroughHeardVehicle
  RelayGoesToLiveVehicle
  
  NeighborPacketsCarryPosition
  CrashOnlyOnStrangers
