SPECIFICATION Spec
CHECK_DEADLOCK FALSE
CONSTANTS
  Vip <- TwoVip
  Me <- MCMe
  Phy <- TwoPhy
  Stray = 99
  Pos <- MCPos
  NoPos = 0
  BROADCASTADDRESS = 255
  TTLNEIGHBORTABLE = 2
  PurgeAge = 1
  MAXDISTANCE = 2
  InitTtl = 3
  U32 = 5
  MaxTrace = 3
  MaxTime = 6
INVARIANTS
  BeaconsOnBeaconPort
