SPECIFICATION Spec
CONSTANTS
  Vehicle <- Two
  HALF = 5
  SECOND = 1
  TTLNEIGHBORTABLE = 3
  PurgeAge = 0
  SLOTS = 5
  LAGS = 2
  MINTRACE = 3
  MAXTRACE = 4
  MaxStep = 3
  MaxTime = 11
INVARIANTS
  UsedAreRecent
  RegressionNeedsBacklog
  SlopesInBounds
