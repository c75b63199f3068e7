SPECIFICATION FairSpec
CHECK_DEADLOCK FALSE
CONSTANTS
  Fix <- MCOneFix
  MaxQueue = 3
PROPERTIES
  BeaconsForever
