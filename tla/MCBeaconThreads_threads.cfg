SPECIFICATION ScheduledSpec
CHECK_DEADLOCK FALSE
CONSTANTS
  Fix <- MCFix
  MaxQueue = 3
INVARIANTS
  TypeOK
  MutexOwnership
  SnapshotConsistent
  QueueBounded
  BeaconWhole
  DataWhole
PROPERTIES
  DeadlockIsForever
  HandlersFinish
