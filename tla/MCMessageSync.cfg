SPECIFICATION SyncSpec
CONSTANTS
  OFFLINE_QUEUE_SIZE = 2
  MaxArrivals = 3
  LinkCap = 2
  AppVersions <- MCVersions
  MaxSessions = 2
INVARIANTS
  SyncTypeOK
  NoLostWakeUp
  AppReadsInOrder
PROPERTIES
  EventuallyDrained
CHECK_DEADLOCK FALSE
