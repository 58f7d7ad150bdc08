SPECIFICATION SyncSpec
CONSTANTS
  OFFLINE_QUEUE_SIZE = 2
  MaxArrivals = 2
  LinkCap = 2
  AppVersions <- MCVersions
  MaxSessions = 2
INVARIANTS
  RepliesFitVersion
CHECK_DEADLOCK FALSE
