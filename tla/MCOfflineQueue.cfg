SPECIFICATION Spec
CONSTANTS
  OFFLINE_QUEUE_SIZE = 3
  MaxArrivals = 5
INVARIANTS
  ArrivalOrder
  NothingVanishes
  DirectMessagesKept
  OldestEvictedFirst
PROPERTIES
  ImplementsInbox
CHECK_DEADLOCK FALSE
