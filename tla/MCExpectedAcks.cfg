SPECIFICATION Spec
CONSTANTS
  EXPECTED_ACK_TABLE_SIZE = 2
  Acks <- MCAcks
  Contacts <- OneContact
  ClockPeriod = 3
  MaxSends = 4
  MaxTime = 4
INVARIANTS
  TypeOK
  ConfirmedOncePerSend
  RecentSendsTracked
  TripTimeFromSend
CHECK_DEADLOCK FALSE
