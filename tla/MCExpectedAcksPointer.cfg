SPECIFICATION Spec
CONSTANTS
  EXPECTED_ACK_TABLE_SIZE = 2
  Acks <- MCAcks
  Contacts <- TwoContacts
  ClockPeriod = 3
  MaxSends = 2
  MaxTime = 1
INVARIANTS
  ReturnsMatchingContact
CHECK_DEADLOCK FALSE
