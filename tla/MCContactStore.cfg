SPECIFICATION Spec
CONSTANTS
  Keys <- MCKeys
  MAX_CONTACTS = 2
  ClockPeriod = 7
  LAZY_CONTACTS_WRITE_DELAY = 2
  MaxLag = 1
  MaxChanges = 4
  MaxFaults = 1
INVARIANTS
  TypeOK
  UnsavedIsArmed
PROPERTIES
  RebootKeepsContacts
  EventuallySaved
