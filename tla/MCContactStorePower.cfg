SPECIFICATION Spec
CONSTANTS
  Keys <- MCKeys
  MAX_CONTACTS = 2
  ClockPeriod = 5
  LAZY_CONTACTS_WRITE_DELAY = 1
  MaxLag = 1
  MaxChanges = 2
  MaxFaults = 0
PROPERTIES
  PowerLossKeepsContacts
