SPECIFICATION Spec
CONSTANTS
  SyncKeys = {"alice", "bob", "carol"}
  SYNC_MAX_CONTACTS = 2
  SyncMaxTime = 2
  SyncMaxEdits = 3
  SyncMaxSessions = 2
  Bytes = {"x", "y"}
  Junk = Junk
  NoMessage = NoMessage
  MAX_SIGN_DATA_LEN = 4
  MaxPart = 2
  KeyPrefixes = {"alice", "bob", "carol", "dave"}
  NoPrefix = NoPrefix
  ADVERT_PATH_TABLE_SIZE = 3
  TimeRange = 6
  PacketPool = 2
  TelemetryKinds = {"base", "location"}
  Contacts = {"alice"}
  ScopeKeys = {"k1"}
  NullKey = "null"
  NoPacket = NoPacket
  MAX_PATH_SIZE = 2
INVARIANTS TypesOK MissedOnlyLate NoLeftovers NewestHeardKept
PROPERTIES ListingEnds ImplementsSigner RecentFirst ImplementsAirwaves
CHECK_DEADLOCK FALSE
