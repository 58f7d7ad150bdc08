SPECIFICATION Spec
CONSTANTS
  Defaults <- StorageDefaults
  NoPrefs = NoPrefs
  LegacyFiles <- StorageLegacy
  AllowedRepeatFreq = {433000, 869495, 918000}
  MAX_LORA_TX_POWER = 17
  ENV_INCLUDE_GPS = TRUE
  RadioRequests <- StorageRadio
  SmallValues = {1, 100000}
  Cuts = {0, 4, 17}
  MaxCommands = 2
  MaxSaveFaults = 1
  Identities = {"ours", "imported"}
  NoIdentity = NoIdentity
  ChannelNames = {"friends"}
  NoChannel = "empty"
  PublicChannel = "Public"
  MAX_GROUP_CHANNELS = 2
  MaxFileOps = 3
  MaxFileFaults = 2
  BlobKeys = {"alice", "bob", "carol"}
  NoBlob = NoBlob
  MAX_BLOBRECS = 2
  MaxBlobTime = 3
  MaxPuts = 4
  NoFile = NoFile
  MaxMigrationFaults = 1
  OddRadix = 4
  FOLD = 3
  CURVE = 3
  LoadShift <- FoundationLoads
  InputValues <- FoundationNumbers
  Moduli <- FoundationModuli
  MaxFieldOps = 2
  ScalarRadix = 4
  Excess <- FoundationExcess
  ScalarInputs <- FoundationScalars
  DigestInputs <- FoundationDigests
  MaxScalarOps = 2
  Field = 53
  CurveD = 3
  RootM1 = 23
  Curve24 = 40
  Base <- FoundationBase
  BaseOrder = 7
  Nibbles = 4
  Seeds = {0, 11111, 16383, 30584, 9800}
  AddedScalars = {1, 5, 32767}
  PeerKeys = {777, 12000}
  MaxMoves = 2
  BLOCK = 6
  LENGTH_AT = 3
  ZEROS_TO = 4
  MaxMessage = 14
INVARIANTS TypesOK RepeatOnAllowedFreq BlobNewest MigrationLosesOnlyHurt ResiduesRight NumbersRight KeysRight DigestRight
PROPERTIES RebootKeepsSettings RestartKeepsNode
CHECK_DEADLOCK FALSE
