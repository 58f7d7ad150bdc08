SPECIFICATION Spec
CONSTANTS
  NoFile = NoFile
  MaxMigrationFaults = 1
INVARIANT BlobsMigrated
CHECK_DEADLOCK FALSE
