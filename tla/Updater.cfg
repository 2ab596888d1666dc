CONSTANTS
  Newest    = 4
  Schema   <- MCSchema
  Settings  = {"old", "new"}
  Loads    <- MCLoads
  Crashing  = {2}
  Limit     = 2
  MaxEvents = 6
SPECIFICATION Spec

  
PROPERTIES
  CrashRollbackDeserved
  RolledBackStaysHeld
  BadInstallIsUndone
\* A healthy serve serves on once the bounded events are spent: the model may stop.
CHECK_DEADLOCK FALSE
