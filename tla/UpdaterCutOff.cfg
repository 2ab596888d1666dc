CONSTANTS
  Newest    = 4
  Schema   <- CutSchema
  Settings  = {"old", "new"}
  Loads    <- MCLoads
  Crashing  = {}
  Limit     = 2
  MaxEvents = 4
SPECIFICATION Spec
PROPERTIES
  OperatorStaysWithinStore
\* A healthy serve serves on once the bounded events are spent: the model may stop.
CHECK_DEADLOCK FALSE
