SPECIFICATION FairSpec
CONSTANTS
  p1 = p1
  p2 = p2
  b1 = b1
  w1 = w1
  w2 = w2
  NoBatch = NoBatch
  Paths   <- MCPaths
  Batches <- MCBatches
  Workers <- MCWorkers
  Files   <- MCFiles
  LaneOf  <- MCLaneOf
  QueueCap  = 1
  EventCap  = 1
  MaxClaims = 1
INVARIANTS
  JobsOwnTheirKeys
  KeysAreReleased
  BatchesAddUp
  VerdictIsPersisted
PROPERTIES
  EndedRowsStay
  BatchesEnd
