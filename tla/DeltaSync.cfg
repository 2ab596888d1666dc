SPECIFICATION FairSpec
CONSTANTS
  c1           = c1
  c2           = c2
  Paths        <- MCPaths
  Routed       = {2}
  Contents     <- MCContents
  None         = None
  MassDivisor  = 2
  MassAbsolute = 2
  Clock        <- MCClock
  MaxStamp     = 4
  PageLimit    = 1
  DeletedCap   = 1
INVARIANTS
  TypeOK
  ServedHasNoTombstone
  

  
  
  
