SPECIFICATION FairSpec
CONSTANTS
  r1 = r1
  r2 = r2
  Requests <- MCRequests
  Streaming <- MCStreaming
  MaxPending = 1
  TTL = 1
  Grace = 1
  Backoff = 1
  MaxRevokeAttempts = 2
INVARIANTS
  TokensAreWatched
  
  RevokedNoSooner
  VerdictReachesStream
PROPERTIES
  VerdictLingers
  RowsAreReclaimed
