SPECIFICATION FairSpec
CONSTANTS
  c1 = c1
  c2 = c2
  Controllers <- MCControllers
  Block      = 2
  Last       = 7
  MaxEntries = 1
  None       = None
  Bad        = Bad
INVARIANTS
  TypeOK
  NothingTwice
  QueueLoads
PROPERTIES
  EditsAreAnswered
\* A start is refused for good once the values are exhausted.
CHECK_DEADLOCK FALSE
