SPECIFICATION Spec
CONSTANTS
  p = p
  o = o
  k1 = k1
  k2 = k2
  k3 = k3
  None = None
  Keys       <- MCKeys
  Revisioned <- MCRevisioned
  Legacy     <- MCLegacy
  Hearts     <- MCHearts
  Cap         = 2
  Retention   = 2
  MaxTime     = 3
  MaxRevision = 3
  MaxEpoch    = 1
INVARIANTS
  Echoable
  
PROPERTIES
  RemovalSurvivesLegacy
  KeepsSharedFavorites
SYMMETRY MCSymmetry
CONSTRAINT
  WithinRevisions
\* The bounds of time, revisions and epochs are reached.
CHECK_DEADLOCK FALSE
