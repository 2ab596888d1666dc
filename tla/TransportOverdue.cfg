SPECIFICATION Spec
CONSTANTS
  c1 = c1
  c2 = c2
  Controllers <- MCControllers
  Entries     <- MCEntries
  None        = None
  MaxSessions = 6
  MaxCommands = 3
INVARIANTS
  UnconfirmedIsSilent
\* A stopped player that nobody asks anything more has no step left.
CHECK_DEADLOCK FALSE
