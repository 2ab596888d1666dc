SPECIFICATION FairSpec
CONSTANTS
  c1 = c1
  c2 = c2
  Controllers <- MCControllers
  Entries     <- MCEntries
  None        = None
  MaxSessions = 8
  MaxCommands = 4
INVARIANTS
  OneHolder
  ReasonIsRecorded
PROPERTIES
  NothingPlaysUnasked
  CommandsAreAnswered
\* A stopped player that nobody asks anything more has no step left.
CHECK_DEADLOCK FALSE
