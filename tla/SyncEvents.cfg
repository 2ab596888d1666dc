SPECIFICATION NotesFairSpec
CONSTANTS
  MaxStamp      = 3
  MaxGeneration = 4
INVARIANTS
  ChangeIsUnderWay
PROPERTIES
  
  ClientsAreTold
CHECK_DEADLOCK FALSE
