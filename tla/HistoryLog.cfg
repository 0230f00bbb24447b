CONSTANTS
  None = None
  MaxTurns = 5
  MaxCrashes = 2
SPECIFICATION Spec
CHECK_DEADLOCK FALSE
INVARIANTS
  KeptTurnsStay
  InOrder
  IndexShowsSession
PROPERTY ImplementsArchive
CONSTRAINT Readable
