CONSTANTS
  Id = {x}
  Keep = 1
  KeepMonths = 1
  MaxEvents = 4
  MaxVersions = 3
  MaxMonth = 2
  MaxFaults = 2
SPECIFICATION Spec
CHECK_DEADLOCK FALSE
INVARIANTS
  ViewIsTrue
  EveryVersionRebuilds
  FoldedIsDurable
  CountExact
PROPERTIES
  WrittenOnce
