CONSTANTS
  Id = {x}
  Keep = 1
  KeepMonths = 1
  MaxEvents = 4
  MaxVersions = 2
  MaxMonth = 1
  MaxFaults = 0
SPECIFICATION Spec
CHECK_DEADLOCK FALSE
PROPERTY LateEventsSeen
