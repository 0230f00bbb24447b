CONSTANTS
  None = None
  MaxTurns = 4
  MaxCrashes = 0
SPECIFICATION Spec
CHECK_DEADLOCK FALSE
INVARIANT ReopenedGoesOn
