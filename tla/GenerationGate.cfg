CONSTANTS
  Task = {a1, a2}
  MaxTurns = 2
  MaxGenerations = 1
  MaxCalls = 2
  MaxRebinds = 1
  MaxPreemptions = 1
SPECIFICATION FairSpec
CHECK_DEADLOCK FALSE
INVARIANTS
  GateExact
  StartsBesideNoTurn
  LearnsAlone
  NobodyForgotten
PROPERTIES
  BackgroundGoesOn
