SPECIFICATION Spec
CONSTANTS
  Task = {t1, t2}
  Turn = {u1}
  NoTask = NoTask
  MaxInputs = 2
  MaxCalls = 0
  TurnsMayFail = FALSE
INVARIANTS
  NoFullBesideLevel1
CHECK_DEADLOCK FALSE
