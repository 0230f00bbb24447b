SPECIFICATION FairSpec
CONSTANTS
  Task = {t1, t2}
  Turn = {u1}
  NoTask = NoTask
  MaxInputs = 1
  MaxCalls = 1
  TurnsMayFail = FALSE
INVARIANTS
  CompletedMeansExecuted
PROPERTIES
  ArmedRequestServed
  ManualAnswered
CHECK_DEADLOCK FALSE
