SPECIFICATION Spec
CONSTANTS
  Task = {t1, t2, t3}
  Turn = {u1, u2}
  NoTask = NoTask
  MaxInputs = 2
  MaxCalls = 0
  TurnsMayFail = TRUE
SYMMETRY Symmetry
INVARIANTS
  FullExclusive
  ForcedFullUndisturbed
  ShutdownIsFinal
PROPERTIES
  WaitingFullSpared
  OverlapOnlyAfterGenerationWait
CHECK_DEADLOCK FALSE
