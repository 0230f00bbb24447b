CONSTANTS
  Turn = {t1, t2}
  Session = {s1}
  NoId = NoId
SPECIFICATION Spec
SYMMETRY Symmetry
CHECK_DEADLOCK FALSE
INVARIANTS
  Exclusive
  CancelReaches
  RecordedOnce
  LedgerBacked
PROPERTY ShutdownWaits
