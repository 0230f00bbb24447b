CONSTANTS
  File = {f1, f2}
  MaxOps = 4
  MaxHandles = 1
SPECIFICATION FairSpec
CHECK_DEADLOCK FALSE
INVARIANTS
  NoSilentLoss
  NothingStranded
PROPERTIES
  KeepsPromise
  EverythingTakesEffect
  AppendsReachDisk
