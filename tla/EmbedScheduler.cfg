SPECIFICATION FairSpec
CONSTANTS
  Caller = {c1, c2, c3}
  Capacity = 2
  MaxChunks = 2
  MaxRequests = 4
INVARIANTS
  CountersExact
  NoLostWakeup
  DialogueWaitsOnlyForDialogue
PROPERTIES
  EveryRequestEnds
