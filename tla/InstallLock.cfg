CONSTANTS
  Serve = {s1, s2, s3}
  Writer = {w1, w2}
  Nobody = Nobody
  Update = {u1, u2}
SPECIFICATION Spec
SYMMETRY Symmetry
CHECK_DEADLOCK FALSE
INVARIANTS
  NeverBoth
  
  RunningIsSeen
  SavedStays
