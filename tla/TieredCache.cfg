SPECIFICATION Spec
CONSTANTS
  Calls = {c1, c2, c3}
  Keys = {vault, owner}
  None = None
  TTL1 = 1
  TTL2 = 1
  MaxStall = 1
  MaxTime = 5
  MaxUpdates = 1
SYMMETRY Symmetry
INVARIANTS StaleBound NothingLeft
CHECK_DEADLOCK FALSE
