SPECIFICATION Spec
CONSTANTS
  Requests = {r1, r2, r3}
  Passwords = {old, new}
  Roles = {low, high}
  None = None
  Skew = 1
  FreeAttempts = 1
  BaseDelay = 1
  MaxDelay = 2
  ResetAfter = 2
  MaxTime = 2
  MaxTries = 1
  MaxFaults = 1
SYMMETRY Symmetry
INVARIANTS TypeOK CodeOnce SessionsCurrent TokensCurrent
PROPERTIES EndedForGood
CHECK_DEADLOCK FALSE
