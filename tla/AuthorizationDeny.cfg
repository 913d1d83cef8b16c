SPECIFICATION Spec
CONSTANTS
  Principals = {root, alice, bob}
  Admins = {root}
  Vaults = {v1, v2}
  Quotas = {1}
  Calls = {c1, c2}
  None = None
  Gone = Gone
  Anywhere = Anywhere
  MaxChanges = 1
SYMMETRY Symmetry
INVARIANTS DenyWins
CHECK_DEADLOCK FALSE
