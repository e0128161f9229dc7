SPECIFICATION Spec
CONSTANTS
  p = p
  q = q
  Peers = {p, q}
  Owners = {2, 3}
  MaxFaults = 0
  MaxCrashes = 1
  MaxMoves = 0
INVARIANTS StartupServes
CHECK_DEADLOCK FALSE
