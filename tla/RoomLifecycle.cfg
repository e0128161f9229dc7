SPECIFICATION FairSpec
CONSTANTS
  p = p
  q = q
  Peers = {p, q}
  Owners = {2, 3}
  MaxFaults = 1
  MaxCrashes = 1
  MaxMoves = 1
INVARIANTS TypeOK CloseIsAccounted
PROPERTIES OwnershipIsExact ClosingIsForward NoDeadEnd
CHECK_DEADLOCK FALSE
