SPECIFICATION FairSpec
CONSTANTS
  r1 = r1
  r2 = r2
  Rooms = {r1, r2}
  NoRoom = NoRoom
  Residues <- AllResidues
  MaxErrors = 2
  MaxNews = 1
  Terminal = TRUE
PROPERTIES WorkCompletes
INVARIANTS TypeOK UnreadHasAnOwner FanoutHealthIsHonest CleanupIsOrderly
CHECK_DEADLOCK FALSE
