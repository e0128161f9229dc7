SPECIFICATION Spec
CONSTANTS
  ann = ann
  bob = bob
  eve = eve
  NoCid = NoCid
  Cids = {ann, bob, eve}
  Items = {1, 2}
  Posts = {}
  Kind <- TwoMessages
  Sender <- AnnBob
  Reply <- PlainPlain
  FirstSeats <- AllThree
  FirstState = "active"
  SnapshotBatch = 2
  IntentBatch = 1
  Movers = {}
  MayClose = FALSE
  MaxSeats = 3
  MaxCrashes = 1
  MaxErrors = 1
INVARIANTS TypeOK ArchiveIsExact 
PROPERTIES ImplementsDelivery
CHECK_DEADLOCK FALSE
