SPECIFICATION LiveSpec
CONSTANTS
  ann = ann
  bob = bob
  eve = eve
  NoCid = NoCid
  Cids = {ann, bob, eve}
  Items = {1}
  Posts = {9}
  Kind <- OneMessage
  Sender <- JustAnn
  Reply <- JustPlain
  FirstSeats <- AnnAndBob
  FirstState = "active"
  SnapshotBatch = 2
  IntentBatch = 1
  Movers = {}
  MayClose = FALSE
  MaxSeats = 2
  MaxCrashes = 1
  MaxErrors = 1
PROPERTIES NothingStalls
CHECK_DEADLOCK FALSE
