SPECIFICATION Spec
CONSTANTS
  ann = ann
  bob = bob
  eve = eve
  NoCid = NoCid
  Cids = {ann, bob, eve}
  Items = {1, 2, 3}
  Posts = {}
  Kind <- MessageCommandFile
  Sender <- BobAnnAnn
  Reply <- PlainPlainLinked
  FirstSeats <- AnnAndBob
  FirstState = "provisioning"
  SnapshotBatch = 2
  IntentBatch = 2
  Movers = {bob}
  MayClose = TRUE
  MaxSeats = 3
  MaxCrashes = 1
  MaxErrors = 1
PROPERTIES OnlyWhatIsDueLeaves PausedConsumesNothing
CHECK_DEADLOCK FALSE
