SPECIFICATION LiveSpec
CONSTANTS
  s1 = s1
  s2 = s2
  s3 = s3
  Procs = {s1, s2, s3}
  Ghost = Ghost
  NoFile = NoFile
  MaxGen = 3
  MaxTries = 3
  Uncertain = {s1, s2, s3}
  Residues <- AllResidues
INVARIANTS TypeOK OneSupervisor
PROPERTIES HistoryIsReliable SomebodyGetsIn
CHECK_DEADLOCK FALSE
