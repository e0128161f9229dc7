SPECIFICATION LiveSpec
CONSTANTS
  MaxLaunch = 3
  MaxKills = 2
  MaxFails = 1
INVARIANTS TypeOK ServesAlone OwnersAreAccounted
PROPERTIES StopConcludes
CHECK_DEADLOCK FALSE
