SPECIFICATION Spec
CONSTANTS
  Peers = {p, q}
  Roles = {"reviewer"}
  Texts = {"text"}
  Offers <- MCOffers
  Planned <- MCPlanned
  MaxInvites = 2
  MaxSeats = 2
  MaxClock = 1
  Budgets <- MCBudgets
CHECK_DEADLOCK FALSE
INVARIANTS TypeOK NoSaveIsRefused 
PROPERTIES RemovedStaysOut ChangesAreRecorded ChangesAreSettled
