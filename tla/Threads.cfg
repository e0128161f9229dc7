SPECIFICATION Spec
CONSTANTS
  Cids = {a, b, c}
  Keys = {k}
  Anonymous = TRUE
  MaxItems = 3
  MaxSetbacks = 1
SYMMETRY Symmetry
INVARIANTS TypeOK ThreadsStayPrivate RepliesKeepTheirParent
PROPERTIES HistoryIsStable
CHECK_DEADLOCK FALSE
