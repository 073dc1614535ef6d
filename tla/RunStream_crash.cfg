SPECIFICATION Spec
CONSTANTS
  w1 = w1
  r1 = r1
  Watchers = {w1}
  Readers = {r1}
  NodeStates = {"running"}
  MaxChunks = 2
  ChanCap = 1
  MaxAtRest = 1
  MaxCrashes = 1
  DBMayFail = TRUE
INVARIANTS
  OutcomeReadHasLog
  NodeViewCurrent
PROPERTIES
  RowIsRecord
CHECK_DEADLOCK FALSE
