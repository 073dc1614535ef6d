SPECIFICATION Spec
CONSTANTS
  w1 = w1
  Watchers = {w1}
  Readers = {}
  NodeStates = {}
  MaxChunks = 2
  ChanCap = 2
  MaxAtRest = 1
  MaxCrashes = 0
  DBMayFail = FALSE
INVARIANTS
  AtRestKeepsTail
CHECK_DEADLOCK FALSE
