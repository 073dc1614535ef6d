SPECIFICATION FairSpec
CONSTANTS
  w1 = w1
  w2 = w2
  Watchers = {w1, w2}
  Readers = {}
  NodeStates = {}
  MaxChunks = 2
  ChanCap = 1
  MaxAtRest = 1
  MaxCrashes = 0
  DBMayFail = FALSE
INVARIANTS
  StreamUnbroken
  ToldOutcomeIsCommitted
PROPERTIES
  StatusMovesForward
  RunEnds
  WatcherLearnsOutcome
  LoggerDrains
CHECK_DEADLOCK FALSE
