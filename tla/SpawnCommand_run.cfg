SPECIFICATION FairSpec
CONSTANTS
  stdout = stdout
  stderr = stderr
  Streams = {stdout, stderr}
  MaxLines = 2
  PipeCap = 1
  LongLines = TRUE
INVARIANTS
  VerdictIsExit
  LossIsReported
PROPERTIES
  CommandEnds
CHECK_DEADLOCK FALSE
