SPECIFICATION Spec
CONSTANTS
  stdout = stdout
  stderr = stderr
  Streams = {stdout, stderr}
  MaxLines = 2
  PipeCap = 2
  LongLines = FALSE
INVARIANTS
  OutputIsStreamed
CHECK_DEADLOCK FALSE
