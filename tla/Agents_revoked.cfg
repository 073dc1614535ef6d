SPECIFICATION AgentsSpec
CONSTANTS
  Paired = {a1, a2}
  Deploys = {d1}
  MaxStamp = 1
  MaxReports = 1
INVARIANTS
  RevokedFallsBack
CHECK_DEADLOCK FALSE
