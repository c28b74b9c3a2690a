SPECIFICATION FairSpec
CONSTANTS
  Keys = {d, w}
  d = d
  w = w
  StartBlock = 1
  Confirmations = 1
  Indices = {0,1}
  Faults = {"subscribe"}
  QuietStart = TRUE
  MaxBlock = 3
  MaxLogs = 3
  MaxRuns = 2
INVARIANTS NoGap InFlight
PROPERTIES CatchesUp
CHECK_DEADLOCK FALSE
