SPECIFICATION FairSpec
CONSTANTS
  Keys = {d, w}
  d = d
  w = w
  StartBlock = 1
  Confirmations = 1
  Indices = {0}
  Faults <- AllFaults
  QuietStart = FALSE
  MaxBlock = 2
  MaxLogs = 3
  MaxRuns = 2
INVARIANTS TypeOK RowsAreDeep
PROPERTIES ErrorsStopTheProcess
CHECK_DEADLOCK FALSE
