SPECIFICATION Spec
CONSTANTS
  Keys = {d}
  d = d
  StartBlock = 1
  Confirmations <- FourConfirmations
  Indices = {0}
  Faults = {}
  QuietStart = FALSE
  MaxBlock = 6
  MaxLogs = 2
  MaxRuns = 2
INVARIANTS NoGap
CHECK_DEADLOCK FALSE
