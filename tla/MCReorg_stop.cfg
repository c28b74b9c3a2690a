SPECIFICATION Spec
CONSTANTS
  Confirmations <- FourConfirmations
  ReorgDepth = 4
  ServesStale = FALSE
  QuietStop = FALSE
  MaxBlock = 7
  MaxForks = 2
  MaxCrashes = 0
INVARIANTS NoHole
CHECK_DEADLOCK FALSE
