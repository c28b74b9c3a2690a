SPECIFICATION Spec
CONSTANTS
  Confirmations <- FourConfirmations
  ReorgDepth = 5
  ServesStale = FALSE
  QuietStop = TRUE
  MaxBlock = 6
  MaxForks = 2
  MaxCrashes = 0
INVARIANTS ValidatedIsCanonical
CHECK_DEADLOCK FALSE
