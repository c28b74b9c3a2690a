SPECIFICATION FairSpec
CONSTANTS
  Confirmations = 2
  ReorgDepth = 2
  ServesStale = FALSE
  QuietStop = TRUE
  MaxBlock = 5
  MaxForks = 2
  MaxCrashes = 1
INVARIANTS TypeOK ValidatedIsCanonical NoHole
PROPERTIES ConfirmedStays CleanupHasCause ReportEndsProcess FollowsChain
CHECK_DEADLOCK FALSE
