SPECIFICATION FairRollbackSpec
CONSTANTS
  Users = {u, v}
  u = u
  v = v
  Zero = Zero
  Null = Null
  Allowed = {"zero", "second rate"}
  Faults = {}
  BatchSize = 2
  Amounts = {1}
  MaxEvents = 3
  MaxFaults = 0
  QuietBoundary = TRUE
  MaxRollbacks = 2
INVARIANTS ProcessedInOrder TablesAreReplay HistoryIsRestored
PROPERTIES PoisonStops
CHECK_DEADLOCK FALSE
