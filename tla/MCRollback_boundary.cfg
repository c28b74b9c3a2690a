SPECIFICATION RollbackSpec
CONSTANTS
  Users = {u, v}
  u = u
  v = v
  Zero = Zero
  Null = Null
  Allowed = {"zero"}
  Faults = {}
  BatchSize = 2
  Amounts = {1}
  MaxEvents = 3
  MaxFaults = 0
  QuietBoundary = FALSE
  MaxRollbacks = 1
INVARIANTS HistoryIsRestored
CHECK_DEADLOCK FALSE
