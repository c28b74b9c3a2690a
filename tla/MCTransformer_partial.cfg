SPECIFICATION Spec
CONSTANTS
  Users = {u, v}
  u = u
  v = v
  Zero = Zero
  Null = Null
  Allowed = {"part"}
  Faults = {}
  BatchSize = 2
  Amounts <- SmallAmounts
  MaxEvents = 2
  MaxFaults = 0
INVARIANTS HistoryIsLedger
CHECK_DEADLOCK FALSE
