SPECIFICATION FairSpec
CONSTANTS
  Users = {u, v}
  u = u
  v = v
  Zero = Zero
  Null = Null
  Allowed = {"zero", "second rate"}
  Faults <- AllFaults
  BatchSize = 2
  Amounts <- SmallAmounts
  MaxEvents = 3
  MaxFaults = 2
INVARIANTS TypeOK HistoryIsLedger WithdrawalsRecorded
PROPERTIES PositionsImmutable PoisonStays KeepsPromise CatchesUp
CHECK_DEADLOCK FALSE
