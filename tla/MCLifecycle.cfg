SPECIFICATION FairSpec
CONSTANTS
  Keys = {k1, k2}
  k1 = k1
  k2 = k2
  Capacity = 1
  Faults <- Everything
INVARIANTS TypeOK ProcessorAfterBackfill NeverStranded CleanupUndisturbed
PROPERTIES EndsWhenAsked
CHECK_DEADLOCK FALSE
