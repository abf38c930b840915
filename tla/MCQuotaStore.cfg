SPECIFICATION FairSpec
CONSTANTS
  Callers = {1, 2}
  Jobs = {1, 2}
  Deltas <- PlusMinusOne
  Uses = {1}
  InitialQuota = 1
  MaxCalls = 2
  MaxTroubles = 1
CHECK_DEADLOCK FALSE
INVARIANT Conserved
INVARIANT NothingShownTwice
INVARIANT PartialOnlyAfterExpiry
PROPERTY Converges
