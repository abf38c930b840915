SPECIFICATION Spec
CONSTANTS
  r1 = r1
  r2 = r2
  Requests <- MCRequests
  Subs <- OneSub
  Profiles <- SharedProfiles
  Targets = {4}
  Actuals = {0,4}
  InitQuota = 4
  InitRemain = 7
  AmountTotal <- TotalOf3
  Expiring = {}
  DiscountPct = 50
  TrustQuota = 3
  ViolationFee = 1
  MaxAttempts = 2
  MaxFaults = 1
  MaxPeriods = 0
SYMMETRY Symmetry
INVARIANT BilledExactly
INVARIANT HeldWhileUpstream
INVARIANT WithinTotal
CONSTRAINT OneOverwrite
