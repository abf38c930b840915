SPECIFICATION Spec
CONSTANTS
  r1 = r1
  r2 = r2
  Requests <- MCRequests
  Subs <- OneSub
  Profiles <- SubscriptionProfiles
  Targets = {3}
  Actuals = {1,4}
  InitQuota = 5
  InitRemain = 5
  AmountTotal <- TotalOf6
  Expiring = {}
  DiscountPct = 100
  TrustQuota = 4
  ViolationFee = 1
  MaxAttempts = 1
  MaxFaults = 1
  MaxPeriods = 1
SYMMETRY Symmetry
INVARIANT NeverCredited
INVARIANT NoClampLoss
INVARIANT IndInv
CONSTRAINT OneOverwrite
