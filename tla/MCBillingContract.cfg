SPECIFICATION FairSpec
CONSTANTS
  r1 = r1
  r2 = r2
  Requests <- MCRequests
  Subs <- TwoSubs
  Profiles <- ContractProfiles
  Targets = {3}
  Actuals = {0,4}
  InitQuota = 4
  InitRemain = 9
  AmountTotal <- TotalsOf3And4
  Expiring = {1}
  DiscountPct = 100
  TrustQuota = 4
  ViolationFee = 0
  MaxAttempts = 1
  MaxFaults = 1
  MaxPeriods = 0
PROPERTY ImplementsContract
PROPERTY EventuallyOver
