SPECIFICATION FairSpec
CONSTANTS
  r1 = r1
  r2 = r2
  r3 = r3
  r4 = r4
  n1 = n1
  n2 = n2
  u1 = u1
  k1 = k1
  user = user
  token0 = token0
  Requests <- FourRequests
  Nodes = {n1, n2}
  Keys = {k1}
  Counters = {user, token0}
  RedisOnly = {token0}
  Channels = {1, 2}
  Users = {u1}
  NoKey = NoKey
  None = None
  Serving <- MCServing
  UserOf <- MCUserOf
  KeyOf <- MCKeyOf
  Claims <- MCClaims
  Limit <- MCLimit
  KeyLimit = 1
  ChannelLimit <- MCChannelLimit
  UserChannelLimit <- MCUserChannelLimit
  Attempts <- MCAttempts
  MaxTroubles = 1
CONSTRAINT InOrder
CHECK_DEADLOCK FALSE
INVARIANT KeyExclusive
INVARIANT AdmissionInv
INVARIANT RedisAccounts
INVARIANT ChannelExact
PROPERTY RequestsEnd
