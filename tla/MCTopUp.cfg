SPECIFICATION FairSpec
CONSTANTS
    Workers = {w1, w2}
    Nodes = {n1, n2}
    Orders = {o1}
    Mutexes = {m1, m2}
    NoMutex = NoMutex
    NoOrder = NoOrder
    NoTrade = NoTrade
    Trades = {t1, t2}
    Providers = {"stripe", "creem", "waffo", "pancake", "mpay", "epay", "xpay", "alipay"}
INVARIANT TopUpInv
INVARIANT OrderExclusion
INVARIANT CreditedOnce
INVARIANT PaidIffCredited
PROPERTY SuccessStays
PROPERTY TradeKept
PROPERTY HandlersReturn
