SPECIFICATION Spec
CONSTANTS
    Workers = {w1, w2}
    Nodes = {n1}
    Orders = {o1}
    Mutexes = {m1, m2}
    NoMutex = NoMutex
    NoOrder = NoOrder
    NoTrade = NoTrade
    Trades = {t1, t2}
    Providers = {"xpay"}
INVARIANT NoConcurrentCompletion
