SPECIFICATION FairSpec
CONSTANTS
    Threads = {t1, t2, t3}
    Conns = {c1, c2, c3, c4}
    MaxSize = 2
    MaxUsage = 2
    NoConn = NoConn
INVARIANTS TypeOK ExclusiveLending Accounting SocketsAccounted RecycledInTime
PROPERTIES AcquireReturns LeaseSpec
