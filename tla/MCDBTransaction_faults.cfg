SPECIFICATION FairSpec
CONSTANTS
    None = None
    Pending = Pending
    k1 = k1
    k2 = k2
    v1 = v1
    v2 = v2
    Threads = {t1, t2}
    Keys = {k1}
    Vals = {v1}
    Calls <- MCWholeCalls
    MaxDepth = 2
    MayThrow = TRUE
    CommitMayFail = TRUE
INVARIANTS
    Exclusive
PROPERTIES
    CallReturns
