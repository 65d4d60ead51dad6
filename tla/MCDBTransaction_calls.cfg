SPECIFICATION Spec
CONSTANTS
    None = None
    Pending = Pending
    k1 = k1
    k2 = k2
    v1 = v1
    v2 = v2
    Threads = {t1, t2}
    Keys = {k1, k2}
    Vals = {v1, v2}
    Calls <- MCCalls
    MaxDepth = 1
    MayThrow = FALSE
    CommitMayFail = FALSE
SYMMETRY Symmetry
INVARIANTS
    TypeOK
    FreeWhenOutside
PROPERTIES
    CallsAreAtomic
