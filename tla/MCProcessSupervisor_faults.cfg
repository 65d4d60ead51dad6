SPECIFICATION Spec
CONSTANTS
    None = None
    t1 = t1
    t2 = t2
    Tasks = {t1, t2}
    Defined = {t1}
    MaxPid = 2
    Controls = {0, 1, 2}
    Monitors = {0}
    JudgeSingle = TRUE
    Matching <- MCDistinct
    JudgeMayFail = TRUE
    RegisterMayFail = TRUE
    UpdateFile = TRUE
INVARIANTS
    AtMostOneInstance
    UnknownNeverRegistered
