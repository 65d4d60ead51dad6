SPECIFICATION Spec
CONSTANTS
    None = None
    t1 = t1
    t2 = t2
    Tasks = {t1}
    Defined = {t1}
    MaxPid = 2
    Controls = {1}
    Monitors = {0}
    JudgeSingle = TRUE
    Matching <- MCDistinct
    JudgeMayFail = FALSE
    RegisterMayFail = FALSE
    UpdateFile = FALSE
PROPERTIES
    AliveChildLeftAlone
