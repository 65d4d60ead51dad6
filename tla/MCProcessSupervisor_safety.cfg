SPECIFICATION Spec
CONSTANTS
    None = None
    t1 = t1
    t2 = t2
    Tasks = {t1, t2}
    Defined = {t1, t2}
    MaxPid = 2
    Controls = {0, 1}
    Monitors = {0}
    JudgeSingle = TRUE
    Matching <- MCDistinct
    JudgeMayFail = FALSE
    RegisterMayFail = FALSE
    UpdateFile = FALSE
SYMMETRY Symmetry
INVARIANTS
    TypeOK
    MapAgrees
PROPERTIES
    NeverLaunchStopped
