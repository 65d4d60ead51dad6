SPECIFICATION FairSpec
CONSTANTS
    None = None
    t1 = t1
    t2 = t2
    Tasks = {t1, t2}
    Defined = {t1, t2}
    MaxPid = 2
    Controls = {1}
    Monitors = {0}
    JudgeSingle = TRUE
    Matching <- MCPrefix
    JudgeMayFail = FALSE
    RegisterMayFail = FALSE
    UpdateFile = FALSE
PROPERTIES
    DeadChildRelaunched
    MapFollowsTable
