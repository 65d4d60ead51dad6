SPECIFICATION FairSpec
CONSTANTS
    None = None
    d1 = d1
    m1 = m1
    Names = {d1, m1}
    RowsOf <- MCRows
    MayFail <- MCFailures
    ResetMayFail = {"data"}
    MaxCron = 2
    MaxSize = 4
    MaxUsed = 3
    MaxRestart = 1
CHECK_DEADLOCK FALSE
INVARIANTS
    TypeOK
    
    LargeEnough
PROPERTIES
    DataKept
    SegmentsFollow
