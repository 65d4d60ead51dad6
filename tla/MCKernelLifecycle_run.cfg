SPECIFICATION FairSpec
CONSTANTS
    None = None
    h = h
    b = b
    c = c
    MaxKernels = 2
    Hla = {h}
    Bol = {b}
    Cloudagent = c
    MissingReturn = {FALSE}
    MaxUnits = 2
    MaxFaults = 1
INVARIANTS
    TypeOK
    LockKept
    OneAtWork
    BolWaitedFor
PROPERTIES
    ShutdownEnds
CHECK_DEADLOCK FALSE
