SPECIFICATION FairSpec
CONSTANTS
    NULL = NULL
    Conns = {c1, c2}
    Workers = {w1, w2}
    Sends = {"known"}
    MaxReq = 1
    SendCap = 1
    NotifyCap = 1
PROPERTIES
    ImplementsService
    RequestAnswered
    StopCompletes
CHECK_DEADLOCK FALSE
