SPECIFICATION Spec
CONSTANTS
    NULL = NULL
    Conns = {c1}
    Workers = {w1, w2}
    Sends = {"known", "unknown", "garbage", "zero"}
    MaxReq = 3
    SendCap = 1
    NotifyCap = 1
SYMMETRY Symmetry
INVARIANTS
    TypeOK
    NoLostNotification
    IoNeverWaits
    NoSleepWhileQueued
    OneOwner
    NoLostRequest
    TakenInOrder
PROPERTIES
    ImplementsService
CHECK_DEADLOCK FALSE
