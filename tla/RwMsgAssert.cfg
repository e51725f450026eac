SPECIFICATION Spec
CONSTANTS
    Clients = {c1, c2}
    ReqIds = {addif, keyadd}
    NoCfm = nocfm
    MaxCalls = 3
    MaxExt = 1
    QueueLen = 1
INVARIANTS SetSemaphoreAssert
CHECK_DEADLOCK FALSE
