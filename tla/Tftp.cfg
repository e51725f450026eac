SPECIFICATION Spec
CONSTANTS
    N = 3
    Sector = 2
    FlashLen = 4
    TIMEOUT_COUNT = 1
    Ports = {p1, p2}
    NetLen = 2
    Sessions = 2
INVARIANTS HeaderWhole ReceivedWhole
PROPERTIES Succeeds
CHECK_DEADLOCK FALSE
