SPECIFICATION Spec
CONSTANTS
    Socks = {"mgmt", "data"}
    CFG_NEW_SUPP = FALSE
    WpahLen = 2
    Frames = 2
    Opens = 2
    MallocFails = 0
INVARIANT PayloadAssert
CHECK_DEADLOCK FALSE
