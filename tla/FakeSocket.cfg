SPECIFICATION Spec
CONSTANTS
    Socks = {"mgmt", "data"}
    CFG_NEW_SUPP = TRUE
    WpahLen = 2
    Frames = 3
    Opens = 2
    MallocFails = 1
INVARIANTS PayloadAssert TokensCover FramesInOrder
PROPERTIES FramesFetched
CHECK_DEADLOCK FALSE
