SPECIFICATION Spec
CONSTANTS
    Clients = {c1, c2}
    ReqIds = {addif, keyadd}
    NoCfm = nocfm
    MaxCalls = 3
    MaxExt = 1
    QueueLen = 1
SYMMETRY Symmetry
INVARIANTS IInv LinkedNodesLive NoUseAfterFree OwnConfirmation ConfirmedOnce NoLostWakeup
PROPERTIES NoWriteAfterReturn
CHECK_DEADLOCK FALSE
