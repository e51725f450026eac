SPECIFICATION FairSpec
CONSTANTS
    Clients = {c1, c2}
    ReqIds = {addif}
    NoCfm = nocfm
    MaxCalls = 3
    MaxExt = 1
    QueueLen = 1
INVARIANTS IInv LinkedNodesLive NoUseAfterFree OwnConfirmation ConfirmedOnce NoLostWakeup
PROPERTIES NoWriteAfterReturn CallReturns
CHECK_DEADLOCK FALSE
