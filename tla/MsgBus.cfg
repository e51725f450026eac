SPECIFICATION FairSpec
CONSTANTS
    Pbufs = {p1}
    QueueLen = 2
    MaxLost = 1
INVARIANTS RxAccounting PbufReferences LastPsCommandWins NoStrandedEvent
PROPERTIES PbufFreed
