SPECIFICATION FairSpec
CONSTANTS
    m1 = m1
    m2 = m2
    m3 = m3
    Macs <- TwoMacs
    OldIps <- AnyOld
    MAC_IP_CACHE_SIZE = 2
    HostBits = 3
    MyIp = 5
    SockLen = 2
    MaxFaults = 1
INVARIANTS UniqueLease LeaseRecorded
PROPERTIES OfferHonoured AllServed
CHECK_DEADLOCK FALSE
