SPECIFICATION Spec
CONSTANTS
    m1 = m1
    m2 = m2
    m3 = m3
    Macs <- ThreeMacs
    OldIps <- AnyOld
    MAC_IP_CACHE_SIZE = 1
    HostBits = 3
    MyIp = 5
    SockLen = 2
    MaxFaults = 0
CHECK_DEADLOCK FALSE
INVARIANT UniqueLease
