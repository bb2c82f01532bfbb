CONSTANTS
    t1 = t1
    t2 = t2
    u1 = u1
    u2 = u2
    d1 = d1
    Tcp <- TwoTcp
    Udp <- OneUdp
    DnsQueries <- None
    Capacity = 2
    QueueCap = 1
SPECIFICATION SafeSpec
SYMMETRY TcpSymmetry
CHECK_DEADLOCK FALSE
INVARIANTS
    RelayedIsTracked
    TrackedIsLive
PROPERTIES
    SweepCloses
