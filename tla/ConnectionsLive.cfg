CONSTANTS
    t1 = t1
    t2 = t2
    u1 = u1
    u2 = u2
    d1 = d1
    Tcp <- OneTcp
    Udp <- OneUdp
    DnsQueries <- OneQuery
    Capacity = 1
    QueueCap = 1
SPECIFICATION Spec
CHECK_DEADLOCK FALSE
PROPERTIES
    ClosedUdpReturns
    
    AcceptedIsServed
