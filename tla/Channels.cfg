CONSTANTS
    Clients = {k1, k2}
    SendCap = 1
    MaxMessages = 2
    Loggers = {l1, l2}
    Viewers = {v1}
    BufferCap = 1
    MaxEvents = 3
    q1 = q1
    q2 = q2
    Proxies <- TwoProxies
    Users = {u1}
    NoPick = NoPick
    MaxDelay = 1
    Askers = {a1, a2}
    Servers = {n1, n2}
    Schemes = {"udp", "tls", "system", "https", "fake-ip"}
    Answers <- OneAnswer
    MaxTime = 1
    Peers = {x1}
    NoPeer = NoPeer
    Sizes = {3}
    BufSize = 2
    PacketRoom = 4
    MaxSent = 2
SPECIFICATION Spec
CHECK_DEADLOCK FALSE
INVARIANTS
    MissesNothing
    ViewersMissNothing
PROPERTIES
    PumpsEnd
    LogCallsReturn
    DeadAreRetested
    CallersReturn
    GatheredIsWritten
