CONSTANTS
    Peers = {x1}
    NoPeer = NoPeer
    Sizes = {1}
    BufSize = 2
    PacketRoom = 4
    MaxSent = 1
SPECIFICATION DgramSpec
CHECK_DEADLOCK FALSE
INVARIANTS
    TimeoutIsIgnored
