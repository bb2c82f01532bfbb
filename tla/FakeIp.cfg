CONSTANTS
    h1 = h1
    h2 = h2
    h3 = h3
    h4 = h4
    Hosts <- FourHosts
    NoHost = NoHost
    Shapes <- TwoShapes
SPECIFICATION Spec
INVARIANTS
    BothDirections
    EntriesPaired
    RecentHostsKept
PROPERTIES
    KeptAddressIsStable
    ImplementsMap
