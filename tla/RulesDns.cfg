CONSTANTS
    d1 = d1
    a1 = a1
    p1 = p1
    None = None
    Handlers = {hA}
    Queries = {q1, q2}
    Flows = {f1}
    Domains <- OneDomain
    Addrs <- OneAddr
    Procs <- OneProc
    BuiltIn <- Files
    Selectable <- AnyFile
    Custom <- NoCustom
    Modes = {"tun"}
SPECIFICATION Spec
CHECK_DEADLOCK FALSE
INVARIANTS
    CacheAgreesWithRules
    AddressCacheIsOwn
PROPERTIES
    DnsMapIsUpdated
