CONSTANTS
    d1 = d1
    a1 = a1
    p1 = p1
    None = None
    Handlers = {hA, hB}
    Queries = {}
    Flows = {f1, f2}
    Domains <- OneDomain
    Addrs <- OneAddr
    Procs <- OneProc
    BuiltIn <- Files
    Selectable <- OneFile
    Custom <- TwoCustom
    Modes = {"tun", "system"}
SPECIFICATION SafeSpec
SYMMETRY HandlerSymmetry
CHECK_DEADLOCK FALSE
INVARIANTS
    NewFlowsUseNewRules
    OnlyUnjoinedFlowsSurvive
