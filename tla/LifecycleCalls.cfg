CONSTANTS
    Callers = {c1, c2}
    NoCaller = NoCaller
    Settings <- TwoSettings
    UserDns <- UserOnly
    MaxFaults = 1
    MaxRestarts = 1
SPECIFICATION Spec
INVARIANTS
    StoppedRestoresDns
PROPERTIES
    ImplementsService
    CallsReturn
