CONSTANTS
    Callers = {c1}
    NoCaller = NoCaller
    Settings <- AllSettings
    UserDns <- BothDns
    MaxFaults = 2
    MaxRestarts = 1
SPECIFICATION Spec
INVARIANTS
    TypeOK
    StartedMeansComplete
    StoppedHoldsNothing
    FailedStartNeverLeavesHijack
