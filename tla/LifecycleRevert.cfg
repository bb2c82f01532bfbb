CONSTANTS
    Callers = {c1}
    NoCaller = NoCaller
    Settings <- MixedSettings
    UserDns <- UserOnly
    MaxFaults = 1
    MaxRestarts = 0
SPECIFICATION Spec
PROPERTIES
    FailedSetReverts
