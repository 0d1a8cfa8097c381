SPECIFICATION Spec
CONSTANTS
    NumAdapters = 2
    c1 = c1
    c2 = c2
    Client = {c1, c2}
    Settings <- MCSettings
    FailureThreshold = 1
    MinOperations = 2
    MaxAttempts = 2
    MaxCalls = 3
    MaxFaults = 2
INVARIANTS
    TypeOK
    AckedOnQuorum
    ReadsAreCurrent
PROPERTIES
    CallsEndAdaptersReturn
CHECK_DEADLOCK FALSE
