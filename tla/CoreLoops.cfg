SPECIFICATION Spec
CONSTANTS
    p1 = p1
    p2 = p2
    Process = {p1, p2}
    NumEvents = 2
    BatchSize = 2
    MaxAttempts = 2
    MaxPending = 2
    MaxRefusals = 1
    NumJobs = 2
    Flush = {f1}
    Worker = worker
    MaxFaults = 1
    Deployments <- MCDeployments
    MaxDowns = 1
INVARIANTS
    TypeOK
    StopLeavesNoClaim
    JobsAreKept
PROPERTIES
    OutcomesStand
    QueuesSettle
CHECK_DEADLOCK FALSE
