SPECIFICATION QueueSpec
CONSTANTS
    Job = {1, 2}
    Report = {2}
    w1 = w1
    Worker = {w1}
    RetryDelays <- OneDelay
    LeaseDuration = 2
    PollInterval = 1
    Downtime = 1
    Horizon = 12
    MaxFaults = 1
    NULL = NULL
INVARIANTS
    AttemptsWithinBudget
    SettledInTime
PROPERTIES
    EventuallySettled
CHECK_DEADLOCK FALSE
