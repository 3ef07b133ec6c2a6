SPECIFICATION Spec
CONSTANTS
    Job = {1, 2}
    Report = {2}
    w1 = w1
    w2 = w2
    Worker = {w1, w2}
    RetryDelays <- OneDelay
    LeaseDuration = 2
    Horizon = 3
    MaxFaults = 1
    NULL = NULL
SYMMETRY Workers
INVARIANTS
    OneLiveSender
    NeverSendsErasedContent
    DeadLettersJustified
    NeverSilentlyDropped
PROPERTIES
    KeepsPromise
    LeaseProtectsRow
    DeadLettersFinal
CHECK_DEADLOCK FALSE
