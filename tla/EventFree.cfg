SPECIFICATION Spec
CONSTANTS
    Scenario <- Prices
    Day = 4
    Local <- LocalTimes
    MaxInstant = 4
    LongLimit = 3
    NULL = NULL
INVARIANTS
    FreeHasOneDefinition
CHECK_DEADLOCK FALSE
