SPECIFICATION Spec
CONSTANTS
    Scenario <- Lists
    Day = 4
    Local <- LocalTimes
    MaxInstant = 4
    LongLimit = 3
    NULL = NULL
INVARIANTS
    StatusPartitions
    WindowIsOverlap
    PagesShowEachOnce
PROPERTIES
    PastForGood
    TotalAndRowsAgree
CHECK_DEADLOCK FALSE
