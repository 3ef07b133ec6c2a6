SPECIFICATION Spec
CONSTANTS
    c1 = c1
    c2 = c2
    Caller = {c1, c2}
    MAX_ATTEMPTS = 3
    BASE_RETRY_DELAY = 1
    MAX_RETRY_DELAY = 20
    Hint <- Hints
    PostTime = 120
    Lease = 480
    MaxSends = 2
    Absent = Absent
    Unreadable = Unreadable
    NULL = NULL
SYMMETRY Symmetry
INVARIANTS
    SentMeansAccepted
    OneMailPerKey
    OverlapIsNotFatal
    SendFitsLease
CHECK_DEADLOCK FALSE
