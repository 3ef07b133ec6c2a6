SPECIFICATION Spec
CONSTANTS
    r1 = r1
    r2 = r2
    Request = {r1, r2}
    First = First
    w = w
    Worker = {w}
    Cooldown = 1
    Lifetime = 2
    MaxTime = 2
    NULL = NULL
INVARIANTS
    SameAnswerForAll
CHECK_DEADLOCK FALSE
