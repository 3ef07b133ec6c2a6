SPECIFICATION FairSpec
CONSTANTS
    r1 = r1
    r2 = r2
    r3 = r3
    Request = {r1, r2, r3}
    old = old
    new = new
    Password = {old, new}
    First = First
    NULL = NULL
INVARIANTS
    Consistent
    SingleUseReset
    SingleRotation
PROPERTIES
    KeepsSessionPromise
    RevokesEverySessionFound
    EveryRequestAnswered
CHECK_DEADLOCK FALSE
