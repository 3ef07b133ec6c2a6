SPECIFICATION Spec
CONSTANTS
    r1 = r1
    r2 = r2
    r3 = r3
    Request = {r1, r2, r3}
    First = First
    en = en
    lt = lt
    Locale = {en, lt}
    AccessLife = 1
    RefreshLife = 2
    MaxVersion = 2
    MaxTime = 2
    NULL = NULL
SYMMETRY Symmetry
INVARIANTS
    Consistent
    ActsForItsOwnAccount
    AccessEndsWithTheSession
PROPERTIES
    KeepsSessionPromise
    SlidingWindow
    TermsInForceAreRecorded
CHECK_DEADLOCK FALSE
