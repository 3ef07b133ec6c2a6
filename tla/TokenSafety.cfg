SPECIFICATION Spec
CONSTANTS
    r1 = r1
    r2 = r2
    r3 = r3
    Request = {r1, r2, r3}
    First = First
    w = w
    Worker = {w}
    Cooldown = 1
    Lifetime = 2
    MaxTime = 2
    NULL = NULL
SYMMETRY Symmetry
INVARIANTS
    Consistent
    LinkAndEmailTogether
PROPERTIES
    OnlyTheCurrentLinkWorks
    LinkKeptForItsCooldown
CHECK_DEADLOCK FALSE
