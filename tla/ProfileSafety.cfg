SPECIFICATION Spec
CONSTANTS
    r1 = r1
    r2 = r2
    r3 = r3
    Request = {r1, r2, r3}
    e1 = e1
    e2 = e2
    e3 = e3
    Event = {e1, e2, e3}
    Known = {e1, e2}
    First = First
    NULL = NULL
SYMMETRY Symmetry
INVARIANTS
    Consistent
    EveryViewCounted
PROPERTIES
    FavoritesDoNotOverwrite
    ChannelsIndependent
    AnsweredAsAsked
CHECK_DEADLOCK FALSE
