SPECIFICATION Spec
CONSTANTS
    r1 = r1
    r2 = r2
    Request = {r1, r2}
    old = old
    new = new
    Password = {old, new}
    First = First
    NULL = NULL
PROPERTIES
    DeletesWithCurrentPassword
CHECK_DEADLOCK FALSE
