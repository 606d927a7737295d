\* Two people, one reset code, two refresh tokens, two calls at a time.
CONSTANTS
    u1 = u1
    u2 = u2
    e1 = e1
    e2 = e2
    j1 = j1
    j2 = j2
    c1 = c1
    c2 = c2
    k1 = k1
    Null = Null
    Users = {u1, u2}
    Emails = {e1, e2}
    Jtis = {j1, j2}
    Codes = {k1}
    Calls = {c1, c2}
SYMMETRY Symmetry
SPECIFICATION Spec
CHECK_DEADLOCK FALSE
INVARIANTS
    TypeOK
    OneAccountPerPerson
    RotatedHasSuccessor
    ResetEndsSessions
    NoSessionAfterDeactivation
