\* A resort with its agent, and an experience; two requests at a time.
CONSTANTS
    c1 = c1
    c2 = c2
    p1 = p1
    p2 = p2
    d1 = d1
    d2 = d2
    f1 = f1
    f2 = f2
    Null = Null
    None = None
    Gone = Gone
    Resorts = {r1}
    Agents = {a1}
    Experiences = {e1}
    Profiles = {p1, p2}
    Docs = {d1, d2}
    Files = {f1, f2}
    Calls = {c1, c2}
    MaxLost = 1
SYMMETRY Symmetry
SPECIFICATION Spec
CHECK_DEADLOCK FALSE
INVARIANTS
    TypeOK
    DocumentsReachable
    RowsHaveFiles
    ApprovedAsRead
