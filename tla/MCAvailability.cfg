\* Days of two hours; two slots, one booking, two calls at a time.
CONSTANTS
    s1 = s1
    s2 = s2
    c1 = c1
    c2 = c2
    Null = Null
    Experiences = {x1}
    Slots = {s1, s2}
    Reservations = {b1}
    Calls = {c1, c2}
    Capacities = {1}
    Day = 2
    Week = 2
    MaxDays = 1
    Horizon = 3
    Ticks = 1
    BulkRequests <- Requests
SYMMETRY Symmetry
SPECIFICATION Spec
CHECK_DEADLOCK FALSE
INVARIANTS
    TypeOK
    OverlapsWereConcurrent
    LostWasRaced
    BulkAddsUp
