\* The documented guarantee against overselling, over one seat.
CONSTANTS
    b1 = b1
    b2 = b2
    r1 = r1
    r2 = r2
    s1 = s1
    Null = Null
    Bookings = {b1, b2}
    Requests = {r1, r2}
    Workers = {w1}
    Slots = {s1}
    Capacity <- OneSeat
    Keys = {}
    MaxQty = 1
    Ttl = 1
    BatchSize = 1
    MaxTime = 2
SPECIFICATION Spec
INVARIANTS NoOversell
CHECK_DEADLOCK FALSE
