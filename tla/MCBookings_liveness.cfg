\* Fair behaviours: two workers whose batch is smaller than the backlog, no symmetry.
CONSTANTS
    b1 = b1
    b2 = b2
    r1 = r1
    r2 = r2
    s1 = s1
    Null = Null
    Bookings = {b1, b2}
    Requests = {r1}
    Workers = {w1, w2}
    Slots = {s1}
    Capacity <- TwoSeats
    Keys = {}
    MaxQty = 1
    Ttl = 1
    BatchSize = 1
    MaxTime = 2
SPECIFICATION FairSpec
PROPERTIES StaleBookingsSettle
CHECK_DEADLOCK FALSE
