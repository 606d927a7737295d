\* Two bookings of one or two travellers compete for two seats of one slot.
CONSTANTS
    b1 = b1
    b2 = b2
    r1 = r1
    r2 = r2
    s1 = s1
    Null = Null
    Bookings = {b1, b2}
    Requests = {r1, r2}
    Workers = {w1}
    Slots = {s1}
    Capacity <- TwoSeats
    Keys = {k1}
    MaxQty = 2
    Ttl = 1
    BatchSize = 1
    MaxTime = 2
CONSTRAINT EarlyRequests
SYMMETRY Symmetry
SPECIFICATION Spec
INVARIANTS TypeOK CapacityRespected LockFollowsBooking
PROPERTIES ImplementsLife ImplementsLedger
\* the clock and the ids are bounded: the model runs out of things to do
CHECK_DEADLOCK FALSE
