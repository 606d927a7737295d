\* A PayPal and a Wompi payment of one booking, two calls at a time.
CONSTANTS
    c1 = c1
    c2 = c2
    Null = Null
    Bookings = {b1}
    MaxPayments = 2
    Wompi = {2}
    Orders = {o1}
    Refunds = {r1}
    Calls = {c1, c2}
    Keys = {k1}
    Price = 1
    Agents = {b1}
SYMMETRY Symmetry
SPECIFICATION Spec
INVARIANTS
    TypeOK
    PaidWasCollected
    PaidBookingLeftPending
    EventAppliedOnce
    RefundRowsAreBacked
    ClosedAfterRefund
