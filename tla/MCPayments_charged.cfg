\* One Wompi payment, one call at a time.
CONSTANTS
    c1 = c1
    c2 = c2
    Null = Null
    Bookings = {b1}
    MaxPayments = 1
    Wompi = {1}
    Orders = {o1}
    Refunds = {}
    Calls = {c1}
    Keys = {}
    Price = 1
    Agents = {}
SPECIFICATION Spec
PROPERTY NotChargedAfterCancel
