\* A booking, two places for it, a coupon that discounts it or makes the buyer a
\* VIP, a partner's code, two calls.
CONSTANTS
    c1 = c1
    c2 = c2
    k1 = k1
    vip = vip
    partner = partner
    p1 = p1
    p2 = p2
    Null = Null
    Coupons = {k1}
    VipCoupons = {k1}
    Codes = {partner}
    Exclusive = {partner}
    Bookings = {b1}
    Calls = {c1, c2}
    Vip = vip
    Terms <- TermsOfOffers
    Limit <- LimitOfCodes
    Places = {p1, p2}
    Guests <- GuestsAt
    Fee <- FeeAt
    Net <- NetAt
    MaxNamed = 1
    MaxUses = 3
    MaxVips = 1
SYMMETRY Symmetry
SPECIFICATION Spec
CHECK_DEADLOCK FALSE
INVARIANTS
    TypeOK
    ResortGetsItsNet
    LimitUpToCalls
    UsedWasConfirmed
    UsedWasPriced
