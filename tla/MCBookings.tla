---------------------------- MODULE MCBookings ----------------------------
(* Instances of Bookings for TLC: two bookings, one slot.                  *)
EXTENDS Bookings, TLC

CONSTANTS b1, b2, r1, r2, s1

OneSeat == s1 :> 1
TwoSeats == s1 :> 2

Symmetry == Permutations({b1, b2}) \cup Permutations({r1, r2})

\* Bound: check-ins, and requests with an idempotency key, for one traveller,
\* come before time passes.
EarlyRequests ==
    /\ \A c \in Requests : /\ tx[c].key # Null => tx[c].qty = 1 /\ now = 0
                           /\ tx[c].op = "checkin" => now = 0
    /\ (\E b \in Bookings : booking[b].key # Null) => now = 0
=============================================================================
