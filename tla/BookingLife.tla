---------------------------- MODULE BookingLife ----------------------------
(***************************************************************************)
(* What the rest of the system sees of a booking: its status and what it   *)
(* is for.  Module Bookings implements it; Payments, Coupons and           *)
(* Availability are written against it, each seeing as much of a booking   *)
(* as it uses.                                                             *)
(***************************************************************************)
CONSTANTS
    Bookings,   \* ids of the bookings
    Places,     \* what a booking can be for: a slot, and how many come
    Null        \* nothing

VARIABLES
    status,     \* of each booking, "absent" before there is one
    place       \* what each booking is for

life == <<status, place>>

Init ==
    /\ status = [b \in Bookings |-> "absent"]
    /\ place = [b \in Bookings |-> Null]

Exists(b) == status[b] # "absent"

\* A client asks for a booking, or an agent makes one.
Enter(b, p, s) ==
    /\ ~Exists(b)
    /\ status' = [status EXCEPT ![b] = s]
    /\ place' = [place EXCEPT ![b] = p]

\* While it is pending its owner may change what it is for.
Change(b, p) ==
    /\ status[b] = "pending"
    /\ place' = [place EXCEPT ![b] = p]
    /\ UNCHANGED status

Become(B, s) ==
    /\ \A b \in B : Exists(b)
    /\ status' = [b \in Bookings |-> IF b \in B THEN s ELSE status[b]]
    /\ UNCHANGED place

\* Its owner, or the reconciliation, decides a pending booking.
Decide(b, s) == status[b] = "pending" /\ Become({b}, s)

\* The sweep expires a batch, whatever its bookings have become meanwhile.
Expire(B) == Become(B, "expired")

\* Once its payment is settled the whole booking is cancelled.
Cancel(b) == Become({b}, "cancelled")

\* A paid webhook confirms it, whatever has become of it.
Pay(b) == Become({b}, "confirmed")

\* What the booking core does by itself.
Alone ==
    \/ \E b \in Bookings : \E p \in Places : \E s \in {"pending", "confirmed"} : Enter(b, p, s)
    \/ \E b \in Bookings : \E p \in Places : Change(b, p)
    \/ \E b \in Bookings : \E s \in {"confirmed", "cancelled"} : Decide(b, s)
    \/ \E B \in SUBSET Bookings : Expire(B)

Cancelling == \E b \in Bookings : Cancel(b)
Paying == \E b \in Bookings : Pay(b)

Next == Alone \/ Cancelling \/ Paying

Steps == [][Next]_life

Spec == Init /\ Steps
=============================================================================
