----------------------------- MODULE SeatLedger -----------------------------
(***************************************************************************)
(* What the booking core promises about seats.  A ledger says which party  *)
(* sits where.  A party takes its seats in one slot, all at once, when     *)
(* there is room for it, and leaves those it had; apart from that parties  *)
(* only give back all they have.  Module Bookings implements it, the       *)
(* bookings confirmed without a look at the capacity left out.             *)
(***************************************************************************)
EXTENDS Integers, FiniteSets

CONSTANTS
    Bookings,   \* who takes seats
    Slots,      \* where
    Capacity,   \* how many seats each slot has
    MaxQty,     \* travellers of one booking, at most
    Null        \* no slot

VARIABLE party   \* where each booking sits, and how many they are

Nowhere == [slot |-> Null, qty |-> 0]

Init == party = [b \in Bookings |-> Nowhere]

\* The seats taken in a slot, a pair for each traveller.
Taken(s) ==
    {seat \in Bookings \X (1 .. MaxQty) :
        party[seat[1]].slot = s /\ seat[2] <= party[seat[1]].qty}

Take(b, s, q) ==
    /\ Cardinality(Taken(s)) + q <= Capacity[s]
    /\ party' = [party EXCEPT ![b] = [slot |-> s, qty |-> q]]

GiveBack(B) ==
    party' = [b \in Bookings |-> IF b \in B THEN Nowhere ELSE party[b]]

Next ==
    \/ \E B \in SUBSET Bookings : GiveBack(B)
    \/ \E b \in Bookings : \E s \in Slots : \E q \in 1 .. MaxQty : Take(b, s, q)

Spec == Init /\ [][Next]_party

-----------------------------------------------------------------------------
(* What follows from it *)

\* No slot has more seats taken than it has (lockSlotCapacity).
NeverOverfull == \A s \in Slots : Cardinality(Taken(s)) <= Capacity[s]
=============================================================================
