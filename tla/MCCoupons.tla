----------------------------- MODULE MCCoupons -----------------------------
(* Instances of Coupons for TLC.                                           *)
EXTENDS Coupons, TLC

CONSTANTS c1, c2, k1, vip, partner, p1, p2

Symmetry == Permutations({c1, c2}) \cup Permutations({p1, p2})

\* A coupon worth more than the fee for two guests, a quarter of it for VIPs,
\* and a code worth half, capped.
TermsOfOffers ==
    k1 :> [percentage |-> FALSE, value |-> 3, cap |-> 1, min |-> 1]
      @@ vip :> [percentage |-> TRUE, value |-> 2500, cap |-> 0, min |-> 0]
      @@ partner :> [percentage |-> TRUE, value |-> 5000, cap |-> 1, min |-> 0]
\* Two slots of one experience, for two guests.
GuestsAt == [p \in {p1, p2} |-> 2]
FeeAt == [p \in {p1, p2} |-> 4]
NetAt == [p \in {p1, p2} |-> 6]
LimitOfCodes == partner :> 1
=============================================================================
