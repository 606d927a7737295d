---------------------------- MODULE MCPayments ----------------------------
(* Instances of Payments for TLC: the payments of one booking.             *)
EXTENDS Payments, TLC

CONSTANTS c1, c2

Symmetry == Permutations({c1, c2})
=============================================================================
