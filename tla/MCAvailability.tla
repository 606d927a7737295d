--------------------------- MODULE MCAvailability ---------------------------
(* Instances of Availability for TLC: days of two hours.                   *)
EXTENDS Availability, TLC

CONSTANTS s1, s2, c1, c2

Symmetry == Permutations({s1, s2}) \cup Permutations({c1, c2})

EveryDay == 0 .. 1
Morning == [from |-> 0, to |-> 1, days |-> EveryDay, capacity |-> 0]
OddDays == [from |-> 0, to |-> 1, days |-> {1}, capacity |-> 1]
Backwards == [from |-> 1, to |-> 0, days |-> EveryDay, capacity |-> 0]

OneBlock == [first |-> 0, last |-> 1, capacity |-> 1, slots |-> <<Morning, OddDays>>]
LaterBlock == [first |-> 1, last |-> 1, capacity |-> 0, slots |-> <<Morning>>]
BadBlock == [first |-> 1, last |-> 1, capacity |-> 0, slots |-> <<Backwards>>]

Requests == {<<OneBlock>>, <<LaterBlock, BadBlock>>}
=============================================================================
