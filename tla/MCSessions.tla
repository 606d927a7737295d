----------------------------- MODULE MCSessions -----------------------------
(* Instances of Sessions for TLC: two people, two calls at a time.         *)
EXTENDS Sessions, TLC

CONSTANTS u1, u2, e1, e2, j1, j2, k1, c1, c2

Symmetry == Permutations({u1, u2}) \cup Permutations({e1, e2})
              \cup Permutations({j1, j2}) \cup Permutations({c1, c2})
=============================================================================
