---------------------------- MODULE MCDocuments ----------------------------
(* Instances of Documents for TLC.                                         *)
EXTENDS Documents, TLC

CONSTANTS c1, c2, p1, p2, d1, d2, f1, f2

Symmetry == Permutations({c1, c2}) \cup Permutations({p1, p2})
              \cup Permutations({d1, d2}) \cup Permutations({f1, f2})
=============================================================================
