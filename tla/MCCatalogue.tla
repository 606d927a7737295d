---------------------------- MODULE MCCatalogue ----------------------------
(* Instances of Catalogue for TLC.                                         *)
EXTENDS Catalogue, TLC

CONSTANTS c1, c2, v1, v2

Symmetry == Permutations({c1, c2}) \cup Permutations({v1, v2})
=============================================================================
