---------------------------- MODULE MCPointOfSale ----------------------------
(* Two sales of one shift, two replay requests of which one may have been      *)
(* given up, and a failure that is final at the second attempt.                *)
EXTENDS PointOfSale, TLC
CONSTANTS r1, r2
Symmetry == Permutations({r1, r2})
=============================================================================
