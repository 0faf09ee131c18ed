---------------------------- MODULE MCShopFloor ----------------------------
(* Inspection: an order that needs two of the three serials and can be       *)
(* cancelled, and a prepaid one.  Till: two sales of one shift, two replay   *)
(* requests of which one may have been given up, and a failure that is final *)
(* at the second attempt.                                                    *)
EXTENDS ShopFloor, TLC
CONSTANTS o1, o2, r1, r2
MCWanted == o1 :> 2 @@ o2 :> 1
Symmetry == Permutations({r1, r2})
=============================================================================
