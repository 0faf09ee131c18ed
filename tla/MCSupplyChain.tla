--------------------------- MODULE MCSupplyChain ---------------------------
(* One request, two users, a policy of two steps and room for two approvals; *)
(* an order of two units with two receipts and two clerks; a transfer of two *)
(* units between two warehouses, a count of the sender and two requests      *)
(* between check and write; two trips that want one vehicle, two stops and    *)
(* two items of one shipment; two locations, one legacy source and two new    *)
(* ones, at most five units.  The parts share no state, so that a1, a2 and   *)
(* b1, b2 stand for the users, clerks and sessions, and for the receipts and  *)
(* trips, at once: one permutation serves all parts.                          *)
EXTENDS SupplyChain, TLC
CONSTANTS a1, a2, b1, b2, v1, p1, o1, w1, w2, x1, n1, s1, s2, i1, i2, h1, bin, floor, old, o2
MCOrdered == o1 :> 2
MCFrom == x1 :> w1
MCTo == x1 :> w2
MCQuantity == x1 :> 2
MCCounted == n1 :> w1
MCOpening == w1 :> 2 @@ w2 :> 0
MCShipmentOf == s1 :> h1 @@ s2 :> h1
MCCodExpected == s1 :> 1 @@ s2 :> 1
MCShipmentOfItem == i1 :> h1 @@ i2 :> h1
MCLocations == {bin, floor}
MCSources == {old, o1, o2}
MCNeed == [src \in MCSources |-> IF src = o2 THEN 2 ELSE 1]
MCLegacy == {old}
Symmetry == Permutations({a1, a2}) \cup Permutations({b1, b2}) \cup Permutations({s1, s2})
            \cup Permutations({i1, i2})
=============================================================================
