------------------------------ MODULE MCOrders ------------------------------
(* Two orders that together need more than the opening stock.  Callbacks:    *)
(* payment and refusal of the first one, in two requests at once.  Points: a *)
(* counter sale of two units worth three, with two returns, that may redeem  *)
(* what an order earned, or two orders whose points lapse after a day, with a *)
(* correction by hand that takes a point.  Units: a piece and a box of one or *)
(* two pieces, one barcode, one line of two units, two returns, three edits. *)
EXTENDS Storefront, TLC
CONSTANTS o1, o2, r1, e1, e2, c1, c2, k1, k2, t1, q1, q2
MCOrderSet == {o1, o2}
MCNeed == o1 :> 1 @@ o2 :> 2
MCAbout == e1 :> o1 @@ e2 :> o1
MCSays == e1 :> "PAID" @@ e2 :> "FAILED"
MCRefOf == e1 :> r1 @@ e2 :> r1
MCBaskets == {{}, {q1, q2}, {t1, q2}}   \* none while only orders move
MCPrice == t1 :> 3 @@ q1 :> 4 @@ q2 :> 2
MCSold == t1 :> 2
MCManual == {-1}
=============================================================================
