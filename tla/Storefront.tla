----------------------------- MODULE Storefront -----------------------------
(***************************************************************************)
(* The storefront and the customer's points: orders competing for stock,   *)
(* the provider's callbacks about one of them, step by step, what          *)
(* purchases, returns and time do to a loyalty account, and the units in   *)
(* which a line is sold and taken back.  Orders share with points and      *)
(* lines only the order's own transactions: its creation fixes the lines,  *)
(* its delivery and its return write order and points.  A behaviour        *)
(* follows one of the four, named by part.                                 *)
(***************************************************************************)
EXTENDS PaymentCallbacks, LoyaltyPoints, SellingUnits

VARIABLE part

storefrontVars == <<vars, callbackVars, pointVars, sellingVars, part>>

StorefrontInit ==
  /\ part \in {"orders", "callbacks", "points", "units"}
  /\ Init /\ CallbacksInit /\ PointsInit /\ SellingInit
  /\ part # "points" => DOMAIN bill = {}   \* nothing is bought there

\* The orders callbacks are about.
Called == {About[e] : e \in Events}

OrdersTurn == part = "orders" /\ Next /\ UNCHANGED <<callbackVars, pointVars, sellingVars>>
CallbacksTurn ==
  /\ part = "callbacks" /\ UNCHANGED <<pointVars, sellingVars>>
  /\ \/ CallbackStep
     \/ (OtherStock \/ \E o \in Called : ShopStep(o)) /\ UNCHANGED callbackVars
PointsTurn == part = "points" /\ PointsNext /\ UNCHANGED <<vars, callbackVars, sellingVars>>
UnitsTurn == part = "units" /\ SellingNext /\ UNCHANGED <<vars, callbackVars, pointVars>>

StorefrontNext == (OrdersTurn \/ CallbacksTurn \/ PointsTurn \/ UnitsTurn) /\ UNCHANGED part

StorefrontSpec == StorefrontInit /\ [][StorefrontNext]_storefrontVars /\ Fairness

\* Every column keeps a value of its type, whichever part moves.
StorefrontTypeOK == TypeOK /\ CallbacksTypeOK /\ PointsTypeOK /\ SellingTypeOK
=============================================================================
