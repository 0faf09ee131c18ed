------------------------------ MODULE ShopFloor ------------------------------
(***************************************************************************)
(* How goods reach the customer: the outbound inspection of orders and the *)
(* till.  Both take their units from the same stock, in transactions that  *)
(* take all they ask for or nothing, and share no other row: a behaviour   *)
(* follows one of them, named by part.                                     *)
(***************************************************************************)
EXTENDS OutboundInspection, PointOfSale

VARIABLE part

floorVars == <<inspectionVars, saleVars, part>>

ShopFloorTypeOK == part \in {"inspection", "till"} /\ InspectionTypeOK /\ SalesTypeOK

FloorInit == part \in {"inspection", "till"} /\ InspectionInit /\ SalesInit

InspectionTurn == part = "inspection" /\ InspectionNext /\ UNCHANGED saleVars
TillTurn == part = "till" /\ SalesNext /\ UNCHANGED inspectionVars

FloorNext == (InspectionTurn \/ TillTurn) /\ UNCHANGED part

FloorSpec == FloorInit /\ [][FloorNext]_floorVars
=============================================================================
