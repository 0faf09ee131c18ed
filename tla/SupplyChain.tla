----------------------------- MODULE SupplyChain -----------------------------
(***************************************************************************)
(* How goods come, move and leave: purchase requests with their approvals,  *)
(* receipts on purchase orders, transfers and counts, delivery trips.  What *)
(* one part hands to another is a row that is complete when it is handed    *)
(* over (an APPROVED order, available stock, a READY shipment), so a        *)
(* behaviour follows one part and leaves the others as they are.            *)
(***************************************************************************)
EXTENDS PurchaseRequests, GoodsReceipts, StockDocuments, Deliveries, WarehouseStock

VARIABLE part

Parts == {"requests", "receipts", "documents", "trips", "locations"}

supplyVars == <<part, requestVars, receiptVars, documentVars, deliveryVars, warehouseVars>>

SupplyTypeOK ==
  /\ part \in Parts
  /\ RequestsTypeOK /\ ReceiptsTypeOK /\ StockDocumentsTypeOK /\ DeliveriesTypeOK /\ WarehouseTypeOK

SupplyInit ==
  /\ part \in Parts
  /\ RequestsInit /\ ReceiptsInit /\ DocumentsInit /\ DeliveriesInit /\ WarehouseInit

SupplyNext ==
  /\ UNCHANGED part
  /\ \/ part = "requests" /\ RequestsNext /\ UNCHANGED <<receiptVars, documentVars, deliveryVars, warehouseVars>>
     \/ part = "receipts" /\ ReceiptsNext /\ UNCHANGED <<requestVars, documentVars, deliveryVars, warehouseVars>>
     \/ part = "documents" /\ DocumentsNext /\ UNCHANGED <<requestVars, receiptVars, deliveryVars, warehouseVars>>
     \/ part = "trips" /\ DeliveriesNext /\ UNCHANGED <<requestVars, receiptVars, documentVars, warehouseVars>>
     \/ part = "locations" /\ WarehouseNext /\ UNCHANGED <<requestVars, receiptVars, documentVars, deliveryVars>>

SupplySpec == SupplyInit /\ [][SupplyNext]_supplyVars

-----------------------------------------------------------------------------
(* An order stands only behind one approved request, and one request is     *)
(* bought once (submit, decide, convert).                                   *)
OrderIsWarranted == OrderWasApproved /\ OneOrderPerRequest /\ DecisionsExplainStatus

(* Warehouses and ledger agree with the transfers and counts that moved the *)
(* goods (shipTransfer, receiveTransfer, completeOpname).                   *)
StockIsAccountedFor == DocumentsExplainStock /\ LedgerFollowsGoods

(* The trip, its vehicle, its goods and its cash agree (createTrip to       *)
(* closeTrip).                                                              *)
TripsAreConsistent == OneTripPerVehicle /\ TripsAccount /\ ShipmentIsExplained
=============================================================================
