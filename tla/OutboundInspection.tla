-------------------------- MODULE OutboundInspection --------------------------
(***************************************************************************)
(* The outbound inspection of a shipment of serial-tracked products        *)
(* (OperationsControlService), against the order handlers that read or     *)
(* end it (OrdersService.pack, ship, cancel).  The inspection's handlers   *)
(* read the row outside the transaction that writes, so each is two steps; *)
(* the order handlers are serializable and are one.                        *)
(***************************************************************************)
EXTENDS Naturals, FiniteSets

CONSTANTS
  Orders,       \* orders released to the warehouse, one shipment each
  Serials,      \* serial numbers of the product in the warehouse
  Wanted,         \* ordered units of each order
  Prepaid,      \* orders whose payment is PAID: they cannot be cancelled
  Operators,    \* concurrent warehouse requests
  RequireScan,  \* the ORDER_OUTBOUND policy has requireBarcodeScan (seeded so)
  Free, Idle    \* no shipment, no request

ASSUME InspectionAssumption ==
  /\ Wanted \in [Orders -> Nat \ {0}]
  /\ Prepaid \subseteq Orders
  /\ IsFiniteSet(Serials)
  /\ RequireScan \in BOOLEAN
  /\ Free \notin Orders

VARIABLES
  order,       \* status of the order once it is released
  inspection,  \* status of its outbound inspection
  blocking,    \* orders whose inspection has blockingFailureCount > 0
  scanned,     \* scannedQty of its product row
  holder,      \* shipment a serial is RESERVED for or SOLD with
  sold,        \* serials that are SOLD
  request      \* what each operator's request has read

inspectionVars == <<order, inspection, blocking, scanned, holder, sold, request>>

Final == {"APPROVED", "REJECTED", "CANCELLED"}
Verdicts == {"PASSED", "FAILED"}   \* PARTIAL cannot occur, REVIEW_REQUIRED is like PASSED
Requests == [op : {"scan"}, order : Orders, serial : Serials]
            \cup [op : {"complete"}, order : Orders, scanned : Nat]
            \cup [op : {"approve"}, order : Orders, verdict : Verdicts]

HeldFor(o) == {s \in Serials : holder[s] = o}

InspectionTypeOK ==
  /\ order \in [Orders -> {"RELEASED", "PACKED", "SHIPPED", "CANCELLED"}]
  /\ inspection \in [Orders -> {"IN_PROGRESS"} \cup Verdicts \cup Final]
  /\ blocking \subseteq Orders
  /\ scanned \in [Orders -> Nat] /\ \A o \in Orders : scanned[o] <= Wanted[o]
  /\ holder \in [Serials -> Orders \cup {Free}]
  /\ sold \subseteq Serials
  /\ request \in [Operators -> Requests \cup {Idle}]

InspectionInit ==
  /\ order = [o \in Orders |-> "RELEASED"]
  /\ inspection = [o \in Orders |-> "IN_PROGRESS"]
  /\ blocking = {} /\ sold = {}
  /\ scanned = [o \in Orders |-> 0]
  /\ holder = [s \in Serials |-> Free]
  /\ request = [p \in Operators |-> Idle]

Begin(p, r) ==
  /\ request[p] = Idle
  /\ request' = [request EXCEPT ![p] = r]
  /\ UNCHANGED <<order, inspection, blocking, scanned, holder, sold>>

Answered(p) == request' = [request EXCEPT ![p] = Idle]
-----------------------------------------------------------------------------
\* addInspectionEvidence with a BARCODE: status and serial are read first.
BeginScan(p, o, s) ==
  /\ inspection[o] \notin Final
  /\ holder[s] = Free
  /\ Begin(p, [op |-> "scan", order |-> o, serial |-> s])

\* Its transaction: serial and count are claimed by compare-and-set.
\* Faulty variants: the serial, or the expected quantity, is not checked again.
ScanUnclaimed(p, r) ==
  /\ r.op = "scan" /\ scanned[r.order] < Wanted[r.order]
  /\ holder' = [holder EXCEPT ![r.serial] = r.order]
  /\ scanned' = [scanned EXCEPT ![r.order] = @ + 1]
  /\ Answered(p)
  /\ UNCHANGED <<order, inspection, blocking, sold>>
ScanUncounted(p, r) ==
  /\ r.op = "scan" /\ holder[r.serial] = Free
  /\ holder' = [holder EXCEPT ![r.serial] = r.order]
  /\ scanned' = [scanned EXCEPT ![r.order] = @ + 1]
  /\ Answered(p)
  /\ UNCHANGED <<order, inspection, blocking, sold>>

Scan(p, r) ==
  /\ r.op = "scan"
  /\ scanned[r.order] < Wanted[r.order] /\ holder[r.serial] = Free
  /\ holder' = [holder EXCEPT ![r.serial] = r.order]
  /\ scanned' = [scanned EXCEPT ![r.order] = @ + 1]
  /\ Answered(p)
  /\ UNCHANGED <<order, inspection, blocking, sold>>

\* completeInspection: status, evidence policy and scan counts are read first.
\* Faulty variant: the policy is not enforced.
BeginCompleteLax(p, o) ==
  /\ inspection[o] \notin Final
  /\ Begin(p, [op |-> "complete", order |-> o, scanned |-> scanned[o]])

BeginComplete(p, o) ==
  /\ inspection[o] \notin Final
  /\ RequireScan => scanned[o] >= Wanted[o]
  /\ Begin(p, [op |-> "complete", order |-> o, scanned |-> scanned[o]])

\* Its transaction recreates the result rows with the counts it had read.
\* Faulty variant: the recreated rows do not carry the server's counts over.
CompleteForgetting(p, r, verdict) ==
  /\ r.op = "complete"
  /\ inspection' = [inspection EXCEPT ![r.order] = verdict]
  /\ blocking' = IF verdict = "FAILED" THEN blocking \cup {r.order} ELSE blocking \ {r.order}
  /\ scanned' = [scanned EXCEPT ![r.order] = 0]
  /\ Answered(p)
  /\ UNCHANGED <<order, holder, sold>>

Complete(p, r, verdict) ==
  /\ r.op = "complete"
  /\ inspection' = [inspection EXCEPT ![r.order] = verdict]
  /\ blocking' = IF verdict = "FAILED" THEN blocking \cup {r.order} ELSE blocking \ {r.order}
  /\ scanned' = [scanned EXCEPT ![r.order] = r.scanned]
  /\ Answered(p)
  /\ UNCHANGED <<order, holder, sold>>

\* approveInspection decides from the status it read.
BeginApprove(p, o) ==
  /\ inspection[o] \in Verdicts
  /\ Begin(p, [op |-> "approve", order |-> o, verdict |-> inspection[o]])

Approve(p, r) ==
  /\ r.op = "approve"
  /\ inspection' = [inspection EXCEPT ![r.order] =
                      IF r.verdict = "FAILED" THEN "REJECTED" ELSE "APPROVED"]
  /\ Answered(p)
  /\ UNCHANGED <<order, blocking, scanned, holder, sold>>

\* The transaction refuses or the request is lost.
GiveUp(p) ==
  /\ request[p] # Idle
  /\ Answered(p)
  /\ UNCHANGED <<order, inspection, blocking, scanned, holder, sold>>
-----------------------------------------------------------------------------
Pack(o) ==
  /\ order[o] = "RELEASED" /\ inspection[o] = "APPROVED" /\ o \notin blocking
  /\ order' = [order EXCEPT ![o] = "PACKED"]
  /\ UNCHANGED <<inspection, blocking, scanned, holder, sold, request>>

\* ship sells the serials reserved for the shipment, exactly as many as ordered.
Ship(o) ==
  /\ order[o] = "PACKED" /\ Cardinality(HeldFor(o)) = Wanted[o]
  /\ sold' = sold \cup HeldFor(o)
  /\ order' = [order EXCEPT ![o] = "SHIPPED"]
  /\ UNCHANGED <<inspection, blocking, scanned, holder, request>>

\* cancel frees the serials reserved so far and cancels an undecided inspection.
Cancel(o) ==
  /\ o \notin Prepaid
  /\ order[o] \in {"RELEASED", "PACKED"}
  /\ order' = [order EXCEPT ![o] = "CANCELLED"]
  /\ inspection' = [inspection EXCEPT ![o] = IF @ \in Final THEN @ ELSE "CANCELLED"]
  /\ holder' = [s \in Serials |-> IF s \in HeldFor(o) THEN Free ELSE holder[s]]
  /\ UNCHANGED <<blocking, scanned, sold, request>>

InspectionNext ==
  \/ \E p \in Operators, o \in Orders :
       \/ \E s \in Serials : BeginScan(p, o, s)
       \/ BeginComplete(p, o) \/ BeginApprove(p, o)
  \/ \E p \in Operators :
       \/ GiveUp(p)
       \/ /\ request[p] # Idle
          /\ \/ Scan(p, request[p]) \/ Approve(p, request[p])
             \/ \E verdict \in Verdicts : Complete(p, request[p], verdict)
  \/ \E o \in Orders : Pack(o) \/ Ship(o) \/ Cancel(o)

InspectionSpec == InspectionInit /\ [][InspectionNext]_inspectionVars
-----------------------------------------------------------------------------
(* A serial leaves a shipment only when that shipment's order is cancelled,*)
(* and never after it was sold: two shipments never scan the same unit.    *)
SerialsAreNotStolen ==
  [][\A s \in Serials : holder[s] # Free /\ holder'[s] # holder[s] =>
       /\ holder'[s] = Free /\ s \notin sold
       /\ order'[holder[s]] = "CANCELLED"]_inspectionVars

(* STOREFRONT-FULFILLMENT-INTEGRITY.md, "Inventory truth": exactly the     *)
(* ordered number of serials leaves with a shipped order, and no serial is *)
(* sold with an order that did not ship.                                   *)
SoldMatchesShipped ==
  \A o \in Orders :
    Cardinality(sold \cap HeldFor(o)) = IF order[o] = "SHIPPED" THEN Wanted[o] ELSE 0

(* With requireBarcodeScan, an order that could be packed can be shipped:  *)
(* ship asks for an exact serial count, and after the approval no scan is  *)
(* accepted any more.                                                      *)
PackedCanShip ==
  RequireScan => \A o \in Orders :
    order[o] = "PACKED" => Cardinality(HeldFor(o)) = Wanted[o]

(* "scan count yang atomik": the count of an open order is the number of   *)
(* serials scanned for it, although completeInspection rewrites the count  *)
(* with one it read earlier.  Without requireBarcodeScan it may be stale.  *)
ScanCountTruthful ==
  RequireScan => \A o \in Orders :
    order[o] # "CANCELLED" => scanned[o] = Cardinality(HeldFor(o))

(* What is counted, packed and shipped are the serials of the order.       *)
SerialsAreCounted == SoldMatchesShipped /\ ScanCountTruthful /\ PackedCanShip

(* "Cancel order sebelum pembayaran melepaskan reservation dan serial":    *)
(* nothing else would ever free a serial of a cancelled order.             *)
CancelledHoldsNoSerial ==
  \A o \in Orders : order[o] = "CANCELLED" => HeldFor(o) = {}
=============================================================================
