------------------------------- MODULE Orders -------------------------------
(***************************************************************************)
(* The storefront order from reservation to refund: OrdersService, the     *)
(* worker's expiry sweep, the provider callback's effect, and the two      *)
(* other services that write an order's payment (finance settlement and    *)
(* order returns).  Each handler is one serializable transaction           *)
(* (common/serializable-tx.ts), hence one action; a handler that throws    *)
(* changes nothing.  Stock is the StockLedger promise, which the location, *)
(* condition and reservation rows implement (WarehouseStock).              *)
(***************************************************************************)
EXTENDS StockLedger, FiniteSets

CONSTANTS
  Orders,       \* order identities; they are the Sources of the ledger
  Refs,         \* provider payment references
  AllowMock,    \* ALLOW_MOCK_PAYMENTS outside production
  OpeningStock, MaxOnHand

ASSUME OrdersAssumption ==
  /\ Sources = Orders /\ IsFiniteSet(Orders)
  /\ Need \in [Orders -> Nat \ {0}]
  /\ Orders \cap Refs = {}
  /\ AllowMock \in BOOLEAN
  /\ OpeningStock \in Nat /\ MaxOnHand \in Nat

VARIABLES
  status,      \* Order.status, "NONE" before the order exists
  payment,     \* its single Payment row
  shipment,    \* its Shipment row's status
  inspection,  \* status of the shipment's outbound inspection
  lapsed,      \* expiresAt has passed
  posted,      \* accounting events posted for the order
  loyal        \* orders with a loyalty EARN row

orderVars == <<status, payment, shipment, inspection, lapsed, posted, loyal>>
vars == <<orderVars, ledger>>

OrderStatuses == {"NONE", "PENDING_PAYMENT", "PAID", "PROCESSING", "PACKED",
                  "SHIPPED", "COMPLETED", "CANCELLED", "REFUNDED"}
\* QRIS, TRANSFER and CARD are treated alike by every handler.
Electronic == "ELECTRONIC"
Deferred == {"COD", "INVOICE"}
Methods == {"UNSELECTED", "MOCK_QRIS", Electronic} \cup Deferred
PaymentStatuses == {"PENDING", "PAID", "FAILED", "CANCELLED", "REFUNDED"}
NoRef == "no reference"
Payments == [method : Methods, status : PaymentStatuses,
             ref : Refs \cup Orders \cup {NoRef}]

TypeOK ==
  /\ status \in [Orders -> OrderStatuses]
  /\ payment \in [Orders -> Payments]
  /\ shipment \in [Orders -> {"NONE", "DRAFT", "READY", "IN_TRANSIT", "DELIVERED", "CANCELLED"}]
  /\ inspection \in [Orders -> {"NONE", "IN_PROGRESS", "APPROVED", "CANCELLED"}]
  /\ lapsed \in [Orders -> BOOLEAN]
  /\ posted \in [Orders -> SUBSET {"PREPAYMENT", "PREPAID_FULFILLED", "CREDIT_FULFILLED"}]
  /\ loyal \subseteq Orders
  /\ held \in [Orders -> Nat]

Init ==
  /\ status = [o \in Orders |-> "NONE"]
  /\ payment = [o \in Orders |-> [method |-> "UNSELECTED", status |-> "PENDING", ref |-> NoRef]]
  /\ shipment = [o \in Orders |-> "NONE"]
  /\ inspection = [o \in Orders |-> "NONE"]
  /\ lapsed = [o \in Orders |-> FALSE]
  /\ posted = [o \in Orders |-> {}]
  /\ loyal = {}
  /\ onHand = OpeningStock /\ held = [o \in Orders |-> 0] /\ setAside = 0

-----------------------------------------------------------------------------
\* create: the reservation and the order commit together.
Create(o) ==
  /\ status[o] = "NONE"
  /\ Hold(o)
  /\ status' = [status EXCEPT ![o] = "PENDING_PAYMENT"]
  /\ UNCHANGED <<payment, shipment, inspection, lapsed, posted, loyal>>

\* ensureOutboundWorkflow: a draft shipment and its outbound inspection.
EnsureOutboundWorkflow(o) ==
  /\ shipment' = [shipment EXCEPT ![o] = IF @ = "NONE" THEN "DRAFT" ELSE @]
  /\ inspection' = [inspection EXCEPT ![o] = IF @ = "NONE" THEN "IN_PROGRESS" ELSE @]

\* postPrepayment: Dr bank / Cr customer advance, payment and order PAID.
PostPrepayment(o, method, ref) ==
  /\ posted' = [posted EXCEPT ![o] = @ \cup {"PREPAYMENT"}]
  /\ payment' = [payment EXCEPT ![o] = [method |-> method, status |-> "PAID", ref |-> ref]]
  /\ status' = [status EXCEPT ![o] = "PAID"]
  /\ EnsureOutboundWorkflow(o)
  /\ UNCHANGED <<lapsed, loyal, ledger>>

\* A new choice resets the payment to PENDING and keeps its old externalRef.
Choose(o, method) ==
  payment' = [payment EXCEPT ![o].method = method, ![o].status = "PENDING"]

SelectPayment(o, method) ==
  /\ status[o] = "PENDING_PAYMENT"
  /\ \/ /\ method = "MOCK_QRIS" /\ AllowMock
        /\ PostPrepayment(o, method, o)
     \/ /\ method = "COD"
        /\ Choose(o, method)
        /\ status' = [status EXCEPT ![o] = "PROCESSING"]
        /\ EnsureOutboundWorkflow(o)
        /\ UNCHANGED <<lapsed, posted, loyal, ledger>>
     \/ /\ method \in {"INVOICE", Electronic}
        /\ Choose(o, method)
        /\ UNCHANGED <<status, shipment, inspection, lapsed, posted, loyal, ledger>>

Unused(o, ref) ==
  \A other \in Orders \ {o} : ~(payment[other].ref = ref /\ payment[other].status = "PAID")

\* confirmPayment: back office, whatever method was selected.
\* Faulty variant: no duplicate check.
ConfirmPaymentUnchecked(o, ref) ==
  /\ status[o] = "PENDING_PAYMENT" /\ payment[o].status # "PAID"
  /\ PostPrepayment(o, Electronic, ref)

ConfirmPayment(o, ref) ==
  /\ status[o] = "PENDING_PAYMENT" /\ payment[o].status # "PAID"
  /\ Unused(o, ref)
  /\ PostPrepayment(o, Electronic, ref)

\* confirmProviderPayment with status PAID.
ProviderPaid(o, ref) ==
  /\ status[o] = "PENDING_PAYMENT"
  /\ payment[o].method = Electronic /\ payment[o].status = "PENDING"
  /\ Unused(o, ref)
  /\ PostPrepayment(o, Electronic, ref)

\* confirmProviderPayment with FAILED or CANCELLED: only a PAID payment refuses
\* it, so it also reaches cancelled and refunded orders.
\* Faulty variant: a late FAILED overrides PAID.
ProviderDeclinedLate(o, ref, outcome) ==
  /\ status[o] # "NONE"
  /\ payment[o].method = Electronic
  /\ payment' = [payment EXCEPT ![o].status = outcome, ![o].ref = ref]
  /\ UNCHANGED <<status, shipment, inspection, lapsed, posted, loyal, ledger>>

ProviderDeclined(o, ref, outcome) ==
  /\ status[o] # "NONE"
  /\ payment[o].method = Electronic /\ payment[o].status # "PAID"
  /\ payment' = [payment EXCEPT ![o].status = outcome, ![o].ref = ref]
  /\ UNCHANGED <<status, shipment, inspection, lapsed, posted, loyal, ledger>>

AuthorizeInvoice(o) ==
  /\ status[o] = "PENDING_PAYMENT"
  /\ payment[o].method = "INVOICE" /\ payment[o].status = "PENDING"
  /\ status' = [status EXCEPT ![o] = "PROCESSING"]
  /\ EnsureOutboundWorkflow(o)
  /\ UNCHANGED <<payment, lapsed, posted, loyal, ledger>>

\* The warehouse scans, completes and approves the inspection
\* (operations-control.service.ts; its own races are in OutboundInspection).
ApproveInspection(o) ==
  /\ inspection[o] = "IN_PROGRESS"
  /\ inspection' = [inspection EXCEPT ![o] = "APPROVED"]
  /\ UNCHANGED <<status, payment, shipment, lapsed, posted, loyal, ledger>>

Pack(o) ==
  /\ status[o] \in {"PAID", "PROCESSING"}
  /\ shipment[o] # "NONE" /\ inspection[o] = "APPROVED"
  /\ shipment' = [shipment EXCEPT ![o] = "READY"]
  /\ status' = [status EXCEPT ![o] = "PACKED"]
  /\ UNCHANGED <<payment, inspection, lapsed, posted, loyal, ledger>>

\* ship: consumes the reservation and posts the fulfilment against the customer
\* advance or the receivable, depending on whether the payment is PAID now.
\* Faulty variant: posts by what is selected, not by what is paid.
ShipByMethod(o) ==
  LET prepaid == payment[o].method = Electronic IN
  /\ status[o] = "PACKED" /\ shipment[o] = "READY"
  /\ Fulfil(o)
  /\ posted' = [posted EXCEPT ![o] =
                  @ \cup {IF prepaid THEN "PREPAID_FULFILLED" ELSE "CREDIT_FULFILLED"}]
  /\ shipment' = [shipment EXCEPT ![o] = "IN_TRANSIT"]
  /\ status' = [status EXCEPT ![o] = "SHIPPED"]
  /\ UNCHANGED <<payment, inspection, lapsed, loyal>>

Ship(o) ==
  LET prepaid == payment[o].status = "PAID" IN
  /\ status[o] = "PACKED" /\ shipment[o] = "READY"
  /\ prepaid \/ payment[o].method \in Deferred
  /\ Fulfil(o)
  /\ posted' = [posted EXCEPT ![o] =
                  @ \cup {IF prepaid THEN "PREPAID_FULFILLED" ELSE "CREDIT_FULFILLED"}]
  /\ shipment' = [shipment EXCEPT ![o] = "IN_TRANSIT"]
  /\ status' = [status EXCEPT ![o] = "SHIPPED"]
  /\ UNCHANGED <<payment, inspection, lapsed, loyal>>

Deliver(o) ==
  /\ status[o] = "SHIPPED" /\ shipment[o] = "IN_TRANSIT"
  /\ shipment' = [shipment EXCEPT ![o] = "DELIVERED"]
  /\ status' = [status EXCEPT ![o] = "COMPLETED"]
  /\ loyal' = loyal \cup {o}
  /\ UNCHANGED <<payment, inspection, lapsed, posted, ledger>>

\* The PENDING payments of an order that ends are cancelled; others are kept.
CancelPending(o) ==
  payment' = [payment EXCEPT ![o].status = IF @ = "PENDING" THEN "CANCELLED" ELSE @]

\* Faulty variants: no payment check; the shipment is forgotten.
CancelPaid(o) ==
  /\ status[o] \in {"PENDING_PAYMENT", "PAID", "PROCESSING", "PACKED"}
  /\ Drop(o)
  /\ status' = [status EXCEPT ![o] = "CANCELLED"]
  /\ shipment' = [shipment EXCEPT ![o] = IF @ = "NONE" THEN @ ELSE "CANCELLED"]
  /\ CancelPending(o)
  /\ UNCHANGED <<inspection, lapsed, posted, loyal>>
CancelKeepingShipment(o) ==
  /\ status[o] \in {"PENDING_PAYMENT", "PAID", "PROCESSING", "PACKED"}
  /\ payment[o].status # "PAID"
  /\ Drop(o)
  /\ status' = [status EXCEPT ![o] = "CANCELLED"]
  /\ CancelPending(o)
  /\ UNCHANGED <<shipment, inspection, lapsed, posted, loyal>>

Cancel(o) ==
  /\ status[o] \in {"PENDING_PAYMENT", "PAID", "PROCESSING", "PACKED"}
  /\ payment[o].status # "PAID"
  /\ Drop(o)
  /\ status' = [status EXCEPT ![o] = "CANCELLED"]
  /\ shipment' = [shipment EXCEPT ![o] = IF @ = "NONE" THEN @ ELSE "CANCELLED"]
  /\ inspection' = [inspection EXCEPT ![o] = IF @ = "IN_PROGRESS" THEN "CANCELLED" ELSE @]
  /\ CancelPending(o)
  /\ UNCHANGED <<lapsed, posted, loyal>>

\* The clock passes expiresAt, one hour after creation, whatever happened since.
Lapse(o) ==
  /\ status[o] = "PENDING_PAYMENT" /\ ~lapsed[o]
  /\ lapsed' = [lapsed EXCEPT ![o] = TRUE]
  /\ UNCHANGED <<status, payment, shipment, inspection, posted, loyal, ledger>>

\* expirePendingStorefrontOrders: re-reads the order inside its transaction.
\* Faulty variants: the reservation is kept; only untouched orders are swept.
ExpireKeepingStock(o) ==
  /\ status[o] = "PENDING_PAYMENT" /\ lapsed[o]
  /\ status' = [status EXCEPT ![o] = "CANCELLED"]
  /\ CancelPending(o)
  /\ UNCHANGED <<shipment, inspection, lapsed, posted, loyal, ledger>>
ExpireUnselected(o) ==
  /\ status[o] = "PENDING_PAYMENT" /\ lapsed[o] /\ payment[o].method = "UNSELECTED"
  /\ Drop(o)
  /\ status' = [status EXCEPT ![o] = "CANCELLED"]
  /\ CancelPending(o)
  /\ UNCHANGED <<shipment, inspection, lapsed, posted, loyal>>

Expire(o) ==
  /\ status[o] = "PENDING_PAYMENT" /\ lapsed[o]
  /\ Drop(o)
  /\ status' = [status EXCEPT ![o] = "CANCELLED"]
  /\ CancelPending(o)
  /\ UNCHANGED <<shipment, inspection, lapsed, posted, loyal>>

\* FinanceOperationsService.post of the CUSTOMER_RECEIPT that completes the total.
SettleReceivable(o) ==
  /\ status[o] \in {"SHIPPED", "COMPLETED"} /\ payment[o].method \in Deferred
  /\ payment[o].status # "PAID"
  /\ payment' = [payment EXCEPT ![o].status = "PAID"]
  /\ UNCHANGED <<status, shipment, inspection, lapsed, posted, loyal, ledger>>

\* confirmOrderReturn of every unit; restocked when inspection passed it as good.
FullReturn(o, restock) ==
  /\ status[o] = "COMPLETED"
  /\ status' = [status EXCEPT ![o] = "REFUNDED"]
  /\ payment' = [payment EXCEPT ![o].status = "REFUNDED"]
  /\ onHand' = IF restock THEN onHand + Need[o] ELSE onHand
  /\ UNCHANGED <<shipment, inspection, lapsed, posted, loyal, held, setAside>>

\* Receipts and sales of the rest of the shop.
\* Faulty variant: the counter sells reserved units.
OtherStockOnHand ==
  /\ \/ onHand < MaxOnHand /\ onHand' = onHand + 1
     \/ onHand >= 1 /\ onHand' = onHand - 1
  /\ UNCHANGED <<orderVars, held, setAside>>

OtherStock ==
  /\ \/ onHand < MaxOnHand /\ onHand' = onHand + 1
     \/ Unheld >= 1 /\ onHand' = onHand - 1
  /\ UNCHANGED <<orderVars, held, setAside>>

OrderStep(o) ==
  \/ Create(o)
  \/ \E method \in Methods : SelectPayment(o, method)
  \/ \E ref \in Refs : \/ ConfirmPayment(o, ref) \/ ProviderPaid(o, ref)
                       \/ \E outcome \in {"FAILED", "CANCELLED"} : ProviderDeclined(o, ref, outcome)
  \/ AuthorizeInvoice(o) \/ ApproveInspection(o) \/ Pack(o) \/ Ship(o) \/ Deliver(o)
  \/ Cancel(o) \/ Lapse(o) \/ Expire(o) \/ SettleReceivable(o)
  \/ \E restock \in BOOLEAN : FullReturn(o, restock)

Next == OtherStock \/ \E o \in Orders : OrderStep(o)

\* The worker's tick sweeps for ever; nothing else is forced to happen.
Fairness == \A o \in Orders : WF_vars(Expire(o))

Spec == Init /\ [][Next]_vars /\ Fairness
-----------------------------------------------------------------------------
Live == {"PENDING_PAYMENT", "PAID", "PROCESSING", "PACKED"}
Left == {"SHIPPED", "COMPLETED", "REFUNDED"}

(* The shop never promises or sells more than it has, whatever the mix of  *)
(* orders, cancellations, expiries and counter sales.                      *)
NoOversell == Unheld >= 0

(* STOREFRONT-FULFILLMENT-INTEGRITY.md, "Inventory truth": an order holds  *)
(* exactly its units while it is unfinished, and none once it was shipped, *)
(* cancelled or expired.                                                   *)
HeldMatchesOrder ==
  \A o \in Orders : held[o] = IF status[o] \in Live THEN Need[o] ELSE 0

StockFollowsOrders == NoOversell /\ HeldMatchesOrder

(* The customer advance (account 2105) posted for an order is cleared by   *)
(* that order's shipment: a prepayment is never left on a cancelled order, *)
(* and each shipped order is posted once, against the advance exactly when *)
(* there is one and against the receivable otherwise.                      *)
LedgerFollowsOrder ==
  \A o \in Orders :
    /\ "PREPAYMENT" \in posted[o] => status[o] \in {"PAID", "PACKED"} \cup Left
    /\ posted[o] \ {"PREPAYMENT"} =
         IF status[o] \notin Left THEN {}
         ELSE IF "PREPAYMENT" \in posted[o] THEN {"PREPAID_FULFILLED"}
         ELSE {"CREDIT_FULFILLED"}

(* "Payment truth": from PAID on, an order with an electronic method is    *)
(* paid and stays paid, whatever late or reordered callbacks arrive; an    *)
(* unpaid one is COD or INVOICE.                                           *)
GoodsFollowMoney ==
  \A o \in Orders :
    status[o] \in {"PAID", "PROCESSING", "PACKED", "SHIPPED", "COMPLETED"} =>
      payment[o].status = "PAID" \/ payment[o].method \in Deferred

(* QUALITY-GATES.md:32: callbacks and retries create no double payment:    *)
(* one provider reference pays at most one order.                          *)
UniqueProviderRef ==
  \A o1, o2 \in Orders :
    /\ payment[o1].status = "PAID" /\ payment[o1].method = Electronic
    /\ payment[o2].status = "PAID" /\ payment[o2].method = Electronic
    /\ payment[o1].ref = payment[o2].ref
    => o1 = o2

(* Goods and money follow each other: what is posted, paid and shipped      *)
(* agrees, and no reference pays twice, however callbacks, confirmations,   *)
(* cancellations and expiries of several orders interleave.                 *)
MoneyFollowsOrders == LedgerFollowsOrder /\ GoodsFollowMoney /\ UniqueProviderRef

(* The shipment row and the order move together, so that each next handler *)
(* finds the shipment in the state it asks for and a cancelled order's     *)
(* shipment cannot leave.                                                  *)
ShipmentFollowsOrder ==
  \A o \in Orders :
    shipment[o] \in CASE status[o] \in {"NONE", "PENDING_PAYMENT"} -> {"NONE"}
                      [] status[o] \in {"PAID", "PROCESSING"} -> {"DRAFT"}
                      [] status[o] = "PACKED" -> {"READY"}
                      [] status[o] = "SHIPPED" -> {"IN_TRANSIT"}
                      [] status[o] = "CANCELLED" -> {"NONE", "CANCELLED"}
                      [] OTHER -> {"DELIVERED"}

(* An order that received a payment is not cancelled or expired, even when *)
(* the payment and the cancellation race.                                  *)
PaidOrderIsKept ==
  [][\A o \in Orders : status'[o] = "CANCELLED" =>
       status[o] = "CANCELLED" \/ (payment[o].status # "PAID" /\ posted[o] = {})]_vars

(* An order whose payment deadline passed does not keep its stock for ever:*)
(* it is expired, unless it was paid, released or cancelled first.         *)
LapsedOrdersEnd ==
  \A o \in Orders :
    (status[o] = "PENDING_PAYMENT" /\ lapsed[o]) ~> (status[o] # "PENDING_PAYMENT")
=============================================================================
