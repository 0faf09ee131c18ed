----------------------------- MODULE Settlement -----------------------------
(***************************************************************************)
(* Settling what a shipped order and a posted goods receipt leave open:    *)
(* the finance transactions of FinanceOperationsService (customer receipt, *)
(* supplier payment, supplier refund), the customer's order returns and    *)
(* the returns to the supplier of ReturnsService.  All handlers are        *)
(* serializable transactions, so each is one action; what is open is       *)
(* computed from the rows every time, while the books keep running         *)
(* balances.  One order, one goods receipt, one product; an amount is the  *)
(* gross, taxes included.                                                  *)
(***************************************************************************)
EXTENDS Integers, FiniteSets, Functions

CONSTANTS
  Txns,             \* OperationalFinanceTransaction identities
  OrderReturns,     \* OrderReturn identities
  PurchaseReturns,  \* PurchaseReturn identities
  Units, GoodsTotal, Total,      \* of the order: units, their gross, with shipping
  ReceiptUnits, ReceiptTotal,    \* of the goods receipt: accepted units, gross
  Documents         \* which of the two documents may exist together

ASSUME SettlementAssumption ==
  /\ Units \in Nat \ {0} /\ GoodsTotal \in Nat \ {0}
  /\ Total \in Nat /\ Total >= GoodsTotal
  /\ ReceiptUnits \in Nat \ {0} /\ ReceiptTotal \in Nat \ {0}
  /\ Documents \subseteq SUBSET {"Order", "GoodsReceipt"}
  /\ PurchaseReturns \cap ({"Order", "GoodsReceipt"} \cup OrderReturns) = {}
  /\ IsFiniteSet(Txns) /\ IsFiniteSet(OrderReturns) /\ IsFiniteSet(PurchaseReturns)

VARIABLES
  order,    \* status of the Order, method and status of its Payment
  receipt,  \* operationalStatus of the GoodsReceipt
  txn,      \* the finance transactions
  oret,     \* the order returns
  pret,     \* the purchase returns
  inspection,  \* what the inspection of each return says
  inspecting,  \* returns whose inspection somebody read while it was open
  books,    \* balances of 1201/1203, 2101, 1202 and 1101/1102
  onHand    \* units of the product that can be taken

vars == <<order, receipt, txn, oret, pret, inspection, inspecting, books, onHand>>
inspections == <<inspection, inspecting>>
Returns == OrderReturns \cup PurchaseReturns

Credit == {"COD", "INVOICE"}
\* What a transaction refers to fixes its type: an order is collected, a goods
\* receipt is paid, a purchase return is refunded.
References == {"Order", "GoodsReceipt"} \cup PurchaseReturns
Pending == {"DRAFT", "WAITING_APPROVAL", "APPROVED"}
Claiming == {"REQUESTED", "INSPECTION", "COMPLETED"}

NoTxn == [status |-> "NONE", ref |-> "Order", amount |-> 0]
NoOrderReturn == [status |-> "NONE", quantity |-> 0, amount |-> 0, settledBy |-> "NONE"]
NoPurchaseReturn == [status |-> "NONE", quantity |-> 0, amount |-> 0, noted |-> FALSE, receivable |-> 0]

TypeOK ==
  /\ order \in [status : {"NONE", "SHIPPED", "COMPLETED", "REFUNDED"}, method : Credit \cup {"ELECTRONIC"},
                payment : {"PENDING", "PAID", "REFUNDED"}]
  /\ receipt \in {"NONE", "CONFIRMED"}
  /\ txn \in [Txns -> [status : {"NONE", "POSTED", "CANCELLED"} \cup Pending,
                       ref : References, amount : Nat]]
  /\ oret \in [OrderReturns -> [status : {"NONE", "REJECTED"} \cup Claiming,
                 quantity : 0..Units, amount : Nat,
                 settledBy : {"NONE", "PAYOUT", "RECEIVABLE"}]]
  /\ pret \in [PurchaseReturns -> [status : {"NONE", "REQUESTED", "COMPLETED"},
                 quantity : 0..ReceiptUnits, amount : Nat, noted : BOOLEAN,
                 receivable : Nat]]
  /\ inspection \in [Returns -> {"NONE", "OPEN", "GOOD", "DAMAGED", "REJECTED"}]
  /\ inspecting \subseteq {r \in Returns : inspection[r] # "NONE"}
  /\ books \in [receivable : Int, payable : Int, supplierReceivable : Int, cash : Int]
  /\ onHand \in 0..(ReceiptUnits + Units)

\* The order as Ship leaves it; an ELECTRONIC one is paid and owes nothing.
NoOrder == [status |-> "NONE", method |-> "COD", payment |-> "PENDING"]
ShippedOrders == [status : {"SHIPPED"}, method : Credit, payment : {"PENDING"}]
            \cup [status : {"SHIPPED"}, method : {"ELECTRONIC"}, payment : {"PAID"}]

Init ==
  /\ \E documents \in Documents :
       /\ order \in IF "Order" \in documents THEN ShippedOrders ELSE {NoOrder}
       /\ receipt = IF "GoodsReceipt" \in documents THEN "CONFIRMED" ELSE "NONE"
  /\ txn = [t \in Txns |-> NoTxn]
  /\ oret = [r \in OrderReturns |-> NoOrderReturn]
  /\ pret = [p \in PurchaseReturns |-> NoPurchaseReturn]
  /\ inspection = [r \in Returns |-> "NONE"] /\ inspecting = {}
  /\ books = [receivable |-> IF order.status = "SHIPPED" /\ order.payment = "PENDING" THEN Total ELSE 0,
              payable |-> IF receipt = "CONFIRMED" THEN ReceiptTotal ELSE 0,
              supplierReceivable |-> 0,
              cash |-> IF order.payment = "PAID" THEN Total ELSE 0]
  /\ onHand = IF receipt = "CONFIRMED" THEN ReceiptUnits ELSE 0

-----------------------------------------------------------------------------
(* What is open *)

Positive(n) == IF n > 0 THEN n ELSE 0
InStatus(rows, statuses) == {r \in DOMAIN rows : rows[r].status \in statuses}
Quantities(rows) == [r \in DOMAIN rows |-> rows[r].quantity]
Amounts(rows) == [r \in DOMAIN rows |-> rows[r].amount]

\* Gross of those of the transactions ts for ref that are in one of the statuses.
Gross(ref, statuses, ts) ==
  SumFunctionOnSet(Amounts(txn), {t \in ts \cap InStatus(txn, statuses) : txn[t].ref = ref})
Settled(ref) == Gross(ref, {"POSTED"}, Txns)

SentBack(ps) == SumFunctionOnSet(Amounts(pret), ps \cap InStatus(pret, {"COMPLETED"}))

\* The document can be settled at all: customerReceivableSnapshot,
\* supplierPayableSnapshot (the receipt is posted), supplierRefundSnapshot.
Settleable(ref) ==
  CASE ref = "Order" -> order.status \in {"SHIPPED", "COMPLETED"} /\ order.method \in Credit
    [] ref = "GoodsReceipt" -> receipt = "CONFIRMED"
    [] OTHER -> pret[ref].status = "COMPLETED" /\ pret[ref].receivable > 0

Owed(ref) ==
  CASE ref = "Order" -> Total
    [] ref = "GoodsReceipt" -> ReceiptTotal - SentBack(PurchaseReturns)
    [] OTHER -> pret[ref].receivable

\* Faulty variant: what was settled is forgotten.
AvailableUnsettled(ref, self) == Positive(Owed(ref) - Gross(ref, Pending, Txns \ {self}))

\* What is outstanding and not claimed by another transaction than self, which
\* is not posted itself.
Available(ref, self) ==
  Positive(Positive(Owed(ref) - Settled(ref)) - Gross(ref, Pending, Txns \ {self}))
-----------------------------------------------------------------------------
(* Finance transactions *)

Draft(t, ref, amount, status) ==
  /\ txn[t].status = "NONE" /\ Settleable(ref)
  /\ amount > 0 /\ amount <= Available(ref, t)
  /\ txn' = [txn EXCEPT ![t] = [status |-> status, ref |-> ref, amount |-> amount]]
  /\ UNCHANGED <<order, receipt, oret, pret, inspections, books, onHand>>

\* Status changes of approve, reject and cancel.
Mark(t, from, to) ==
  /\ txn[t].status \in from
  /\ txn' = [txn EXCEPT ![t].status = to]
  /\ UNCHANGED <<order, receipt, oret, pret, inspections, books, onHand>>
Approve(t) == Mark(t, {"DRAFT", "WAITING_APPROVAL"}, "APPROVED")
Reject(t) == Mark(t, {"WAITING_APPROVAL"}, "CANCELLED")
Cancel(t) == Mark(t, Pending, "CANCELLED")

\* post: the open amount is checked again, then journal and status commit together.
Post(t, ref) ==
  /\ txn[t].status \in {"DRAFT", "APPROVED"} /\ txn[t].ref = ref
  /\ Settleable(ref) /\ txn[t].amount <= Available(ref, t)
  /\ txn' = [txn EXCEPT ![t].status = "POSTED"]
  /\ UNCHANGED <<receipt, oret, pret, inspections, onHand>>

\* Faulty variant: the first receipt pays the order.
PostReceiptEager(t) ==
  /\ Post(t, "Order")
  /\ books' = [books EXCEPT !.cash = @ + txn[t].amount, !.receivable = @ - txn[t].amount]
  /\ order' = [order EXCEPT !.payment = "PAID"]

\* The payment is PAID once the posted receipts reach the order's total.
PostReceipt(t) ==
  LET amount == txn[t].amount
      collected == Settled("Order") + amount >= Total IN
  /\ Post(t, "Order")
  /\ books' = [books EXCEPT !.cash = @ + amount, !.receivable = @ - amount]
  /\ order' = [order EXCEPT !.payment = IF collected THEN "PAID" ELSE @]

PostPayment(t) ==
  /\ Post(t, "GoodsReceipt")
  /\ books' = [books EXCEPT !.cash = @ - txn[t].amount, !.payable = @ - txn[t].amount]
  /\ UNCHANGED order

PostRefund(t, p) ==
  /\ Post(t, p)
  /\ books' = [books EXCEPT !.cash = @ + txn[t].amount, !.supplierReceivable = @ - txn[t].amount]
  /\ UNCHANGED order

-----------------------------------------------------------------------------
(* Returns of the customer *)

\* allocateHistoricalRemainder: the proportional part, rounded half up; the
\* return that takes the last units takes what the others left.
Allocate(total, allocated, units, used, quantity) ==
  IF used + quantity = units THEN total - allocated
  ELSE (2 * total * quantity + units) \div (2 * units)

Returned(statuses) == SumFunctionOnSet(Quantities(oret), InStatus(oret, statuses))
ReturnedValue(statuses) == SumFunctionOnSet(Amounts(oret), InStatus(oret, statuses))

Deliver ==
  /\ order.status = "SHIPPED"
  /\ order' = [order EXCEPT !.status = "COMPLETED"]
  /\ UNCHANGED <<receipt, txn, oret, pret, inspections, books, onHand>>

\* Faulty variant: returns not yet confirmed do not count.
RequestReturnUncounted(r, quantity) ==
  LET amount == Allocate(GoodsTotal, ReturnedValue({"COMPLETED"}), Units, Returned({"COMPLETED"}), quantity) IN
  /\ oret[r].status = "NONE" /\ order.status = "COMPLETED"
  /\ Returned({"COMPLETED"}) + quantity <= Units /\ amount >= 0
  /\ oret' = [oret EXCEPT ![r] = [status |-> "REQUESTED", quantity |-> quantity,
        amount |-> amount, settledBy |-> "NONE"]]
  /\ UNCHANGED <<order, receipt, txn, pret, inspections, books, onHand>>

RequestReturn(r, quantity) ==
  LET amount == Allocate(GoodsTotal, ReturnedValue(Claiming), Units, Returned(Claiming), quantity) IN
  /\ oret[r].status = "NONE" /\ order.status = "COMPLETED"
  /\ Returned(Claiming) + quantity <= Units /\ amount >= 0
  /\ oret' = [oret EXCEPT ![r] = [status |-> "REQUESTED", quantity |-> quantity,
        amount |-> amount, settledBy |-> "NONE"]]
  /\ UNCHANGED <<order, receipt, txn, pret, inspections, books, onHand>>

StartReturnInspection(r) ==
  /\ oret[r].status = "REQUESTED"
  /\ oret' = [oret EXCEPT ![r].status = "INSPECTION"]
  /\ inspection' = [inspection EXCEPT ![r] = "OPEN"]
  /\ UNCHANGED <<order, receipt, txn, pret, inspecting, books, onHand>>

\* completeInspection and approveInspection read the inspection before the
\* transaction that writes it, and write whatever it says by then; the second
\* of two inspectors may come after the return was rejected or settled.  OPEN
\* also stands for results that are in and may be completed again.
BeginInspection(r) ==
  /\ inspection[r] = "OPEN"
  /\ inspecting' = inspecting \cup {r}
  /\ UNCHANGED <<order, receipt, txn, oret, pret, inspection, books, onHand>>

\* GOOD lets a customer's goods back into stock, DAMAGED is approved without
\* restock, REJECTED ends the inspection.
EndInspection(r, outcome) ==
  /\ r \in inspecting
  /\ outcome = "DAMAGED" => r \in OrderReturns
  /\ inspection' = [inspection EXCEPT ![r] = outcome]
  /\ inspecting' \in {inspecting, inspecting \ {r}}
  /\ UNCHANGED <<order, receipt, txn, oret, pret, books, onHand>>

\* Faulty variant: a settled return may still be rejected.
RejectReturnAnytime(r) ==
  /\ oret[r].status # "NONE"
  /\ oret' = [oret EXCEPT ![r].status = "REJECTED"]
  /\ inspection' = [inspection EXCEPT ![r] = IF @ = "OPEN" THEN "REJECTED" ELSE @]
  /\ UNCHANGED <<order, receipt, txn, pret, inspecting, books, onHand>>

RejectReturn(r) ==
  /\ oret[r].status \in {"REQUESTED", "INSPECTION"}
  /\ oret' = [oret EXCEPT ![r].status = "REJECTED"]
  /\ inspection' = [inspection EXCEPT ![r] = IF @ = "OPEN" THEN "REJECTED" ELSE @]
  /\ UNCHANGED <<order, receipt, txn, pret, inspecting, books, onHand>>

\* Faulty variant: the return of an uncollected order is paid out.
ReducesReceivableByMethod(original) == original /\ order.method = "INVOICE"

\* reduceReceivable: INVOICE with its own method, or a credit order not PAID.
ReducesReceivable(original) ==
  \/ original /\ order.method = "INVOICE"
  \/ order.payment # "PAID" /\ order.method \in Credit

\* confirmOrderReturn: restock, journal, and REFUNDED when every unit is back.
\* original: the refund method asked for is ORIGINAL, not CASH or BANK_TRANSFER.
ConfirmReturn(r, original) ==
  LET reduce == ReducesReceivable(original)
      amount == oret[r].amount
      full == Returned({"COMPLETED"}) + oret[r].quantity >= Units IN
  /\ oret[r].status = "INSPECTION" /\ inspection[r] \in {"GOOD", "DAMAGED"}
  /\ onHand' = onHand + (IF inspection[r] = "GOOD" THEN oret[r].quantity ELSE 0)
  /\ books' = IF reduce THEN [books EXCEPT !.receivable = @ - amount]
                        ELSE [books EXCEPT !.cash = @ - amount]
  /\ oret' = [oret EXCEPT ![r].status = "COMPLETED",
                          ![r].settledBy = IF reduce THEN "RECEIVABLE" ELSE "PAYOUT"]
  /\ order' = IF full THEN [order EXCEPT !.status = "REFUNDED", !.payment = "REFUNDED"] ELSE order
  /\ UNCHANGED <<receipt, txn, pret, inspections>>
-----------------------------------------------------------------------------
(* Returns to the supplier *)

LivePurchaseReturns == {"REQUESTED", "COMPLETED"}
BackToSupplier == SumFunctionOnSet(Quantities(pret), InStatus(pret, LivePurchaseReturns))
BackToSupplierValue == SumFunctionOnSet(Amounts(pret), InStatus(pret, LivePurchaseReturns))

\* createPurchaseReturn with its outbound inspection; noted: the supplier's
\* credit note number is given.
RequestPurchaseReturn(p, quantity, noted) ==
  LET amount == Allocate(ReceiptTotal, BackToSupplierValue, ReceiptUnits, BackToSupplier, quantity) IN
  /\ pret[p].status = "NONE" /\ receipt = "CONFIRMED"
  /\ BackToSupplier + quantity <= ReceiptUnits /\ amount >= 0
  /\ pret' = [pret EXCEPT ![p] = [status |-> "REQUESTED", quantity |-> quantity,
        amount |-> amount, noted |-> noted, receivable |-> 0]]
  /\ inspection' = [inspection EXCEPT ![p] = "OPEN"]
  /\ UNCHANGED <<order, receipt, txn, oret, inspecting, books, onHand>>

\* Faulty variants: payments already posted do not shrink the debt; the offset
\* is not bounded by the return.
PayableOffsetUnpaid(p) ==
  LET open == Positive(ReceiptTotal - SentBack(PurchaseReturns \ {p})) IN
  IF pret[p].amount < open THEN pret[p].amount ELSE open

\* The part of a return that is still a debt; the rest is owed by the supplier.
\* Only posted payments count: drafts are checked again when they are posted.
PayableOffset(p) ==
  LET open == Positive(ReceiptTotal - SentBack(PurchaseReturns \ {p})
                       - Settled("GoodsReceipt")) IN
  IF pret[p].amount < open THEN pret[p].amount ELSE open

ConfirmPurchaseReturn(p, noted) ==
  LET offset == PayableOffset(p)
      receivable == pret[p].amount - offset
      note == noted \/ pret[p].noted IN
  /\ pret[p].status = "REQUESTED" /\ inspection[p] = "GOOD"
  /\ BackToSupplier <= ReceiptUnits
  /\ receivable > 0 => note
  /\ onHand >= pret[p].quantity
  /\ onHand' = onHand - pret[p].quantity
  /\ books' = [books EXCEPT !.payable = @ - offset, !.supplierReceivable = @ + receivable]
  /\ pret' = [pret EXCEPT ![p].status = "COMPLETED", ![p].noted = note,
                          ![p].receivable = receivable]
  /\ UNCHANGED <<order, receipt, txn, oret, inspections>>

\* A counter sale takes stock of the same product.
Sell ==
  /\ onHand > 0 /\ onHand' = onHand - 1
  /\ UNCHANGED <<order, receipt, txn, oret, pret, inspections, books>>
-----------------------------------------------------------------------------
Finance ==
  \/ \E t \in Txns, ref \in References, amount \in 1..(Total + ReceiptTotal),
       status \in {"DRAFT", "WAITING_APPROVAL"} : Draft(t, ref, amount, status)
  \/ \E t \in Txns :
       \/ Approve(t) \/ Reject(t) \/ Cancel(t)
       \/ PostReceipt(t) \/ PostPayment(t)
       \/ \E p \in PurchaseReturns : PostRefund(t, p)

CustomerReturn == \E r \in OrderReturns :
  \/ \E q \in 1..Units : RequestReturn(r, q)
  \/ StartReturnInspection(r) \/ RejectReturn(r)
  \/ \E original \in BOOLEAN : ConfirmReturn(r, original)

SupplierReturn == \E p \in PurchaseReturns :
  \/ \E q \in 1..ReceiptUnits, noted \in BOOLEAN : RequestPurchaseReturn(p, q, noted)
  \/ \E noted \in BOOLEAN : ConfirmPurchaseReturn(p, noted)

Inspection == \E r \in Returns :
  \/ BeginInspection(r)
  \/ \E outcome \in {"GOOD", "DAMAGED", "REJECTED"} : EndInspection(r, outcome)

Next == Deliver \/ Finance \/ CustomerReturn \/ SupplierReturn \/ Inspection \/ Sell
Spec == Init /\ [][Next]_vars
-----------------------------------------------------------------------------
(* Properties *)

Collected == IF order.method \in Credit THEN Settled("Order") ELSE Total

\* The debt to the supplier never turns negative, whatever the order in which
\* payments are drafted, approved and posted and returns are confirmed, and it
\* is what the snapshot shown to the next payment calls outstanding.
PayableNeverNegative ==
  /\ books.payable >= 0
  /\ receipt = "CONFIRMED" => books.payable = Positive(Owed("GoodsReceipt") - Settled("GoodsReceipt"))

\* What the supplier owes back (confirmPurchaseReturn) is refunded at most once
\* (post), and account 1202 holds what is still to come.
RefundsCovered ==
  /\ \A p \in PurchaseReturns : Settled(p) <= pret[p].receivable
  /\ books.supplierReceivable = SumFunction([p \in PurchaseReturns |-> pret[p].receivable - Settled(p)])

PayablesAgree == PayableNeverNegative /\ RefundsCovered

\* confirmOrderReturn closes order and payment together, and no receipt reopens them.
RefundedTogether == order.payment = "REFUNDED" <=> order.status = "REFUNDED"

\* The payment of a credit order is PAID exactly when receipts for the whole
\* total are posted and the order is not refunded, and receipts never exceed it
\* (post, confirmOrderReturn).
PaidMeansCollected ==
  /\ Collected <= Total
  /\ order.payment = "PAID" <=> Collected = Total /\ order.status # "REFUNDED"
  /\ RefundedTogether

\* Returns never pay a customer more than was collected for the order, although
\* confirmOrderReturn looks at the payment's status only and not at receipts.
NoRefundWithoutMoney ==
  SumFunctionOnSet(Amounts(oret), {r \in OrderReturns : oret[r].settledBy = "PAYOUT"}) <= Collected

PaymentsAreTrue == PaidMeansCollected /\ NoRefundWithoutMoney

\* However returns are requested, rejected and confirmed, no unit goes back
\* twice; when all are back, the rounded parts add up to the goods' gross and
\* the order is REFUNDED.
ReturnedOnce ==
  /\ Returned(Claiming) <= Units /\ ReturnedValue(Claiming) <= GoodsTotal
  /\ order.status = "REFUNDED" <=> Returned({"COMPLETED"}) = Units
  /\ Returned(Claiming) = Units => ReturnedValue(Claiming) = GoodsTotal
  /\ BackToSupplier <= ReceiptUnits /\ BackToSupplierValue <= ReceiptTotal

\* No return is settled by halves, nothing is claimed from a supplier before the
\* goods left and without a credit note, and every return still waiting for
\* its settlement has an inspection (confirmOrderReturn, confirmPurchaseReturn).
SettledWithCause ==
  /\ \A r \in OrderReturns :
       /\ oret[r].status = "COMPLETED" <=> oret[r].settledBy # "NONE"
       /\ oret[r].status \in {"INSPECTION", "COMPLETED"} => inspection[r] # "NONE"
  /\ \A p \in PurchaseReturns :
       pret[p].receivable > 0 => pret[p].status = "COMPLETED" /\ pret[p].noted

\* What a journal was posted for is never changed again: neither the finance
\* transaction nor the return, whichever handler runs next.
JournalledIsFinal ==
  [][/\ \A t \in Txns : txn[t].status = "POSTED" => txn'[t] = txn[t]
     /\ \A r \in OrderReturns : oret[r].status = "COMPLETED" => oret'[r] = oret[r]
     /\ \A p \in PurchaseReturns : pret[p].status = "COMPLETED" => pret'[p] = pret[p]]_vars

\* F7-FINANCE-COMPLETION.md: over-collection protection, the outstanding amount
\* is checked again when a receipt is posted.  A receipt should not take the
\* receivable account below zero.
NoOverCollection ==
  [][\A t \in Txns :
       txn[t].status # "POSTED" /\ txn'[t].status = "POSTED" /\ txn'[t].ref = "Order"
         => books'.receivable >= 0]_vars
=============================================================================
