---------------------------- MODULE Finance_proofs ----------------------------
(***************************************************************************)
(* What holds of returns and finance transactions for any number of them.  *)
(* First what the statuses of the rows say of each other, for which the    *)
(* amounts do not matter; then the sums over the rows, the balances that   *)
(* are kept beside them and the rounding of partial returns; at last the   *)
(* books for any calendar.                                                 *)
(***************************************************************************)
EXTENDS Finance, SumTheorems

OrderRow == [status : {"NONE", "SHIPPED", "COMPLETED", "REFUNDED"},
             method : {"COD", "INVOICE", "ELECTRONIC"}, payment : {"PENDING", "PAID", "REFUNDED"}]
TxnRows == [status : {"NONE", "DRAFT", "WAITING_APPROVAL", "APPROVED", "POSTED", "CANCELLED"},
            ref : References, amount : Nat]
\* Rows whose quantities and amounts are in V, whatever V is.
OrderReturnRows(V) ==
  [status : {"NONE", "REQUESTED", "INSPECTION", "COMPLETED", "REJECTED"},
   quantity : V, amount : V, settledBy : {"NONE", "PAYOUT", "RECEIVABLE"}]
PurchaseReturnRows(V) ==
  [status : {"NONE", "REQUESTED", "COMPLETED"}, quantity : V, amount : V, noted : BOOLEAN,
   receivable : V]

Decided == {"GOOD", "DAMAGED", "REJECTED"}

\* The rows keep their columns.
Shape ==
  /\ order \in OrderRow
  /\ txn \in [Txns -> TxnRows]
  /\ \E V : oret \in [OrderReturns -> OrderReturnRows(V)]
  /\ \E V : pret \in [PurchaseReturns -> PurchaseReturnRows(V)]
  /\ inspection \in [Returns -> {"NONE", "OPEN"} \cup Decided]

IInv == Shape /\ SettledWithCause /\ RefundedTogether

LEMMA InitInv == Init => IInv
<1> SUFFICES ASSUME Init PROVE IInv
  OBVIOUS
<1>1. txn \in [Txns -> TxnRows]
  BY DEF Init, NoTxn, TxnRows, References
<1>2. oret \in [OrderReturns -> OrderReturnRows({0})]
  BY DEF Init, NoOrderReturn, OrderReturnRows
<1>3. pret \in [PurchaseReturns -> PurchaseReturnRows({0})]
  BY DEF Init, NoPurchaseReturn, PurchaseReturnRows
<1>4. order \in OrderRow
  BY DEF Init, NoOrder, ShippedOrders, Credit, OrderRow
<1>5. SettledWithCause /\ RefundedTogether
  BY DEF Init, SettledWithCause, RefundedTogether, NoOrderReturn, NoPurchaseReturn,
         NoOrder, ShippedOrders
<1> QED
  BY <1>1, <1>2, <1>3, <1>4, <1>5 DEF IInv, Shape, Init

\* An inspection that was opened stays one.
InspectionsKept == \A r \in Returns : inspection[r] # "NONE" => inspection'[r] # "NONE"

\* A handler that touches one row of the returns, and keeps the reasons for
\* settling it, keeps the invariant.
LEMMA OrderReturnStep ==
  ASSUME IInv, NEW r \in OrderReturns, NEW V, oret' \in [OrderReturns -> OrderReturnRows(V)],
         \A other \in OrderReturns \ {r} : oret'[other] = oret[other],
         oret'[r].status \in {"INSPECTION", "COMPLETED"} => inspection'[r] # "NONE",
         oret'[r].status = "COMPLETED" <=> oret'[r].settledBy # "NONE",
         inspection' \in [Returns -> {"NONE", "OPEN"} \cup Decided], InspectionsKept,
         order' \in OrderRow, RefundedTogether', UNCHANGED <<txn, pret>>
  PROVE  IInv'
<1>1. SettledWithCause'
  BY DEF SettledWithCause, IInv, InspectionsKept, Returns
<1> QED
  BY <1>1 DEF IInv, Shape

LEMMA PurchaseReturnStep ==
  ASSUME IInv, NEW p \in PurchaseReturns, NEW V,
         pret' \in [PurchaseReturns -> PurchaseReturnRows(V)],
         \A other \in PurchaseReturns \ {p} : pret'[other] = pret[other],
         pret'[p].receivable > 0 => pret'[p].status = "COMPLETED" /\ pret'[p].noted,
         inspection' \in [Returns -> {"NONE", "OPEN"} \cup Decided], InspectionsKept,
         UNCHANGED <<order, txn, oret>>
  PROVE  IInv'
<1>1. SettledWithCause'
  BY DEF SettledWithCause, IInv, InspectionsKept, Returns
<1> QED
  BY <1>1 DEF IInv, Shape, RefundedTogether

LEMMA ReplaceTxn ==
  ASSUME NEW t \in Txns, NEW row \in TxnRows, txn \in [Txns -> TxnRows],
         txn' = [txn EXCEPT ![t] = row]
  PROVE  txn' \in [Txns -> TxnRows]
OBVIOUS

\* Each handler of a customer return replaces one row.
LEMMA CustomerReturnInv ==
  ASSUME IInv, CustomerReturn
  PROVE  IInv'
<1>0. /\ order \in OrderRow /\ SettledWithCause /\ RefundedTogether
      /\ inspection \in [Returns -> {"NONE", "OPEN"} \cup Decided]
  BY DEF IInv, Shape
<1> PICK r \in OrderReturns :
      \/ \E q \in 1..Units : RequestReturn(r, q)
      \/ StartReturnInspection(r) \/ RejectReturn(r)
      \/ \E original \in BOOLEAN : ConfirmReturn(r, original)
  BY DEF CustomerReturn
<1> PICK V : oret \in [OrderReturns -> OrderReturnRows(V)]
  BY DEF IInv, Shape
<1>1. ASSUME NEW q, RequestReturn(r, q) PROVE IInv'
  <2>1. PICK a : oret' = [oret EXCEPT ![r] =
          [status |-> "REQUESTED", quantity |-> q, amount |-> a, settledBy |-> "NONE"]]
    BY <1>1 DEF RequestReturn
  <2> DEFINE W == V \cup {q, a}
  <2>2. OrderReturnRows(V) \subseteq OrderReturnRows(W)
    BY DEF OrderReturnRows
  <2>3. [status |-> "REQUESTED", quantity |-> q, amount |-> a, settledBy |-> "NONE"]
          \in OrderReturnRows(W)
    BY DEF OrderReturnRows
  <2>4. /\ oret'[r].status = "REQUESTED" /\ oret'[r].settledBy = "NONE"
        /\ \A other \in OrderReturns \ {r} : oret'[other] = oret[other]
    BY <2>1
  <2> HIDE DEF W
  <2>5. oret' \in [OrderReturns -> OrderReturnRows(W)]
    BY <2>1, <2>2, <2>3
  <2>6. order' \in OrderRow /\ RefundedTogether' /\ UNCHANGED <<txn, pret>>
    BY <1>0, <1>1 DEF RequestReturn, RefundedTogether
  <2>7. UNCHANGED inspection
    BY <1>1 DEF RequestReturn, inspections
  <2> QED
    BY <1>0, <2>4, <2>5, <2>6, <2>7, OrderReturnStep DEF InspectionsKept
<1>2. ASSUME NEW status \in {"INSPECTION", "REJECTED"},
             NEW decision \in {"OPEN"} \cup Decided \cup {inspection[r]},
             status = "INSPECTION" => decision # "NONE",
             inspection[r] # "NONE" => decision # "NONE",
             oret[r].status # "COMPLETED",
             oret' = [oret EXCEPT ![r].status = status],
             inspection' = [inspection EXCEPT ![r] = decision],
             UNCHANGED <<order, txn, pret>>
      PROVE  IInv'
  <2>1. oret' \in [OrderReturns -> OrderReturnRows(V)]
    BY <1>2 DEF OrderReturnRows
  <2>2. /\ oret'[r].status = status /\ oret'[r].settledBy = "NONE"
        /\ \A other \in OrderReturns \ {r} : oret'[other] = oret[other]
    BY <1>0, <1>2 DEF OrderReturnRows, SettledWithCause
  <2>3. order' \in OrderRow /\ RefundedTogether'
    BY <1>0, <1>2 DEF RefundedTogether
  <2>4. r \in Returns
    BY DEF Returns
  <2>5. inspection[r] \in {"NONE", "OPEN"} \cup Decided
    BY <1>0, <2>4
  <2>6. inspection' \in [Returns -> {"NONE", "OPEN"} \cup Decided]
    BY <1>0, <1>2, <2>5
  <2>7. InspectionsKept /\ inspection'[r] = decision
    BY <1>0, <1>2, <2>4 DEF InspectionsKept
  <2> QED
    BY <1>2, <2>1, <2>2, <2>3, <2>6, <2>7, OrderReturnStep
<1>3. ASSUME StartReturnInspection(r) PROVE IInv'
  BY <1>2, <1>3 DEF StartReturnInspection
<1>4. ASSUME RejectReturn(r) PROVE IInv'
  <2> DEFINE decision == IF inspection[r] = "OPEN" THEN "REJECTED" ELSE inspection[r]
  <2>1. inspection' = [inspection EXCEPT ![r] = decision]
    BY <1>4 DEF RejectReturn
  <2>2. /\ decision \in {"OPEN"} \cup Decided \cup {inspection[r]}
        /\ inspection[r] # "NONE" => decision # "NONE"
    BY DEF Decided
  <2>3. /\ oret[r].status # "COMPLETED" /\ oret' = [oret EXCEPT ![r].status = "REJECTED"]
        /\ UNCHANGED <<order, txn, pret>>
    BY <1>4 DEF RejectReturn
  <2> HIDE DEF decision
  <2> QED
    BY <1>2, <2>1, <2>2, <2>3
<1>5. ASSUME NEW original, ConfirmReturn(r, original) PROVE IInv'
  <2>1. PICK how \in {"PAYOUT", "RECEIVABLE"} :
          oret' = [oret EXCEPT ![r].status = "COMPLETED", ![r].settledBy = how]
    BY <1>5 DEF ConfirmReturn
  <2>2. oret' \in [OrderReturns -> OrderReturnRows(V)]
    BY <2>1 DEF OrderReturnRows
  <2>3. inspection[r] \in {"GOOD", "DAMAGED"}
    BY <1>5 DEF ConfirmReturn
  <2>4. /\ oret'[r].settledBy # "NONE" /\ oret'[r].status = "COMPLETED"
        /\ \A other \in OrderReturns \ {r} : oret'[other] = oret[other]
    BY <2>1 DEF OrderReturnRows
  <2>5. order' \in OrderRow /\ RefundedTogether'
    BY <1>0, <1>5 DEF ConfirmReturn, OrderRow, RefundedTogether
  <2>6. UNCHANGED <<txn, pret, inspection>>
    BY <1>5 DEF ConfirmReturn, inspections
  <2> QED
    BY <1>0, <2>2, <2>3, <2>4, <2>5, <2>6, OrderReturnStep DEF InspectionsKept
<1> QED
  BY <1>1, <1>3, <1>4, <1>5

\* Each handler of a return to the supplier replaces one row.
LEMMA SupplierReturnInv ==
  ASSUME IInv, SupplierReturn
  PROVE  IInv'
<1>0. SettledWithCause /\ inspection \in [Returns -> {"NONE", "OPEN"} \cup Decided]
  BY DEF IInv, Shape
<1> PICK p \in PurchaseReturns :
      \/ \E q \in 1..ReceiptUnits, noted \in BOOLEAN : RequestPurchaseReturn(p, q, noted)
      \/ \E noted \in BOOLEAN : ConfirmPurchaseReturn(p, noted)
  BY DEF SupplierReturn
<1> PICK V : pret \in [PurchaseReturns -> PurchaseReturnRows(V)]
  BY DEF IInv, Shape
<1>1. ASSUME NEW q, NEW noted \in BOOLEAN, RequestPurchaseReturn(p, q, noted) PROVE IInv'
  <2>1. PICK a : pret' = [pret EXCEPT ![p] =
          [status |-> "REQUESTED", quantity |-> q, amount |-> a, noted |-> noted,
           receivable |-> 0]]
    BY <1>1 DEF RequestPurchaseReturn
  <2> DEFINE W == V \cup {q, a, 0}
  <2>2. PurchaseReturnRows(V) \subseteq PurchaseReturnRows(W)
    BY DEF PurchaseReturnRows
  <2>3. [status |-> "REQUESTED", quantity |-> q, amount |-> a, noted |-> noted,
         receivable |-> 0] \in PurchaseReturnRows(W)
    BY DEF PurchaseReturnRows
  <2>4. /\ pret'[p].status = "REQUESTED" /\ pret'[p].receivable = 0
        /\ \A other \in PurchaseReturns \ {p} : pret'[other] = pret[other]
    BY <2>1
  <2> HIDE DEF W
  <2>5. pret' \in [PurchaseReturns -> PurchaseReturnRows(W)]
    BY <2>1, <2>2, <2>3
  <2>6. UNCHANGED <<order, txn, oret>>
    BY <1>1 DEF RequestPurchaseReturn
  <2>7. inspection' \in [Returns -> {"NONE", "OPEN"} \cup Decided] /\ InspectionsKept
    BY <1>0, <1>1 DEF RequestPurchaseReturn, InspectionsKept
  <2> QED
    BY <2>4, <2>5, <2>6, <2>7, PurchaseReturnStep
<1>2. ASSUME NEW noted \in BOOLEAN, ConfirmPurchaseReturn(p, noted) PROVE IInv'
  <2> DEFINE note == noted \/ pret[p].noted
             receivable == pret[p].amount - PayableOffset(p)
  <2>1. /\ note \in BOOLEAN
        /\ pret' = [pret EXCEPT ![p].status = "COMPLETED", ![p].noted = note,
                               ![p].receivable = receivable]
        /\ receivable > 0 => note
    <3>1. note \in BOOLEAN
      OBVIOUS
    <3>2. pret' = [pret EXCEPT ![p].status = "COMPLETED", ![p].noted = note,
                               ![p].receivable = receivable]
      BY <1>2, Zenon DEF ConfirmPurchaseReturn
    <3>3. receivable > 0 => note
      BY <1>2, Zenon DEF ConfirmPurchaseReturn
    <3> QED
      BY <3>1, <3>2, <3>3
  <2> HIDE DEF note, receivable
  <2> DEFINE W == V \cup {receivable}
  <2>2. PurchaseReturnRows(V) \subseteq PurchaseReturnRows(W)
    BY DEF PurchaseReturnRows
  <2>3. receivable \in W
    OBVIOUS
  <2> HIDE DEF W
  <2>4. pret' \in [PurchaseReturns -> PurchaseReturnRows(W)]
    <3>1. pret \in [PurchaseReturns -> PurchaseReturnRows(W)]
      BY <2>2
    <3>2. pret[p] \in PurchaseReturnRows(W) /\ pret[p] \in PurchaseReturnRows(V)
      BY <3>1
    <3>3. [status |-> "COMPLETED", quantity |-> pret[p].quantity, amount |-> pret[p].amount,
           noted |-> note, receivable |-> receivable]
            \in PurchaseReturnRows(W)
      BY <2>1, <2>3, <3>2 DEF PurchaseReturnRows
    <3>4. pret'[p] = [status |-> "COMPLETED", quantity |-> pret[p].quantity, amount |-> pret[p].amount,
                      noted |-> note, receivable |-> receivable]
      BY <2>1, <3>2 DEF PurchaseReturnRows
    <3>5. pret' = [pret EXCEPT ![p] = pret'[p]]
      BY <2>1
    <3> QED
      BY <3>1, <3>3, <3>4, <3>5
  <2>5. UNCHANGED <<order, txn, oret, inspection>>
    BY <1>2 DEF ConfirmPurchaseReturn, inspections
  <2>6. /\ pret'[p].status = "COMPLETED"
        /\ pret'[p].receivable > 0 => pret'[p].noted
        /\ \A other \in PurchaseReturns \ {p} : pret'[other] = pret[other]
    BY <2>1 DEF PurchaseReturnRows
  <2> QED
    BY <1>0, <2>4, <2>5, <2>6, PurchaseReturnStep DEF InspectionsKept
<1> QED
  BY <1>1, <1>2

\* One step per handler.  The finance handlers leave the returns alone, and
\* only a receipt of an order that is not refunded touches the payment.
LEMMA NextInv == IInv /\ [Next]_vars => IInv'
<1> SUFFICES ASSUME IInv, [Next]_vars PROVE IInv'
  OBVIOUS
<1> USE DEF IInv, Shape
<1>1. CASE UNCHANGED vars
  BY <1>1 DEF vars, inspections, SettledWithCause, RefundedTogether
<1>2. CASE Deliver \/ Sell
  <2>1. UNCHANGED <<txn, oret, pret, inspection>>
    BY <1>2 DEF Deliver, Sell, inspections
  <2>2. order' \in OrderRow /\ RefundedTogether'
    BY <1>2 DEF Deliver, Sell, OrderRow, RefundedTogether
  <2> QED
    BY <2>1, <2>2 DEF SettledWithCause
<1>3. CASE Finance
  <2> SUFFICES txn' \in [Txns -> TxnRows] /\ order' \in OrderRow /\ RefundedTogether'
               /\ UNCHANGED <<oret, pret, inspection>>
    BY DEF SettledWithCause
  <2>1. ASSUME NEW t \in Txns, NEW ref \in References, NEW amount \in 1..(Total + ReceiptTotal),
               NEW status \in {"DRAFT", "WAITING_APPROVAL"}, Draft(t, ref, amount, status)
        PROVE  txn' \in [Txns -> TxnRows] /\ UNCHANGED <<oret, pret, inspection, order>>
    <3>1. [status |-> status, ref |-> ref, amount |-> amount] \in TxnRows
      BY DEF TxnRows
    <3> QED
      BY <2>1, <3>1, ReplaceTxn DEF Draft, inspections
  <2>2. ASSUME NEW t \in Txns, NEW status \in {"APPROVED", "POSTED", "CANCELLED"},
               txn' = [txn EXCEPT ![t].status = status]
        PROVE  txn' \in [Txns -> TxnRows]
    BY <2>2 DEF TxnRows
  <2>3. ASSUME NEW t \in Txns, Approve(t) \/ Reject(t) \/ Cancel(t)
        PROVE  txn' \in [Txns -> TxnRows] /\ UNCHANGED <<oret, pret, inspection, order>>
    BY <2>2, <2>3 DEF Approve, Reject, Cancel, Mark, inspections
  <2>4. ASSUME NEW t \in Txns, PostReceipt(t)
        PROVE  /\ txn' \in [Txns -> TxnRows] /\ UNCHANGED <<oret, pret, inspection>>
               /\ order' \in OrderRow /\ RefundedTogether'
    <3>1. order.status \in {"SHIPPED", "COMPLETED"}
      BY <2>4 DEF PostReceipt, Post, Settleable
    <3>2. order' = order \/ order' = [order EXCEPT !.payment = "PAID"]
      BY <2>4 DEF PostReceipt, OrderRow
    <3>3. order' \in OrderRow /\ RefundedTogether'
      BY <3>1, <3>2 DEF OrderRow, RefundedTogether
    <3> QED
      BY <2>2, <2>4, <3>3 DEF PostReceipt, Post, inspections
  <2>5. ASSUME NEW t \in Txns, PostPayment(t) \/ \E p \in PurchaseReturns : PostRefund(t, p)
        PROVE  txn' \in [Txns -> TxnRows] /\ UNCHANGED <<oret, pret, inspection, order>>
    BY <2>2, <2>5 DEF PostPayment, PostRefund, Post, inspections
  <2> QED
    BY <1>3, <2>1, <2>3, <2>4, <2>5 DEF Finance, RefundedTogether
<1>4. CASE CustomerReturn
  BY <1>4, CustomerReturnInv
<1>5. CASE SupplierReturn
  BY <1>5, SupplierReturnInv
<1>6. CASE Inspection
  <2>1. UNCHANGED <<order, txn, oret, pret>>
    BY <1>6 DEF Inspection, BeginInspection, EndInspection
  <2>2. inspection' \in [Returns -> {"NONE", "OPEN"} \cup Decided] /\ InspectionsKept
    BY <1>6 DEF Inspection, BeginInspection, EndInspection, InspectionsKept, Decided
  <2>3. SettledWithCause'
    BY <2>1, <2>2 DEF SettledWithCause, InspectionsKept, Returns
  <2> QED
    BY <2>1, <2>2, <2>3 DEF RefundedTogether
<1> QED
  BY <1>1, <1>2, <1>3, <1>4, <1>5, <1>6 DEF Next

\* No handler writes a row a journal was posted for: each of them looks
\* at the status of the row it writes.
LEMMA FinalStep ==
  ASSUME IInv, Next
  PROVE  /\ \A t \in Txns : txn[t].status = "POSTED" => txn'[t] = txn[t]
         /\ \A r \in OrderReturns : oret[r].status = "COMPLETED" => oret'[r] = oret[r]
         /\ \A p \in PurchaseReturns : pret[p].status = "COMPLETED" => pret'[p] = pret[p]
<1>1. txn \in [Txns -> TxnRows]
  BY DEF IInv, Shape
<1>2. CASE Deliver \/ Sell
  BY <1>2 DEF Deliver, Sell
<1>3. CASE Finance
  <2>1. PICK t \in Txns :
          \/ \E ref \in References, amount \in 1..(Total + ReceiptTotal),
               status \in {"DRAFT", "WAITING_APPROVAL"} : Draft(t, ref, amount, status)
          \/ Approve(t) \/ Reject(t) \/ Cancel(t)
          \/ PostReceipt(t) \/ PostPayment(t)
          \/ \E p \in PurchaseReturns : PostRefund(t, p)
    BY <1>3 DEF Finance
  <2>2. txn[t].status # "POSTED" /\ UNCHANGED <<oret, pret>>
    BY <2>1 DEF Draft, Approve, Reject, Cancel, Mark, Pending, PostReceipt, PostPayment, PostRefund, Post
  <2>3. \/ \E row : txn' = [txn EXCEPT ![t] = row]
        \/ \E status : txn' = [txn EXCEPT ![t].status = status]
    BY <2>1 DEF Draft, Approve, Reject, Cancel, Mark, PostReceipt, PostPayment, PostRefund, Post
  <2>4. \A other \in Txns \ {t} : txn'[other] = txn[other]
    BY <1>1, <2>3
  <2> QED
    BY <2>2, <2>4
<1>4. CASE CustomerReturn
  <2> PICK V : oret \in [OrderReturns -> OrderReturnRows(V)]
    BY DEF IInv, Shape
  <2>1. PICK r \in OrderReturns :
          \/ \E q \in 1..Units : RequestReturn(r, q)
          \/ StartReturnInspection(r) \/ RejectReturn(r)
          \/ \E original \in BOOLEAN : ConfirmReturn(r, original)
    BY <1>4 DEF CustomerReturn
  <2>2. oret[r].status # "COMPLETED" /\ UNCHANGED <<txn, pret>>
    BY <2>1 DEF RequestReturn, StartReturnInspection, RejectReturn, ConfirmReturn
  <2>3. \A other \in OrderReturns \ {r} : oret'[other] = oret[other]
    BY <2>1 DEF RequestReturn, StartReturnInspection, RejectReturn, ConfirmReturn
  <2> QED
    BY <2>2, <2>3
<1>5. CASE SupplierReturn
  <2> PICK V : pret \in [PurchaseReturns -> PurchaseReturnRows(V)]
    BY DEF IInv, Shape
  <2>1. PICK p \in PurchaseReturns :
          \/ \E q \in 1..ReceiptUnits, noted \in BOOLEAN : RequestPurchaseReturn(p, q, noted)
          \/ \E noted \in BOOLEAN : ConfirmPurchaseReturn(p, noted)
    BY <1>5 DEF SupplierReturn
  <2>2. pret[p].status # "COMPLETED" /\ UNCHANGED <<txn, oret>>
    BY <2>1 DEF RequestPurchaseReturn, ConfirmPurchaseReturn
  <2>3. \A other \in PurchaseReturns \ {p} : pret'[other] = pret[other]
    BY <2>1 DEF RequestPurchaseReturn, ConfirmPurchaseReturn
  <2> QED
    BY <2>2, <2>3
<1>6. CASE Inspection
  BY <1>6 DEF Inspection, BeginInspection, EndInspection
<1> QED
  BY <1>2, <1>3, <1>4, <1>5, <1>6 DEF Next

\* The invariant of every reachable state.
THEOREM Invariance == Spec => []IInv
BY InitInv, NextInv, PTL DEF Spec

\* Whatever late inspectors write and whoever retries confirmOrderReturn or
\* confirmPurchaseReturn: no return is settled by halves or without an
\* inspection, and nothing is claimed from a supplier without a credit note.
THEOREM SettledWithCauseHolds == Spec => []SettledWithCause
<1>1. IInv => SettledWithCause
  BY DEF IInv
<1> QED
  BY <1>1, Invariance, PTL

\* An order and its payment are refunded together (confirmOrderReturn), and no
\* receipt posted later (post) takes the payment back to PAID.
THEOREM RefundedTogetherHolds == Spec => []RefundedTogether
<1>1. IInv => RefundedTogether
  BY DEF IInv
<1> QED
  BY <1>1, Invariance, PTL

\* A posted finance transaction and a confirmed return are never written again,
\* whichever handler runs next.
THEOREM JournalledIsFinalHolds == Spec => JournalledIsFinal
<1>1. IInv /\ [Next]_vars =>
        [/\ \A t \in Txns : txn[t].status = "POSTED" => txn'[t] = txn[t]
         /\ \A r \in OrderReturns : oret[r].status = "COMPLETED" => oret'[r] = oret[r]
         /\ \A p \in PurchaseReturns : pret[p].status = "COMPLETED" => pret'[p] = pret[p]]_vars
  BY FinalStep
<1> QED
  BY <1>1, Invariance, PTL DEF Spec, JournalledIsFinal

-----------------------------------------------------------------------------
(***************************************************************************)
(* The sums of the settlement.  A part of a document that goes back is     *)
(* priced in proportion and rounded, the last part takes what is left; and *)
(* because parts can be rejected and asked for again, what is left may be  *)
(* any sum of earlier roundings.  Each request adds at most half a unit of *)
(* money to what any set of parts can be away from its proportion.         *)
(***************************************************************************)

\* Those of the parts that count never are further from their proportion than
\* half a unit of money for each request ever made (in multiples of 2 * units).
SharedFairly(rows, statuses, total, units) ==
  \A A \in SUBSET InStatus(rows, statuses) :
    LET value == SumFunctionOnSet(Amounts(rows), A)
        quantity == SumFunctionOnSet(Quantities(rows), A)
        requests == Cardinality({r \in DOMAIN rows : rows[r].status # "NONE"})
    IN  /\ 2 * (units * value) <= 2 * (total * quantity) + units * requests
        /\ 2 * (total * quantity) <= 2 * (units * value) + units * requests

\* Parts of a document: their quantities and amounts are naturals.
AreParts(rows, S) ==
  /\ IsFiniteSet(S) /\ DOMAIN rows = S
  /\ \A r \in S : rows[r].quantity \in Nat /\ rows[r].amount \in Nat

LEMMA PartSums ==
  ASSUME NEW rows, NEW S, AreParts(rows, S), NEW A \in SUBSET S
  PROVE  SumFunctionOnSet(Amounts(rows), A) \in Nat /\ SumFunctionOnSet(Quantities(rows), A) \in Nat
<1>1. IsFiniteSet(A)
  BY FS_Subset DEF AreParts
<1>2. \A r \in A : Amounts(rows)[r] \in Nat /\ Quantities(rows)[r] \in Nat
  BY DEF AreParts, Amounts, Quantities
<1> QED BY <1>1, <1>2, SumNat

LEMMA RequestsCounted ==
  ASSUME NEW rows, NEW S, IsFiniteSet(S), DOMAIN rows = S
  PROVE  /\ Cardinality({r \in DOMAIN rows : rows[r].status # "NONE"}) \in Nat
         /\ Cardinality({r \in DOMAIN rows : rows[r].status # "NONE"}) <= Cardinality(S)
BY FS_Subset, FS_CardinalityType

\* Rounding to the nearest: twice the rest is at most the divisor.
LEMMA RoundedHalfUp ==
  ASSUME NEW n \in Nat, NEW d \in Nat \ {0}
  PROVE  LET a == (2 * n + d) \div (2 * d) IN
         a \in Nat /\ 2 * (d * a) <= 2 * n + d /\ 2 * n <= 2 * (d * a) + d
<1> DEFINE x == 2 * n + d
           y == 2 * d
<1>1. x \in Nat /\ y \in Nat \ {0}
  OBVIOUS
<1> HIDE DEF x, y
<1> DEFINE a == x \div y
<1>2. a \in Nat
  BY <1>1
<1>3. y * a <= x /\ x < y * a + y
  BY <1>1
<1> HIDE DEF a
<1>4. y * a = 2 * (d * a)
  BY <1>2 DEF y
<1>5. d * a \in Nat
  BY <1>2
<1>6. 2 * (d * a) <= 2 * n + d /\ 2 * n <= 2 * (d * a) + d
  <2> DEFINE p == d * a
  <2>1. p \in Nat /\ 2 * p <= x /\ x < 2 * p + y
    BY <1>3, <1>4, <1>5
  <2> HIDE DEF p
  <2>2. 2 * p <= 2 * n + d /\ 2 * n <= 2 * p + d
    BY <2>1 DEF x, y
  <2> QED BY <2>2 DEF p
<1> QED BY <1>2, <1>6 DEF a, x, y

LEMMA SharesAdd ==
  ASSUME NEW U \in Nat, NEW T \in Nat, NEW v \in Nat, NEW q \in Nat, NEW m \in Nat, NEW k \in Nat,
         NEW n \in Nat,
         2 * (U * v) <= 2 * (T * q) + U * n, 2 * (T * q) <= 2 * (U * v) + U * n,
         2 * (U * m) <= 2 * (T * k) + U, 2 * (T * k) <= 2 * (U * m) + U
  PROVE  /\ 2 * (U * (v + m)) <= 2 * (T * (q + k)) + U * (n + 1)
         /\ 2 * (T * (q + k)) <= 2 * (U * (v + m)) + U * (n + 1)
<1> DEFINE a == U * v
           b == T * q
           c == U * m
           d == T * k
           e == U * n
<1>1. U * (v + m) = a + c /\ T * (q + k) = b + d /\ U * (n + 1) = e + U
  OBVIOUS
<1>2. a \in Int /\ b \in Int /\ c \in Int /\ d \in Int /\ e \in Int
  OBVIOUS
<1>3. 2 * a <= 2 * b + e /\ 2 * b <= 2 * a + e /\ 2 * c <= 2 * d + U /\ 2 * d <= 2 * c + U
  OBVIOUS
<1> HIDE DEF a, b, c, d, e
<1>4. 2 * (a + c) <= 2 * (b + d) + (e + U) /\ 2 * (b + d) <= 2 * (a + c) + (e + U)
  BY <1>2, <1>3
<1> QED BY <1>1, <1>4

LEMMA SharesOfRest ==
  ASSUME NEW U \in Nat, NEW T \in Nat, NEW v \in Nat, NEW q \in Nat, NEW n \in Nat,
         2 * (U * v) <= 2 * (T * q) + U * n, 2 * (T * q) <= 2 * (U * v) + U * n
  PROVE  /\ 2 * (U * (T - v)) <= 2 * (T * (U - q)) + U * (n + 1)
         /\ 2 * (T * (U - q)) <= 2 * (U * (T - v)) + U * (n + 1)
<1> DEFINE a == U * v
           b == T * q
           c == U * T
           e == U * n
<1>1. U * (T - v) = c - a /\ T * (U - q) = c - b /\ U * (n + 1) = e + U
  OBVIOUS
<1>2. a \in Int /\ b \in Int /\ c \in Int /\ e \in Int
  OBVIOUS
<1>3. 2 * a <= 2 * b + e /\ 2 * b <= 2 * a + e
  OBVIOUS
<1> HIDE DEF a, b, c, e
<1>4. 2 * (c - a) <= 2 * (c - b) + (e + U) /\ 2 * (c - b) <= 2 * (c - a) + (e + U)
  BY <1>2, <1>3
<1> QED BY <1>1, <1>4

\* The part asked for: one row begins to count, with the price Allocate gives it.
Requested(rows, more, x, statuses, total, units, S) ==
  /\ AreParts(rows, S) /\ AreParts(more, S) /\ x \in S
  /\ \A y \in S \ {x} : more[y] = rows[y]
  /\ "NONE" \notin statuses /\ rows[x].status = "NONE" /\ more[x].status \in statuses
  /\ total \in Nat /\ units \in Nat \ {0}
  /\ LET used == SumFunctionOnSet(Quantities(rows), InStatus(rows, statuses))
         allocated == SumFunctionOnSet(Amounts(rows), InStatus(rows, statuses))
     IN  /\ more[x].quantity > 0 /\ used + more[x].quantity <= units
         /\ more[x].amount = Allocate(total, allocated, units, used, more[x].quantity)

LEMMA RequestCounts ==
  ASSUME NEW rows, NEW more, NEW x, NEW statuses, NEW total, NEW units, NEW S,
         Requested(rows, more, x, statuses, total, units, S)
  PROVE  /\ x \notin InStatus(rows, statuses)
         /\ InStatus(more, statuses) = InStatus(rows, statuses) \cup {x}
         /\ InStatus(more, statuses) \subseteq S
         /\ Cardinality({r \in DOMAIN more : more[r].status # "NONE"})
              = Cardinality({r \in DOMAIN rows : rows[r].status # "NONE"}) + 1
         /\ \A A \in SUBSET InStatus(rows, statuses) :
              /\ SumFunctionOnSet(Amounts(more), A) = SumFunctionOnSet(Amounts(rows), A)
              /\ SumFunctionOnSet(Quantities(more), A) = SumFunctionOnSet(Quantities(rows), A)
              /\ SumFunctionOnSet(Amounts(more), A \cup {x})
                   = SumFunctionOnSet(Amounts(rows), A) + more[x].amount
              /\ SumFunctionOnSet(Quantities(more), A \cup {x})
                   = SumFunctionOnSet(Quantities(rows), A) + more[x].quantity
<1>0. AreParts(rows, S) /\ AreParts(more, S) /\ x \in S /\ \A y \in S \ {x} : more[y] = rows[y]
  BY DEF Requested
<1>1. /\ x \notin InStatus(rows, statuses)
      /\ InStatus(more, statuses) = InStatus(rows, statuses) \cup {x}
      /\ InStatus(more, statuses) \subseteq S
  BY DEF Requested, InStatus, AreParts
<1>2. Cardinality({r \in DOMAIN more : more[r].status # "NONE"})
        = Cardinality({r \in DOMAIN rows : rows[r].status # "NONE"}) + 1
  <2> DEFINE R == {r \in DOMAIN rows : rows[r].status # "NONE"}
  <2>1. IsFiniteSet(R) /\ x \notin R /\ {r \in DOMAIN more : more[r].status # "NONE"} = R \cup {x}
    <3>1. IsFiniteSet(R)
      BY FS_Subset, <1>0 DEF AreParts
    <3>2. x \notin R /\ {r \in DOMAIN more : more[r].status # "NONE"} = R \cup {x}
      BY DEF Requested, AreParts
    <3> QED BY <3>1, <3>2
  <2> HIDE DEF R
  <2>2. Cardinality(R \cup {x}) = Cardinality(R) + 1
    BY <2>1, FS_AddElement
  <2> QED BY <2>1, <2>2 DEF R
<1>3. ASSUME NEW A \in SUBSET InStatus(rows, statuses)
      PROVE  /\ SumFunctionOnSet(Amounts(more), A) = SumFunctionOnSet(Amounts(rows), A)
             /\ SumFunctionOnSet(Quantities(more), A) = SumFunctionOnSet(Quantities(rows), A)
             /\ SumFunctionOnSet(Amounts(more), A \cup {x})
                  = SumFunctionOnSet(Amounts(rows), A) + more[x].amount
             /\ SumFunctionOnSet(Quantities(more), A \cup {x})
                  = SumFunctionOnSet(Quantities(rows), A) + more[x].quantity
  <2>1. A \in SUBSET S /\ x \notin A
    BY <1>1
  <2>2. IsFiniteSet(A)
    BY <1>0, <2>1, FS_Subset DEF AreParts
  <2>3. /\ \A y \in A : Amounts(more)[y] = Amounts(rows)[y] /\ Quantities(more)[y] = Quantities(rows)[y]
        /\ \A y \in A \cup {x} : Amounts(more)[y] \in Int /\ Quantities(more)[y] \in Int
        /\ Amounts(more)[x] = more[x].amount /\ Quantities(more)[x] = more[x].quantity
    BY <1>0, <2>1 DEF AreParts, Amounts, Quantities
  <2>4. /\ SumFunctionOnSet(Amounts(more), A) = SumFunctionOnSet(Amounts(rows), A)
        /\ SumFunctionOnSet(Quantities(more), A) = SumFunctionOnSet(Quantities(rows), A)
    BY <2>2, <2>3, SumAgree
  <2> DEFINE f == Amounts(more)
             g == Quantities(more)
  <2>a. (\A y \in A \cup {x} : f[y] \in Int) /\ (\A y \in A \cup {x} : g[y] \in Int)
    BY <2>3
  <2> HIDE DEF f, g
  <2>5. SumFunctionOnSet(f, A \cup {x}) = SumFunctionOnSet(f, A) + f[x]
    BY <2>1, <2>2, <2>a, SumAdded
  <2>6. SumFunctionOnSet(g, A \cup {x}) = SumFunctionOnSet(g, A) + g[x]
    BY <2>1, <2>2, <2>a, SumAdded
  <2> USE DEF f, g
  <2> QED BY <2>3, <2>4, <2>5, <2>6
<1> QED BY <1>1, <1>2, <1>3

\* After a request the parts are still shared fairly, and if it takes the last
\* units, nothing of the document's amount is left.
LEMMA RequestShares ==
  ASSUME NEW rows, NEW more, NEW x, NEW statuses, NEW total, NEW units, NEW S,
         Requested(rows, more, x, statuses, total, units, S), SharedFairly(rows, statuses, total, units)
  PROVE  /\ SharedFairly(more, statuses, total, units)
         /\ LET used == SumFunctionOnSet(Quantities(rows), InStatus(rows, statuses))
                allocated == SumFunctionOnSet(Amounts(rows), InStatus(rows, statuses))
            IN  /\ SumFunctionOnSet(Quantities(more), InStatus(more, statuses)) = used + more[x].quantity
                /\ SumFunctionOnSet(Amounts(more), InStatus(more, statuses)) = allocated + more[x].amount
                /\ used + more[x].quantity = units => allocated + more[x].amount = total
<1> DEFINE C == InStatus(rows, statuses)
           m == more[x].amount
           k == more[x].quantity
           used == SumFunctionOnSet(Quantities(rows), C)
           allocated == SumFunctionOnSet(Amounts(rows), C)
           n == Cardinality({r \in DOMAIN rows : rows[r].status # "NONE"})
<1>1. /\ AreParts(rows, S) /\ AreParts(more, S) /\ x \in S /\ C \in SUBSET S
      /\ total \in Nat /\ units \in Nat \ {0} /\ units \in Nat
      /\ k > 0 /\ used + k <= units /\ m = Allocate(total, allocated, units, used, k)
  <2>1. C \in SUBSET S
    BY DEF Requested, InStatus, AreParts
  <2> QED BY <2>1 DEF Requested
<1>2. m \in Nat /\ k \in Nat /\ used \in Nat /\ allocated \in Nat /\ n \in Nat
  <2>1. m \in Nat /\ k \in Nat
    BY <1>1 DEF AreParts
  <2>2. used \in Nat /\ allocated \in Nat
    BY <1>1, PartSums
  <2>3. n \in Nat
    BY <1>1, RequestsCounted DEF AreParts
  <2> QED BY <2>1, <2>2, <2>3
<1>3. /\ x \notin C /\ InStatus(more, statuses) = C \cup {x}
      /\ Cardinality({r \in DOMAIN more : more[r].status # "NONE"}) = n + 1
      /\ \A A \in SUBSET C :
           /\ SumFunctionOnSet(Amounts(more), A) = SumFunctionOnSet(Amounts(rows), A)
           /\ SumFunctionOnSet(Quantities(more), A) = SumFunctionOnSet(Quantities(rows), A)
           /\ SumFunctionOnSet(Amounts(more), A \cup {x}) = SumFunctionOnSet(Amounts(rows), A) + m
           /\ SumFunctionOnSet(Quantities(more), A \cup {x}) = SumFunctionOnSet(Quantities(rows), A) + k
  <2>1. /\ x \notin C /\ InStatus(more, statuses) = C \cup {x}
        /\ Cardinality({r \in DOMAIN more : more[r].status # "NONE"}) = n + 1
    BY RequestCounts
  <2>2. ASSUME NEW A \in SUBSET C
        PROVE  /\ SumFunctionOnSet(Amounts(more), A) = SumFunctionOnSet(Amounts(rows), A)
               /\ SumFunctionOnSet(Quantities(more), A) = SumFunctionOnSet(Quantities(rows), A)
               /\ SumFunctionOnSet(Amounts(more), A \cup {x}) = SumFunctionOnSet(Amounts(rows), A) + m
               /\ SumFunctionOnSet(Quantities(more), A \cup {x}) = SumFunctionOnSet(Quantities(rows), A) + k
    <3>1. A \in SUBSET InStatus(rows, statuses)
      OBVIOUS
    <3>2. Requested(rows, more, x, statuses, total, units, S)
      OBVIOUS
    <3> HIDE DEF C, n, used, allocated, m, k
    <3>3. \A B \in SUBSET InStatus(rows, statuses) :
            /\ SumFunctionOnSet(Amounts(more), B) = SumFunctionOnSet(Amounts(rows), B)
            /\ SumFunctionOnSet(Quantities(more), B) = SumFunctionOnSet(Quantities(rows), B)
            /\ SumFunctionOnSet(Amounts(more), B \cup {x})
                 = SumFunctionOnSet(Amounts(rows), B) + more[x].amount
            /\ SumFunctionOnSet(Quantities(more), B \cup {x})
                 = SumFunctionOnSet(Quantities(rows), B) + more[x].quantity
      BY ONLY <3>2, RequestCounts
    <3> QED BY <3>1, <3>3 DEF m, k
  <2> QED BY <2>1, <2>2
<1>4. \A A \in SUBSET C :
        LET v == SumFunctionOnSet(Amounts(rows), A)
            q == SumFunctionOnSet(Quantities(rows), A)
        IN  /\ v \in Nat /\ q \in Nat
            /\ 2 * (units * v) <= 2 * (total * q) + units * n
            /\ 2 * (total * q) <= 2 * (units * v) + units * n
  <2>1. \A A \in SUBSET C : SumFunctionOnSet(Amounts(rows), A) \in Nat /\ SumFunctionOnSet(Quantities(rows), A) \in Nat
    BY <1>1, PartSums
  <2> QED BY <2>1 DEF SharedFairly
<1> HIDE DEF C, m, k, used, allocated, n
\* What goes beyond the proportion when x is among the parts A.
<1>5. ASSUME NEW A \in SUBSET C
      PROVE  LET v == SumFunctionOnSet(Amounts(rows), A)
                 q == SumFunctionOnSet(Quantities(rows), A)
             IN  /\ 2 * (units * (v + m)) <= 2 * (total * (q + k)) + units * (n + 1)
                 /\ 2 * (total * (q + k)) <= 2 * (units * (v + m)) + units * (n + 1)
  <2> DEFINE v == SumFunctionOnSet(Amounts(rows), A)
             q == SumFunctionOnSet(Quantities(rows), A)
  <2>1. CASE used + k # units
    <3>1. m = (2 * total * k + units) \div (2 * units)
      BY <1>1, <2>1 DEF Allocate
    <3>2. 2 * total * k = 2 * (total * k) /\ total * k \in Nat
      BY <1>1, <1>2
    <3> DEFINE w == total * k
    <3>3. m = (2 * w + units) \div (2 * units) /\ w \in Nat
      BY <3>1, <3>2
    <3> HIDE DEF w
    <3>4. 2 * (units * m) <= 2 * w + units /\ 2 * w <= 2 * (units * m) + units
      BY <1>1, <3>3, RoundedHalfUp
    <3>5. 2 * (units * m) <= 2 * (total * k) + units /\ 2 * (total * k) <= 2 * (units * m) + units
      BY <3>4 DEF w
    <3>6. /\ v \in Nat /\ q \in Nat
          /\ 2 * (units * v) <= 2 * (total * q) + units * n
          /\ 2 * (total * q) <= 2 * (units * v) + units * n
      BY <1>4
    <3> HIDE DEF v, q
    <3>7. /\ 2 * (units * (v + m)) <= 2 * (total * (q + k)) + units * (n + 1)
          /\ 2 * (total * (q + k)) <= 2 * (units * (v + m)) + units * (n + 1)
      BY <1>1, <1>2, <3>5, <3>6, SharesAdd
    <3> QED BY <3>7 DEF v, q
  <2>2. CASE used + k = units
    <3> DEFINE B == C \ A
               vB == SumFunctionOnSet(Amounts(rows), B)
               qB == SumFunctionOnSet(Quantities(rows), B)
    <3>1. m = total - allocated
      BY <1>1, <2>2 DEF Allocate
    <3>2. allocated = v + vB /\ used = q + qB
      <4>1. IsFiniteSet(C) /\ \A y \in C : Amounts(rows)[y] \in Int /\ Quantities(rows)[y] \in Int
        <5>1. IsFiniteSet(C)
          BY <1>1, FS_Subset DEF AreParts
        <5> QED BY <1>1, <5>1 DEF AreParts, Amounts, Quantities
      <4>2. SumFunctionOnSet(Amounts(rows), C) = v + vB
        BY <4>1, SumSplit
      <4>3. SumFunctionOnSet(Quantities(rows), C) = q + qB
        BY <4>1, SumSplit
      <4> QED BY <4>2, <4>3 DEF allocated, used
    <3>3. /\ vB \in Nat /\ qB \in Nat
          /\ 2 * (units * vB) <= 2 * (total * qB) + units * n
          /\ 2 * (total * qB) <= 2 * (units * vB) + units * n
      <4>1. B \in SUBSET C
        OBVIOUS
      <4> HIDE DEF B
      <4> QED BY <1>4, <4>1
    <3>4. v \in Nat /\ q \in Nat
      BY <1>4
    <3> HIDE DEF v, q, vB, qB, B
    <3>5. v + m = total - vB /\ q + k = units - qB
      BY <1>1, <1>2, <2>2, <3>1, <3>2, <3>3, <3>4
    <3>6. /\ 2 * (units * (total - vB)) <= 2 * (total * (units - qB)) + units * (n + 1)
          /\ 2 * (total * (units - qB)) <= 2 * (units * (total - vB)) + units * (n + 1)
      BY <1>1, <1>2, <3>3, SharesOfRest
    <3> QED BY <3>5, <3>6 DEF v, q
  <2> QED BY <2>1, <2>2
<1>6. SharedFairly(more, statuses, total, units)
  <2> SUFFICES ASSUME NEW A \in SUBSET (C \cup {x})
               PROVE  LET v == SumFunctionOnSet(Amounts(more), A)
                          q == SumFunctionOnSet(Quantities(more), A)
                      IN  /\ 2 * (units * v) <= 2 * (total * q) + units * (n + 1)
                          /\ 2 * (total * q) <= 2 * (units * v) + units * (n + 1)
    BY <1>3 DEF SharedFairly
  <2>1. CASE x \notin A
    <3> DEFINE v == SumFunctionOnSet(Amounts(rows), A)
               q == SumFunctionOnSet(Quantities(rows), A)
    <3>1. /\ SumFunctionOnSet(Amounts(more), A) = v /\ SumFunctionOnSet(Quantities(more), A) = q
          /\ v \in Nat /\ q \in Nat
          /\ 2 * (units * v) <= 2 * (total * q) + units * n
          /\ 2 * (total * q) <= 2 * (units * v) + units * n
      <4>1. A \in SUBSET C
        BY <2>1
      <4> QED BY <1>3, <1>4, <4>1
    <3> DEFINE a == units * v
               b == total * q
               e == units * n
    <3>2. a \in Int /\ b \in Int /\ e \in Int /\ units * (n + 1) = e + units /\ units \in Nat
      BY <1>1, <1>2, <3>1
    <3>3. 2 * a <= 2 * b + e /\ 2 * b <= 2 * a + e
      BY <3>1
    <3> HIDE DEF a, b, e
    <3>4. 2 * a <= 2 * b + (e + units) /\ 2 * b <= 2 * a + (e + units)
      BY <3>2, <3>3
    <3> QED BY <3>1, <3>2, <3>4 DEF a, b
  <2>2. CASE x \in A
    <3> DEFINE B == A \ {x}
    <3>1. B \in SUBSET C /\ A = B \cup {x}
      BY <2>2
    <3> HIDE DEF B
    <3>2. /\ SumFunctionOnSet(Amounts(more), A) = SumFunctionOnSet(Amounts(rows), B) + m
          /\ SumFunctionOnSet(Quantities(more), A) = SumFunctionOnSet(Quantities(rows), B) + k
      BY <1>3, <3>1
    <3> QED BY <1>5, <3>1, <3>2
  <2> QED BY <2>1, <2>2
<1>7. /\ SumFunctionOnSet(Quantities(more), InStatus(more, statuses)) = used + k
      /\ SumFunctionOnSet(Amounts(more), InStatus(more, statuses)) = allocated + m
  <2>1. C \in SUBSET C
    OBVIOUS
  <2> QED BY <1>3, <2>1 DEF used, allocated
<1>8. used + k = units => allocated + m = total
  <2> SUFFICES ASSUME used + k = units PROVE allocated + m = total
    OBVIOUS
  <2>1. m = total - allocated
    BY <1>1 DEF Allocate
  <2> QED BY <1>1, <1>2, <2>1
<1> QED BY <1>6, <1>7, <1>8 DEF used, allocated, m, k, C

\* Parts that keep their quantities and amounts, some of which cease to count.
LEMMA FewerShares ==
  ASSUME NEW rows, NEW more, NEW statuses, NEW total, NEW units, NEW S,
         AreParts(rows, S), AreParts(more, S),
         \A r \in S : more[r].quantity = rows[r].quantity /\ more[r].amount = rows[r].amount,
         \A r \in S : more[r].status # "NONE" <=> rows[r].status # "NONE",
         InStatus(more, statuses) \subseteq InStatus(rows, statuses),
         SharedFairly(rows, statuses, total, units)
  PROVE  SharedFairly(more, statuses, total, units)
<1>1. Amounts(more) = Amounts(rows) /\ Quantities(more) = Quantities(rows)
  BY DEF AreParts, Amounts, Quantities
<1>2. {r \in DOMAIN more : more[r].status # "NONE"} = {r \in DOMAIN rows : rows[r].status # "NONE"}
  BY DEF AreParts
<1>3. \A A \in SUBSET InStatus(more, statuses) : A \in SUBSET InStatus(rows, statuses)
  OBVIOUS
<1> QED BY <1>1, <1>2, <1>3 DEF SharedFairly

\* Where a unit costs more than half a unit of money for each request, what goes
\* back is never worth more than the document.
LEMMA SharesBounded ==
  ASSUME NEW rows, NEW statuses, NEW total \in Nat, NEW units \in Nat \ {0}, NEW S, AreParts(rows, S),
         SharedFairly(rows, statuses, total, units), units * Cardinality(S) <= 2 * total,
         SumFunctionOnSet(Quantities(rows), InStatus(rows, statuses)) <= units,
         SumFunctionOnSet(Quantities(rows), InStatus(rows, statuses)) = units
           => SumFunctionOnSet(Amounts(rows), InStatus(rows, statuses)) = total
  PROVE  SumFunctionOnSet(Amounts(rows), InStatus(rows, statuses)) <= total
<1> DEFINE C == InStatus(rows, statuses)
           v == SumFunctionOnSet(Amounts(rows), C)
           q == SumFunctionOnSet(Quantities(rows), C)
           n == Cardinality({r \in DOMAIN rows : rows[r].status # "NONE"})
           c == Cardinality(S)
<1>1. C \in SUBSET S
  BY DEF InStatus, AreParts
<1>2. v \in Nat /\ q \in Nat
  BY <1>1, PartSums
<1>3. n \in Nat /\ n <= c /\ c \in Nat
  BY RequestsCounted, FS_CardinalityType DEF AreParts
<1>4. 2 * (units * v) <= 2 * (total * q) + units * n
  <2>1. C \in SUBSET C
    OBVIOUS
  <2> QED BY <2>1 DEF SharedFairly
<1>5. units * c <= 2 * total /\ q <= units /\ (q = units => v = total)
  OBVIOUS
<1> HIDE DEF C, v, q, n, c
<1>6. CASE q = units
  BY <1>2, <1>5, <1>6 DEF v, C
<1>7. CASE q # units
  <2>1. units * n <= units * c
    BY <1>3
  <2>2. total * q <= total * units - total
    <3>1. units - 1 \in Nat /\ q <= units - 1
      BY <1>2, <1>5, <1>7
    <3>2. total * q <= total * (units - 1)
      BY <1>2, <3>1
    <3>3. total * (units - 1) = total * units - total
      OBVIOUS
    <3> QED BY <3>2, <3>3
  <2> DEFINE a == units * v
             b == total * q
             d == total * units
             e == units * n
             g == units * c
  <2>3. a \in Int /\ b \in Int /\ d \in Int /\ e \in Int /\ g \in Int
    BY <1>2, <1>3
  <2>4. 2 * a <= 2 * b + e /\ e <= g /\ g <= 2 * total /\ b <= d - total
    BY <1>4, <1>5, <2>1, <2>2
  <2> HIDE DEF a, b, d, e, g
  <2>5. a <= d
    BY <2>3, <2>4
  <2>6. units * v <= units * total
    BY <2>5 DEF a, d
  <2>7. v <= total
    <3>1. CASE v > total
      <4>1. v >= total + 1
        BY <1>2, <3>1
      <4>2. units * v >= units * (total + 1)
        BY <1>2, <4>1
      <4>3. units * (total + 1) = units * total + units
        OBVIOUS
      <4>4. units * total \in Int /\ units * v \in Int
        BY <1>2
      <4> QED BY <2>6, <4>2, <4>3, <4>4
    <3> QED BY <1>2, <3>1
  <2> QED BY <2>7 DEF v, C
<1> QED BY <1>6, <1>7

\* What is asked of prices: in hundredths of a unit of money, a piece costs more
\* than half of the number of requests.
AmplePrices ==
  /\ Units * Cardinality(OrderReturns) <= 2 * GoodsTotal
  /\ ReceiptUnits * Cardinality(PurchaseReturns) <= 2 * ReceiptTotal

\* The rows with their amounts.
Priced ==
  /\ IInv
  /\ oret \in [OrderReturns -> OrderReturnRows(Nat)]
  /\ pret \in [PurchaseReturns -> PurchaseReturnRows(Nat)]
  /\ receipt \in {"NONE", "CONFIRMED"}
  /\ books \in [receivable : Int, payable : Int, supplierReceivable : Int, cash : Int]

\* What the customer sends back: never more than the order, and in proportion.
CustomerSide ==
  /\ \A r \in OrderReturns : oret[r].status # "NONE" => oret[r].quantity > 0
  /\ Returned(Claiming) <= Units
  /\ Returned(Claiming) = Units => ReturnedValue(Claiming) = GoodsTotal
  /\ SharedFairly(oret, Claiming, GoodsTotal, Units)
  /\ order.status = "REFUNDED" <=> Returned({"COMPLETED"}) = Units

PaymentSide == PaidMeansCollected /\ (AmplePrices => NoRefundWithoutMoney)

\* What goes back to the supplier, of a receipt that was posted.
SupplierSide ==
  /\ receipt = "NONE" => \A p \in PurchaseReturns : pret[p].status = "NONE"
  /\ BackToSupplier <= ReceiptUnits
  /\ BackToSupplier = ReceiptUnits => BackToSupplierValue = ReceiptTotal
  /\ SharedFairly(pret, LivePurchaseReturns, ReceiptTotal, ReceiptUnits)

PayableSide == PayablesAgree /\ (receipt = "NONE" => books.payable = 0)

SettlementIInv == Priced /\ CustomerSide /\ PaymentSide /\ SupplierSide /\ PayableSide

LEMMA ReturnsAreParts ==
  ASSUME Priced
  PROVE  AreParts(oret, OrderReturns) /\ AreParts(pret, PurchaseReturns)
BY SettlementAssumption DEF Priced, AreParts, OrderReturnRows, PurchaseReturnRows

LEMMA GrossType ==
  ASSUME txn \in [Txns -> TxnRows], NEW ref, NEW statuses, NEW ts
  PROVE  Gross(ref, statuses, ts) \in Nat
<1> DEFINE R == {t \in ts \cap InStatus(txn, statuses) : txn[t].ref = ref}
<1>1. R \in SUBSET Txns
  BY DEF InStatus
<1>2. IsFiniteSet(R) /\ \A t \in R : Amounts(txn)[t] \in Nat
  BY <1>1, FS_Subset, SettlementAssumption DEF Amounts, TxnRows
<1> QED BY <1>2, SumNat DEF Gross

\* Writing one transaction.
LEMMA SettledWritten ==
  ASSUME txn \in [Txns -> TxnRows], txn' \in [Txns -> TxnRows], NEW t \in Txns,
         \A u \in Txns \ {t} : txn'[u] = txn[u], NEW ref
  PROVE  Settled(ref)' = Settled(ref)
           - (IF txn[t].ref = ref /\ txn[t].status = "POSTED" THEN txn[t].amount ELSE 0)
           + (IF txn'[t].ref = ref /\ txn'[t].status = "POSTED" THEN txn'[t].amount ELSE 0)
<1> DEFINE f == Amounts(txn)
           g == Amounts(txn')
           Q == {u \in Txns : txn[u].ref = ref /\ txn[u].status = "POSTED"}
           R == {u \in Txns : txn'[u].ref = ref /\ txn'[u].status = "POSTED"}
<1>1. Settled(ref) = SumFunctionOnSet(f, Q)
  <2>1. Q = {u \in Txns \cap InStatus(txn, {"POSTED"}) : txn[u].ref = ref}
    BY DEF InStatus
  <2> QED BY <2>1 DEF Settled, Gross
<1>2. Settled(ref)' = SumFunctionOnSet(g, R)
  <2>1. R = {u \in Txns \cap InStatus(txn', {"POSTED"}) : txn'[u].ref = ref}
    BY DEF InStatus
  <2> QED BY <2>1 DEF Settled, Gross, Amounts, InStatus
<1>3. /\ \A u \in Txns : f[u] \in Int /\ g[u] \in Int
      /\ \A u \in Txns \ {t} : g[u] = f[u] /\ (u \in R <=> u \in Q)
      /\ Q \in SUBSET Txns /\ R \in SUBSET Txns
      /\ f[t] = txn[t].amount /\ g[t] = txn'[t].amount
      /\ t \in Q <=> txn[t].ref = ref /\ txn[t].status = "POSTED"
      /\ t \in R <=> txn'[t].ref = ref /\ txn'[t].status = "POSTED"
  BY DEF Amounts, TxnRows
<1> HIDE DEF f, g, Q, R
<1>4. SumFunctionOnSet(g, R) = SumFunctionOnSet(f, Q) - (IF t \in Q THEN f[t] ELSE 0)
                                 + (IF t \in R THEN g[t] ELSE 0)
  BY <1>3, SettlementAssumption, SumReplaced
<1> QED BY <1>1, <1>2, <1>3, <1>4

\* Drafting, approving, rejecting and cancelling settle nothing.
LEMMA OpenTxnsSettleNothing ==
  ASSUME IInv, NEW t \in Txns, IInv', txn[t].status # "POSTED", txn'[t].status # "POSTED",
         \A u \in Txns \ {t} : txn'[u] = txn[u]
  PROVE  \A ref : Settled(ref)' = Settled(ref)
<1> SUFFICES ASSUME NEW ref PROVE Settled(ref)' = Settled(ref)
  OBVIOUS
<1>1. txn \in [Txns -> TxnRows] /\ txn' \in [Txns -> TxnRows]
  BY DEF IInv, Shape
<1>2. Settled(ref) \in Int
  BY <1>1, GrossType DEF Settled
<1>3. Settled(ref)' = Settled(ref) - 0 + 0
  BY <1>1, SettledWritten
<1> DEFINE s == Settled(ref)
<1> HIDE DEF s
<1>4. s \in Int /\ Settled(ref)' = s - 0 + 0
  BY <1>2, <1>3 DEF s
<1>5. s - 0 + 0 = s
  BY <1>4
<1> QED BY <1>4, <1>5 DEF s

LEMMA OwedType ==
  ASSUME Priced, NEW ref \in References
  PROVE  /\ Owed(ref) \in Int /\ SentBack(PurchaseReturns) \in Nat
         /\ ref = "Order" => Owed(ref) = Total
         /\ ref = "GoodsReceipt" => Owed(ref) = ReceiptTotal - SentBack(PurchaseReturns)
         /\ ref \in PurchaseReturns => Owed(ref) = pret[ref].receivable
<1>1. PurchaseReturns \cap InStatus(pret, {"COMPLETED"}) \in SUBSET PurchaseReturns
  OBVIOUS
<1>2. SentBack(PurchaseReturns) \in Nat
  BY <1>1, ReturnsAreParts, PartSums DEF SentBack
<1>3. /\ ref = "Order" => Owed(ref) = Total
      /\ ref = "GoodsReceipt" => Owed(ref) = ReceiptTotal - SentBack(PurchaseReturns)
      /\ ref \in PurchaseReturns => Owed(ref) = pret[ref].receivable
  BY SettlementAssumption DEF Owed
<1>4. \A p \in PurchaseReturns : pret[p].receivable \in Nat
  BY DEF Priced, PurchaseReturnRows
<1> QED BY <1>2, <1>3, <1>4, SettlementAssumption DEF References

\* Posting settles the amount of what was open, and nothing of other documents.
LEMMA PostSettles ==
  ASSUME Priced, IInv', NEW t \in Txns, NEW ref \in References, Post(t, ref)
  PROVE  /\ txn[t].amount \in Nat /\ Settled(ref) \in Nat /\ Owed(ref) \in Int
         /\ txn[t].amount <= Positive(Owed(ref) - Settled(ref))
         /\ Settled(ref)' = Settled(ref) + txn[t].amount
         /\ \A other : other # ref => Settled(other)' = Settled(other)
<1>1. /\ txn \in [Txns -> TxnRows] /\ txn' \in [Txns -> TxnRows]
  BY DEF Priced, IInv, Shape
<1>2. /\ txn[t].amount \in Nat /\ txn[t].status # "POSTED" /\ txn[t].ref = ref
      /\ txn'[t].status = "POSTED" /\ txn'[t].ref = ref /\ txn'[t].amount = txn[t].amount
      /\ \A u \in Txns \ {t} : txn'[u] = txn[u]
  BY <1>1 DEF Post, TxnRows
<1>3. \A other : Settled(other) \in Nat
  BY <1>1, GrossType DEF Settled
<1>4. Owed(ref) \in Int
  BY OwedType
<1> DEFINE o == Owed(ref)
           s == Settled(ref)
           c == Gross(ref, Pending, Txns \ {t})
           a == txn[t].amount
<1>5. a <= Positive(o - s)
  <2>1. a <= Positive(Positive(o - s) - c)
    BY DEF Post, Available
  <2>2. c \in Nat
    BY <1>1, GrossType
  <2>3. a \in Nat /\ o \in Int /\ s \in Int
    BY <1>2, <1>3, <1>4
  <2> HIDE DEF o, s, c, a
  <2> QED BY <2>1, <2>2, <2>3 DEF Positive
<1>6. Settled(ref)' = s + a
  <2>1. Settled(ref)' = s - 0 + a
    BY <1>1, <1>2, SettledWritten
  <2>2. s \in Int /\ a \in Int
    BY <1>2, <1>3
  <2> HIDE DEF s, a
  <2>3. s - 0 + a = s + a
    BY <2>2
  <2> QED BY <2>1, <2>3
<1>7. ASSUME NEW other, other # ref PROVE Settled(other)' = Settled(other)
  <2> DEFINE v == Settled(other)
  <2>1. Settled(other)' = v - 0 + 0
    BY <1>1, <1>2, <1>7, SettledWritten
  <2>2. v \in Int
    BY <1>3
  <2> HIDE DEF v
  <2>3. v - 0 + 0 = v
    BY <2>2
  <2> QED BY <2>1, <2>3 DEF v
<1> QED BY <1>2, <1>3, <1>4, <1>5, <1>6, <1>7

LEMMA OrderParts ==
  ASSUME NEW rows \in [OrderReturns -> OrderReturnRows(Nat)] PROVE AreParts(rows, OrderReturns)
BY SettlementAssumption DEF AreParts, OrderReturnRows

LEMMA SupplierParts ==
  ASSUME NEW rows \in [PurchaseReturns -> PurchaseReturnRows(Nat)] PROVE AreParts(rows, PurchaseReturns)
BY SettlementAssumption DEF AreParts, PurchaseReturnRows

\* Writing one row of the parts; A counted before, B counts after.
LEMMA PartWritten ==
  ASSUME NEW rows, NEW more, NEW S, AreParts(rows, S), AreParts(more, S), NEW x \in S,
         \A y \in S \ {x} : more[y] = rows[y], NEW A \in SUBSET S, NEW B \in SUBSET S,
         \A y \in S \ {x} : y \in B <=> y \in A
  PROVE  /\ SumFunctionOnSet(Quantities(more), B) = SumFunctionOnSet(Quantities(rows), A)
              - (IF x \in A THEN rows[x].quantity ELSE 0) + (IF x \in B THEN more[x].quantity ELSE 0)
         /\ SumFunctionOnSet(Amounts(more), B) = SumFunctionOnSet(Amounts(rows), A)
              - (IF x \in A THEN rows[x].amount ELSE 0) + (IF x \in B THEN more[x].amount ELSE 0)
<1>1. IsFiniteSet(S)
  BY DEF AreParts
<1>2. SumFunctionOnSet(Quantities(more), B) = SumFunctionOnSet(Quantities(rows), A)
        - (IF x \in A THEN rows[x].quantity ELSE 0) + (IF x \in B THEN more[x].quantity ELSE 0)
  <2> DEFINE f == Quantities(rows)
             g == Quantities(more)
  <2>1. /\ \A y \in S : f[y] \in Int /\ g[y] \in Int
        /\ \A y \in S \ {x} : g[y] = f[y] /\ (y \in B <=> y \in A)
        /\ f[x] = rows[x].quantity /\ g[x] = more[x].quantity
    BY DEF AreParts, Quantities
  <2> HIDE DEF f, g
  <2>2. SumFunctionOnSet(g, B) = SumFunctionOnSet(f, A) - (IF x \in A THEN f[x] ELSE 0)
                                   + (IF x \in B THEN g[x] ELSE 0)
    BY <1>1, <2>1, SumReplaced
  <2> QED BY <2>1, <2>2 DEF f, g
<1>3. SumFunctionOnSet(Amounts(more), B) = SumFunctionOnSet(Amounts(rows), A)
        - (IF x \in A THEN rows[x].amount ELSE 0) + (IF x \in B THEN more[x].amount ELSE 0)
  <2> DEFINE f == Amounts(rows)
             g == Amounts(more)
  <2>1. /\ \A y \in S : f[y] \in Int /\ g[y] \in Int
        /\ \A y \in S \ {x} : g[y] = f[y] /\ (y \in B <=> y \in A)
        /\ f[x] = rows[x].amount /\ g[x] = more[x].amount
    BY DEF AreParts, Amounts
  <2> HIDE DEF f, g
  <2>2. SumFunctionOnSet(g, B) = SumFunctionOnSet(f, A) - (IF x \in A THEN f[x] ELSE 0)
                                   + (IF x \in B THEN g[x] ELSE 0)
    BY <1>1, <2>1, SumReplaced
  <2> QED BY <2>1, <2>2 DEF f, g
<1> QED BY <1>2, <1>3

\* Of parts that count, no more than all of them.
LEMMA SomeOfTheParts ==
  ASSUME NEW rows, NEW S, AreParts(rows, S), NEW A \in SUBSET S, NEW B \in SUBSET A
  PROVE  /\ SumFunctionOnSet(Quantities(rows), B) <= SumFunctionOnSet(Quantities(rows), A)
         /\ SumFunctionOnSet(Amounts(rows), B) <= SumFunctionOnSet(Amounts(rows), A)
<1>1. IsFiniteSet(A)
  BY FS_Subset DEF AreParts
<1>2. /\ SumFunctionOnSet(Quantities(rows), B) \in Nat /\ SumFunctionOnSet(Quantities(rows), A \ B) \in Nat
      /\ SumFunctionOnSet(Amounts(rows), B) \in Nat /\ SumFunctionOnSet(Amounts(rows), A \ B) \in Nat
  <2>1. B \in SUBSET S /\ A \ B \in SUBSET S
    OBVIOUS
  <2> QED BY <2>1, PartSums
<1>3. \A r \in A : Amounts(rows)[r] \in Int /\ Quantities(rows)[r] \in Int
  BY DEF AreParts, Amounts, Quantities
<1>4. SumFunctionOnSet(Quantities(rows), A)
        = SumFunctionOnSet(Quantities(rows), B) + SumFunctionOnSet(Quantities(rows), A \ B)
  BY <1>1, <1>3, SumSplit
<1>5. SumFunctionOnSet(Amounts(rows), A)
        = SumFunctionOnSet(Amounts(rows), B) + SumFunctionOnSet(Amounts(rows), A \ B)
  BY <1>1, <1>3, SumSplit
<1> QED BY <1>2, <1>4, <1>5

LEMMA AllocateType ==
  ASSUME NEW total \in Nat, NEW allocated \in Nat, NEW units \in Nat \ {0}, NEW used \in Nat,
         NEW quantity \in Nat
  PROVE  Allocate(total, allocated, units, used, quantity) \in Int
<1> DEFINE x == 2 * total * quantity + units
           y == 2 * units
<1>1. x \in Int /\ y \in Nat \ {0}
  <2>1. 2 * total * quantity \in Int
    OBVIOUS
  <2> QED BY <2>1
<1> HIDE DEF x, y
<1>2. x \div y \in Int
  BY <1>1
<1> QED BY <1>2 DEF Allocate, x, y

PaidOut == SumFunctionOnSet(Amounts(oret), {r \in OrderReturns : oret[r].settledBy = "PAYOUT"})

\* What writing one return of the customer does to the sums.
LEMMA ReturnWritten ==
  ASSUME Priced, oret' \in [OrderReturns -> OrderReturnRows(Nat)], NEW r \in OrderReturns,
         \A y \in OrderReturns \ {r} : oret'[y] = oret[y]
  PROVE  /\ \A statuses :
              /\ Returned(statuses) \in Nat /\ ReturnedValue(statuses) \in Nat
              /\ Returned(statuses)' = Returned(statuses)
                   - (IF oret[r].status \in statuses THEN oret[r].quantity ELSE 0)
                   + (IF oret'[r].status \in statuses THEN oret'[r].quantity ELSE 0)
              /\ ReturnedValue(statuses)' = ReturnedValue(statuses)
                   - (IF oret[r].status \in statuses THEN oret[r].amount ELSE 0)
                   + (IF oret'[r].status \in statuses THEN oret'[r].amount ELSE 0)
         /\ PaidOut \in Nat
         /\ PaidOut' = PaidOut - (IF oret[r].settledBy = "PAYOUT" THEN oret[r].amount ELSE 0)
                               + (IF oret'[r].settledBy = "PAYOUT" THEN oret'[r].amount ELSE 0)
<1>1. AreParts(oret, OrderReturns) /\ AreParts(oret', OrderReturns)
  BY OrderParts DEF Priced
<1>2. ASSUME NEW statuses
      PROVE  /\ Returned(statuses) \in Nat /\ ReturnedValue(statuses) \in Nat
             /\ Returned(statuses)' = Returned(statuses)
                  - (IF oret[r].status \in statuses THEN oret[r].quantity ELSE 0)
                  + (IF oret'[r].status \in statuses THEN oret'[r].quantity ELSE 0)
             /\ ReturnedValue(statuses)' = ReturnedValue(statuses)
                  - (IF oret[r].status \in statuses THEN oret[r].amount ELSE 0)
                  + (IF oret'[r].status \in statuses THEN oret'[r].amount ELSE 0)
  <2> DEFINE A == InStatus(oret, statuses)
             B == InStatus(oret', statuses)
  <2>1. /\ A \in SUBSET OrderReturns /\ B \in SUBSET OrderReturns
        /\ \A y \in OrderReturns \ {r} : y \in B <=> y \in A
        /\ r \in A <=> oret[r].status \in statuses
        /\ r \in B <=> oret'[r].status \in statuses
    BY <1>1 DEF AreParts, InStatus
  <2>2. /\ Returned(statuses) = SumFunctionOnSet(Quantities(oret), A)
        /\ Returned(statuses)' = SumFunctionOnSet(Quantities(oret'), B)
        /\ ReturnedValue(statuses) = SumFunctionOnSet(Amounts(oret), A)
        /\ ReturnedValue(statuses)' = SumFunctionOnSet(Amounts(oret'), B)
    BY DEF Returned, ReturnedValue, Quantities, Amounts, InStatus
  <2> HIDE DEF A, B
  <2>3. SumFunctionOnSet(Quantities(oret), A) \in Nat /\ SumFunctionOnSet(Amounts(oret), A) \in Nat
    BY <1>1, <2>1, PartSums
  <2>4. /\ SumFunctionOnSet(Quantities(oret'), B) = SumFunctionOnSet(Quantities(oret), A)
             - (IF r \in A THEN oret[r].quantity ELSE 0) + (IF r \in B THEN oret'[r].quantity ELSE 0)
        /\ SumFunctionOnSet(Amounts(oret'), B) = SumFunctionOnSet(Amounts(oret), A)
             - (IF r \in A THEN oret[r].amount ELSE 0) + (IF r \in B THEN oret'[r].amount ELSE 0)
    BY <1>1, <2>1, PartWritten
  <2> QED BY <2>1, <2>2, <2>3, <2>4
<1>3. /\ PaidOut \in Nat
      /\ PaidOut' = PaidOut - (IF oret[r].settledBy = "PAYOUT" THEN oret[r].amount ELSE 0)
                            + (IF oret'[r].settledBy = "PAYOUT" THEN oret'[r].amount ELSE 0)
  <2> DEFINE A == {y \in OrderReturns : oret[y].settledBy = "PAYOUT"}
             B == {y \in OrderReturns : oret'[y].settledBy = "PAYOUT"}
  <2>1. /\ A \in SUBSET OrderReturns /\ B \in SUBSET OrderReturns
        /\ \A y \in OrderReturns \ {r} : y \in B <=> y \in A
        /\ r \in A <=> oret[r].settledBy = "PAYOUT"
        /\ r \in B <=> oret'[r].settledBy = "PAYOUT"
    OBVIOUS
  <2>2. PaidOut = SumFunctionOnSet(Amounts(oret), A) /\ PaidOut' = SumFunctionOnSet(Amounts(oret'), B)
    BY DEF PaidOut, Amounts
  <2> HIDE DEF A, B
  <2>3. SumFunctionOnSet(Amounts(oret), A) \in Nat
    BY <1>1, <2>1, PartSums
  <2>4. SumFunctionOnSet(Amounts(oret'), B) = SumFunctionOnSet(Amounts(oret), A)
          - (IF r \in A THEN oret[r].amount ELSE 0) + (IF r \in B THEN oret'[r].amount ELSE 0)
    BY <1>1, <2>1, PartWritten
  <2> QED BY <2>1, <2>2, <2>3, <2>4
<1> QED BY <1>2, <1>3

LEMMA Amortized == \A n \in Int : Positive(n) \in Nat
BY DEF Positive

Balances == [receivable : Int, payable : Int, supplierReceivable : Int, cash : Int]

LEMMA EntryKeepsBalances ==
  ASSUME NEW b \in Balances, NEW a \in Int, NEW c \in Int
  PROVE  /\ [b EXCEPT !.cash = @ + a, !.receivable = @ - a] \in Balances
         /\ [b EXCEPT !.cash = @ - a, !.payable = @ - a] \in Balances
         /\ [b EXCEPT !.cash = @ + a, !.supplierReceivable = @ - a] \in Balances
         /\ [b EXCEPT !.receivable = @ - a] \in Balances
         /\ [b EXCEPT !.cash = @ - a] \in Balances
         /\ [b EXCEPT !.payable = @ - a, !.supplierReceivable = @ + c] \in Balances
<1>1. [b EXCEPT !.cash = @ + a, !.receivable = @ - a] \in Balances
  <2> DEFINE x == b.cash + a
             y == b.receivable - a
  <2>1. x \in Int /\ y \in Int
    BY DEF Balances
  <2>2. [b EXCEPT !.cash = @ + a, !.receivable = @ - a]
          = [b EXCEPT !.cash = x, !.receivable = y]
    BY DEF Balances
  <2> HIDE DEF x, y
  <2>3. [b EXCEPT !.cash = x, !.receivable = y] \in Balances
    BY <2>1 DEF Balances
  <2> QED BY <2>2, <2>3
<1>2. [b EXCEPT !.cash = @ - a, !.payable = @ - a] \in Balances
  <2> DEFINE x == b.cash - a
             y == b.payable - a
  <2>1. x \in Int /\ y \in Int
    BY DEF Balances
  <2>2. [b EXCEPT !.cash = @ - a, !.payable = @ - a]
          = [b EXCEPT !.cash = x, !.payable = y]
    BY DEF Balances
  <2> HIDE DEF x, y
  <2>3. [b EXCEPT !.cash = x, !.payable = y] \in Balances
    BY <2>1 DEF Balances
  <2> QED BY <2>2, <2>3
<1>3. [b EXCEPT !.cash = @ + a, !.supplierReceivable = @ - a] \in Balances
  <2> DEFINE x == b.cash + a
             y == b.supplierReceivable - a
  <2>1. x \in Int /\ y \in Int
    BY DEF Balances
  <2>2. [b EXCEPT !.cash = @ + a, !.supplierReceivable = @ - a]
          = [b EXCEPT !.cash = x, !.supplierReceivable = y]
    BY DEF Balances
  <2> HIDE DEF x, y
  <2>3. [b EXCEPT !.cash = x, !.supplierReceivable = y] \in Balances
    BY <2>1 DEF Balances
  <2> QED BY <2>2, <2>3
<1>4. [b EXCEPT !.receivable = @ - a] \in Balances
  <2> DEFINE x == b.receivable - a
  <2>1. x \in Int
    BY DEF Balances
  <2>2. [b EXCEPT !.receivable = @ - a]
          = [b EXCEPT !.receivable = x]
    BY DEF Balances
  <2> HIDE DEF x
  <2>3. [b EXCEPT !.receivable = x] \in Balances
    BY <2>1 DEF Balances
  <2> QED BY <2>2, <2>3
<1>5. [b EXCEPT !.cash = @ - a] \in Balances
  <2> DEFINE x == b.cash - a
  <2>1. x \in Int
    BY DEF Balances
  <2>2. [b EXCEPT !.cash = @ - a]
          = [b EXCEPT !.cash = x]
    BY DEF Balances
  <2> HIDE DEF x
  <2>3. [b EXCEPT !.cash = x] \in Balances
    BY <2>1 DEF Balances
  <2> QED BY <2>2, <2>3
<1>6. [b EXCEPT !.payable = @ - a, !.supplierReceivable = @ + c] \in Balances
  <2> DEFINE x == b.payable - a
             y == b.supplierReceivable + c
  <2>1. x \in Int /\ y \in Int
    BY DEF Balances
  <2>2. [b EXCEPT !.payable = @ - a, !.supplierReceivable = @ + c]
          = [b EXCEPT !.payable = x, !.supplierReceivable = y]
    BY DEF Balances
  <2> HIDE DEF x, y
  <2>3. [b EXCEPT !.payable = x, !.supplierReceivable = y] \in Balances
    BY <2>1 DEF Balances
  <2> QED BY <2>2, <2>3
<1> QED BY <1>1, <1>2, <1>3, <1>4, <1>5, <1>6

\* Every handler writes rows with natural amounts and keeps the balances numbers.
LEMMA PricedKept ==
  ASSUME Priced, Next
  PROVE  Priced'
<1>0. /\ oret \in [OrderReturns -> OrderReturnRows(Nat)] /\ pret \in [PurchaseReturns -> PurchaseReturnRows(Nat)]
      /\ receipt \in {"NONE", "CONFIRMED"} /\ txn \in [Txns -> TxnRows]
      /\ books \in Balances
  BY DEF Priced, IInv, Shape, Balances
<1>1. IInv'
  BY NextInv DEF Priced
<1>2. \A t \in Txns : txn[t].amount \in Nat
  BY <1>0 DEF TxnRows
<1>3. CASE Deliver \/ Sell \/ Inspection
  <2>1. UNCHANGED <<oret, pret, receipt, books>>
    BY <1>3 DEF Deliver, Sell, Inspection, BeginInspection, EndInspection
  <2> QED BY <1>0, <1>1, <2>1 DEF Priced, Balances
<1>4. CASE Finance
  <2>1. PICK t \in Txns :
          \/ \E ref \in References, amount \in 1..(Total + ReceiptTotal),
               status \in {"DRAFT", "WAITING_APPROVAL"} : Draft(t, ref, amount, status)
          \/ Approve(t) \/ Reject(t) \/ Cancel(t)
          \/ PostReceipt(t) \/ PostPayment(t)
          \/ \E p \in PurchaseReturns : PostRefund(t, p)
    BY <1>4 DEF Finance
  <2>2. UNCHANGED <<oret, pret, receipt>>
    BY <2>1 DEF Draft, Approve, Reject, Cancel, Mark, PostReceipt, PostPayment, PostRefund, Post
  <2>3. books' \in Balances
    <3> DEFINE a == txn[t].amount
    <3>1. a \in Int
      BY <1>2
    <3>2. \/ books' = books
          \/ books' = [books EXCEPT !.cash = @ + a, !.receivable = @ - a]
          \/ books' = [books EXCEPT !.cash = @ - a, !.payable = @ - a]
          \/ books' = [books EXCEPT !.cash = @ + a, !.supplierReceivable = @ - a]
      BY <2>1 DEF Draft, Approve, Reject, Cancel, Mark, PostReceipt, PostPayment, PostRefund, Post
    <3> HIDE DEF a
    <3> QED BY <1>0, <3>1, <3>2, EntryKeepsBalances
  <2> QED BY <1>0, <1>1, <2>2, <2>3 DEF Priced, Balances
<1>5. CASE CustomerReturn
  <2>1. UNCHANGED <<pret, receipt>>
    BY <1>5 DEF CustomerReturn, RequestReturn, StartReturnInspection, RejectReturn, ConfirmReturn
  <2>2. PICK r \in OrderReturns :
          \/ \E q \in 1..Units : RequestReturn(r, q)
          \/ StartReturnInspection(r) \/ RejectReturn(r)
          \/ \E original \in BOOLEAN : ConfirmReturn(r, original)
    BY <1>5 DEF CustomerReturn
  <2> DEFINE a == oret[r].amount
  <2>3. a \in Int
    BY <1>0 DEF OrderReturnRows
  <2>4. oret' \in [OrderReturns -> OrderReturnRows(Nat)]
    <3>1. ASSUME NEW q \in 1..Units, RequestReturn(r, q)
          PROVE  oret' \in [OrderReturns -> OrderReturnRows(Nat)]
      <4> DEFINE b == Allocate(GoodsTotal, ReturnedValue(Claiming), Units, Returned(Claiming), q)
      <4>1. b \in Int
        <5>1. Returned(Claiming) \in Nat /\ ReturnedValue(Claiming) \in Nat
          <6>1. InStatus(oret, Claiming) \in SUBSET OrderReturns
            BY <1>0 DEF InStatus
          <6> QED BY <1>0, <6>1, OrderParts, PartSums DEF Returned, ReturnedValue
        <5>2. q \in Nat
          BY SettlementAssumption
        <5> QED BY <5>1, <5>2, AllocateType, SettlementAssumption
      <4>2. /\ b >= 0
            /\ oret' = [oret EXCEPT ![r] = [status |-> "REQUESTED", quantity |-> q, amount |-> b,
                                            settledBy |-> "NONE"]]
        BY <3>1 DEF RequestReturn
      <4> HIDE DEF b
      <4>3. b \in Nat /\ q \in Nat
        BY <4>1, <4>2, SettlementAssumption
      <4>4. [status |-> "REQUESTED", quantity |-> q, amount |-> b, settledBy |-> "NONE"]
              \in OrderReturnRows(Nat)
        BY <4>3 DEF OrderReturnRows
      <4> QED BY <1>0, <4>2, <4>4
    <3>2. ASSUME \/ \E s \in {"INSPECTION", "REJECTED"} : oret' = [oret EXCEPT ![r].status = s]
                 \/ \E how \in {"PAYOUT", "RECEIVABLE"} :
                      oret' = [oret EXCEPT ![r].status = "COMPLETED", ![r].settledBy = how]
          PROVE  oret' \in [OrderReturns -> OrderReturnRows(Nat)]
      BY <1>0, <3>2 DEF OrderReturnRows
    <3> QED
      BY <2>2, <3>1, <3>2 DEF StartReturnInspection, RejectReturn, ConfirmReturn
  <2>5. books' \in Balances
    <3>1. \/ books' = books
          \/ books' = [books EXCEPT !.receivable = @ - a]
          \/ books' = [books EXCEPT !.cash = @ - a]
      BY <2>2 DEF RequestReturn, StartReturnInspection, RejectReturn, ConfirmReturn
    <3> HIDE DEF a
    <3> QED BY <1>0, <2>3, <3>1, EntryKeepsBalances
  <2> QED BY <1>0, <1>1, <2>1, <2>4, <2>5 DEF Priced, Balances
<1>6. CASE SupplierReturn
  <2>1. UNCHANGED <<oret, receipt>>
    BY <1>6 DEF SupplierReturn, RequestPurchaseReturn, ConfirmPurchaseReturn
  <2>2. PICK p \in PurchaseReturns :
          \/ \E q \in 1..ReceiptUnits, noted \in BOOLEAN : RequestPurchaseReturn(p, q, noted)
          \/ \E noted \in BOOLEAN : ConfirmPurchaseReturn(p, noted)
    BY <1>6 DEF SupplierReturn
  <2>3. ASSUME NEW q \in 1..ReceiptUnits, NEW noted \in BOOLEAN, RequestPurchaseReturn(p, q, noted)
        PROVE  /\ pret' \in [PurchaseReturns -> PurchaseReturnRows(Nat)]
               /\ books' \in Balances
    <3> DEFINE b == Allocate(ReceiptTotal, BackToSupplierValue, ReceiptUnits, BackToSupplier, q)
    <3>1. b \in Int
      <4>1. BackToSupplier \in Nat /\ BackToSupplierValue \in Nat
        <5>1. InStatus(pret, LivePurchaseReturns) \in SUBSET PurchaseReturns
          BY <1>0 DEF InStatus
        <5> QED BY <1>0, <5>1, SupplierParts, PartSums DEF BackToSupplier, BackToSupplierValue
      <4>2. q \in Nat
        BY SettlementAssumption
      <4> QED BY <4>1, <4>2, AllocateType, SettlementAssumption
    <3>2. /\ b >= 0 /\ books' = books
          /\ pret' = [pret EXCEPT ![p] = [status |-> "REQUESTED", quantity |-> q, amount |-> b,
                                          noted |-> noted, receivable |-> 0]]
      BY <2>3 DEF RequestPurchaseReturn
    <3> HIDE DEF b
    <3>3. b \in Nat /\ q \in Nat
      BY <3>1, <3>2, SettlementAssumption
    <3>4. [status |-> "REQUESTED", quantity |-> q, amount |-> b, noted |-> noted, receivable |-> 0]
            \in PurchaseReturnRows(Nat)
      BY <3>3 DEF PurchaseReturnRows
    <3> QED BY <1>0, <3>2, <3>4
  <2>4. ASSUME NEW noted \in BOOLEAN, ConfirmPurchaseReturn(p, noted)
        PROVE  /\ pret' \in [PurchaseReturns -> PurchaseReturnRows(Nat)]
               /\ books' \in Balances
    <3> DEFINE offset == PayableOffset(p)
               rest == pret[p].amount - offset
               note == noted \/ pret[p].noted
    <3>1. offset \in Nat /\ offset <= pret[p].amount /\ pret[p].amount \in Nat
      <4> DEFINE n == ReceiptTotal - SentBack(PurchaseReturns \ {p}) - Settled("GoodsReceipt")
                 a == pret[p].amount
      <4>1. n \in Int
        <5>1. SentBack(PurchaseReturns \ {p}) \in Nat
          <6>1. (PurchaseReturns \ {p}) \cap InStatus(pret, {"COMPLETED"}) \in SUBSET PurchaseReturns
            OBVIOUS
          <6> QED BY <1>0, <6>1, SupplierParts, PartSums DEF SentBack
        <5>2. Settled("GoodsReceipt") \in Nat
          BY <1>0, GrossType DEF Settled
        <5> QED BY <5>1, <5>2, SettlementAssumption
      <4>2. a \in Nat
        BY <1>0 DEF PurchaseReturnRows
      <4>3. offset = IF a < Positive(n) THEN a ELSE Positive(n)
        BY DEF PayableOffset
      <4> HIDE DEF n, a, offset
      <4>4. offset \in Nat /\ offset <= a
        BY <4>1, <4>2, <4>3, Amortized
      <4> QED BY <4>2, <4>4 DEF a
    <3>2. /\ books' = [books EXCEPT !.payable = @ - offset, !.supplierReceivable = @ + rest]
          /\ pret' = [pret EXCEPT ![p].status = "COMPLETED", ![p].noted = note, ![p].receivable = rest]
      BY <2>4, Zenon DEF ConfirmPurchaseReturn
    <3>3. rest \in Nat /\ rest \in Int /\ offset \in Int /\ note \in BOOLEAN
      BY <3>1
    <3> HIDE DEF rest, offset, note
    <3>4. books' \in Balances
      BY <1>0, <3>2, <3>3, EntryKeepsBalances
    <3>5. pret' \in [PurchaseReturns -> PurchaseReturnRows(Nat)]
      <4>1. pret[p] \in PurchaseReturnRows(Nat)
        BY <1>0
      <4>2. [pret[p] EXCEPT !.status = "COMPLETED", !.noted = note, !.receivable = rest]
              \in PurchaseReturnRows(Nat)
        BY <3>3, <4>1 DEF PurchaseReturnRows
      <4>3. pret' = [pret EXCEPT ![p] = [pret[p] EXCEPT !.status = "COMPLETED", !.noted = note,
                                                        !.receivable = rest]]
        BY <1>0, <3>2
      <4> QED BY <1>0, <4>2, <4>3
    <3> QED BY <3>4, <3>5
  <2> QED BY <1>0, <1>1, <2>1, <2>2, <2>3, <2>4 DEF Priced, Balances
<1> QED BY <1>3, <1>4, <1>5, <1>6 DEF Next

-----------------------------------------------------------------------------
\* The customer's side, handler by handler.

\* A handler that leaves the customer's returns alone.
LEMMA CustomerFrame ==
  ASSUME CustomerSide, oret' = oret, order'.status = "REFUNDED" <=> order.status = "REFUNDED"
  PROVE  CustomerSide'
BY DEF CustomerSide, Returned, ReturnedValue

LEMMA PaymentFrame ==
  ASSUME PaymentSide, oret' = oret, order' = order, Settled("Order")' = Settled("Order")
  PROVE  PaymentSide'
<1>1. Collected' = Collected
  BY DEF Collected
<1> QED BY <1>1 DEF PaymentSide, PaidMeansCollected, RefundedTogether, NoRefundWithoutMoney

\* The part of a return is priced when it is asked for.
LEMMA ReturnRequested ==
  ASSUME Priced, Priced', CustomerSide, PaymentSide,
         NEW r \in OrderReturns, NEW q \in 1..Units, RequestReturn(r, q)
  PROVE  CustomerSide' /\ PaymentSide'
<1>1. /\ oret \in [OrderReturns -> OrderReturnRows(Nat)] /\ oret' \in [OrderReturns -> OrderReturnRows(Nat)]
      /\ SettledWithCause /\ q \in Nat /\ q > 0
  BY SettlementAssumption DEF Priced, IInv
<1>2. /\ oret[r].status = "NONE" /\ oret[r].settledBy = "NONE"
      /\ \A y \in OrderReturns \ {r} : oret'[y] = oret[y]
      /\ oret'[r].status = "REQUESTED" /\ oret'[r].settledBy = "NONE" /\ oret'[r].quantity = q
      /\ oret'[r].amount = Allocate(GoodsTotal, ReturnedValue(Claiming), Units, Returned(Claiming), q)
      /\ Returned(Claiming) + q <= Units
      /\ order' = order /\ txn' = txn
  BY <1>1 DEF RequestReturn, SettledWithCause, OrderReturnRows
<1>3. Requested(oret, oret', r, Claiming, GoodsTotal, Units, OrderReturns)
  <2>1. AreParts(oret, OrderReturns) /\ AreParts(oret', OrderReturns)
    BY <1>1, OrderParts
  <2>2. "NONE" \notin Claiming /\ oret'[r].status \in Claiming
    BY <1>2 DEF Claiming
  <2>3. /\ Returned(Claiming) = SumFunctionOnSet(Quantities(oret), InStatus(oret, Claiming))
        /\ ReturnedValue(Claiming) = SumFunctionOnSet(Amounts(oret), InStatus(oret, Claiming))
    BY DEF Returned, ReturnedValue
  <2> QED BY <1>1, <1>2, <2>1, <2>2, <2>3, SettlementAssumption DEF Requested
<1>4. /\ SharedFairly(oret', Claiming, GoodsTotal, Units)
      /\ Returned(Claiming)' = Returned(Claiming) + q
      /\ ReturnedValue(Claiming)' = ReturnedValue(Claiming) + oret'[r].amount
      /\ Returned(Claiming) + q = Units => ReturnedValue(Claiming)' = GoodsTotal
  <2>1. SharedFairly(oret, Claiming, GoodsTotal, Units)
    BY DEF CustomerSide
  <2>2. /\ Returned(Claiming) = SumFunctionOnSet(Quantities(oret), InStatus(oret, Claiming))
        /\ ReturnedValue(Claiming) = SumFunctionOnSet(Amounts(oret), InStatus(oret, Claiming))
        /\ Returned(Claiming)' = SumFunctionOnSet(Quantities(oret'), InStatus(oret', Claiming))
        /\ ReturnedValue(Claiming)' = SumFunctionOnSet(Amounts(oret'), InStatus(oret', Claiming))
    BY DEF Returned, ReturnedValue, Quantities, Amounts, InStatus
  <2> QED BY <1>2, <1>3, <2>1, <2>2, RequestShares
<1>5. Returned({"COMPLETED"})' = Returned({"COMPLETED"}) /\ PaidOut' = PaidOut
  <2> DEFINE c == Returned({"COMPLETED"})
             d == PaidOut
  <2>1. c \in Nat /\ Returned({"COMPLETED"})' = c - 0 + 0
    BY <1>1, <1>2, ReturnWritten
  <2>2. d \in Nat /\ PaidOut' = d - 0 + 0
    BY <1>1, <1>2, ReturnWritten
  <2> HIDE DEF c, d
  <2>3. c - 0 + 0 = c /\ d - 0 + 0 = d
    BY <2>1, <2>2
  <2> QED BY <2>1, <2>2, <2>3 DEF c, d
<1>6. CustomerSide'
  <2>1. \A y \in OrderReturns : oret'[y].status # "NONE" => oret'[y].quantity > 0
    BY <1>1, <1>2 DEF CustomerSide
  <2>2. order'.status = "REFUNDED" <=> Returned({"COMPLETED"})' = Units
    BY <1>2, <1>5 DEF CustomerSide
  <2> QED BY <1>2, <1>4, <2>1, <2>2 DEF CustomerSide
<1>7. PaymentSide'
  <2>1. Collected' = Collected
    BY <1>2 DEF Collected, Settled, Gross, Amounts, InStatus
  <2> QED BY <1>2, <1>5, <2>1 DEF PaymentSide, PaidMeansCollected, RefundedTogether, NoRefundWithoutMoney, PaidOut
<1> QED BY <1>6, <1>7

\* An inspection begins, or the return is rejected and its units may be asked for again.
LEMMA ReturnMoved ==
  ASSUME Priced, Priced', CustomerSide, PaymentSide, NEW r \in OrderReturns,
         StartReturnInspection(r) \/ RejectReturn(r)
  PROVE  CustomerSide' /\ PaymentSide'
<1>1. /\ oret \in [OrderReturns -> OrderReturnRows(Nat)] /\ oret' \in [OrderReturns -> OrderReturnRows(Nat)]
      /\ SettledWithCause
  BY DEF Priced, IInv
<1>2. /\ oret[r].status \in {"REQUESTED", "INSPECTION"} /\ oret'[r].status \in {"INSPECTION", "REJECTED"}
      /\ oret'[r].settledBy = oret[r].settledBy /\ oret'[r].quantity = oret[r].quantity
      /\ oret'[r].amount = oret[r].amount
      /\ \A y \in OrderReturns \ {r} : oret'[y] = oret[y]
      /\ order' = order /\ txn' = txn
  BY <1>1 DEF StartReturnInspection, RejectReturn, OrderReturnRows
<1> DEFINE q == oret[r].quantity
           u == Returned(Claiming)
           c == Returned({"COMPLETED"})
           d == PaidOut
           v == ReturnedValue(Claiming)
<1>3. q \in Nat /\ q > 0 /\ oret[r].amount \in Nat
  BY <1>1, <1>2 DEF OrderReturnRows, CustomerSide
<1>4. u \in Nat /\ Returned(Claiming)' = u - q + (IF oret'[r].status \in Claiming THEN q ELSE 0)
  BY <1>1, <1>2, ReturnWritten DEF Claiming
<1>4a. v \in Nat /\ ReturnedValue(Claiming)' = v - oret[r].amount
                      + (IF oret'[r].status \in Claiming THEN oret[r].amount ELSE 0)
  BY <1>1, <1>2, ReturnWritten DEF Claiming
<1>5. c \in Nat /\ Returned({"COMPLETED"})' = c - 0 + 0
  BY <1>1, <1>2, ReturnWritten
<1>6. oret[r].settledBy = "NONE"
  BY <1>1, <1>2 DEF SettledWithCause, OrderReturnRows
<1>7. d \in Nat /\ PaidOut' = d - 0 + 0
  BY <1>1, <1>2, <1>6, ReturnWritten
<1>8. u <= Units /\ (u = Units => v = GoodsTotal)
  BY DEF CustomerSide
<1>9. SharedFairly(oret', Claiming, GoodsTotal, Units)
  <2>1. AreParts(oret, OrderReturns) /\ AreParts(oret', OrderReturns)
    BY <1>1, OrderParts
  <2>2. InStatus(oret', Claiming) \subseteq InStatus(oret, Claiming)
    BY <1>1, <1>2 DEF InStatus, Claiming
  <2>3. /\ \A y \in OrderReturns : oret'[y].quantity = oret[y].quantity /\ oret'[y].amount = oret[y].amount
        /\ \A y \in OrderReturns : oret'[y].status # "NONE" <=> oret[y].status # "NONE"
    BY <1>2
  <2>4. SharedFairly(oret, Claiming, GoodsTotal, Units)
    BY DEF CustomerSide
  <2> QED BY <2>1, <2>2, <2>3, <2>4, FewerShares
<1>10. \A y \in OrderReturns : oret'[y].status # "NONE" => oret'[y].quantity > 0
  BY <1>2 DEF CustomerSide
<1>11. order.status = "REFUNDED" <=> c = Units
  BY DEF CustomerSide
<1>12. oret[r].amount \in Nat
  BY <1>3
<1> DEFINE a == oret[r].amount
<1> HIDE DEF q, u, c, d, v, a
<1>13. Returned({"COMPLETED"})' = c /\ PaidOut' = d
  BY <1>5, <1>7
<1>14. Returned(Claiming)' <= Units /\ (Returned(Claiming)' = Units => ReturnedValue(Claiming)' = GoodsTotal)
  <2>1. CASE oret'[r].status \in Claiming
    <3>1. Returned(Claiming)' = u
      BY <1>3, <1>4, <2>1
    <3>2. ReturnedValue(Claiming)' = v
      BY <1>4a, <1>12, <2>1 DEF a
    <3> QED BY <1>8, <3>1, <3>2
  <2>2. CASE oret'[r].status \notin Claiming
    <3>1. Returned(Claiming)' = u - q
      BY <1>3, <1>4, <2>2
    <3>2. u \in Nat /\ q \in Nat /\ q > 0 /\ u <= Units /\ Units \in Nat
      BY <1>3, <1>4, <1>8, SettlementAssumption
    <3>3. u - q <= Units /\ u - q # Units
      BY ONLY <3>2
    <3> QED BY <3>1, <3>3
  <2> QED BY <2>1, <2>2
<1>15. CustomerSide'
  BY <1>2, <1>9, <1>10, <1>11, <1>13, <1>14 DEF CustomerSide
<1>16. PaymentSide'
  <2>1. Collected' = Collected
    BY <1>2 DEF Collected, Settled, Gross, Amounts, InStatus
  <2> QED BY <1>2, <1>13, <2>1 DEF PaymentSide, PaidMeansCollected, RefundedTogether, NoRefundWithoutMoney, PaidOut, d
<1> QED BY <1>15, <1>16

\* Where prices are ample, what the customer asks back is at most the goods' gross.
LEMMA ReturnsAreWorthNoMore ==
  ASSUME Priced, CustomerSide, AmplePrices
  PROVE  ReturnedValue(Claiming) <= GoodsTotal
<1>1. AreParts(oret, OrderReturns)
  BY OrderParts DEF Priced
<1>2. Units * Cardinality(OrderReturns) <= 2 * GoodsTotal /\ SharedFairly(oret, Claiming, GoodsTotal, Units)
  BY DEF AmplePrices, CustomerSide
<1>3. /\ SumFunctionOnSet(Quantities(oret), InStatus(oret, Claiming)) <= Units
      /\ SumFunctionOnSet(Quantities(oret), InStatus(oret, Claiming)) = Units
           => SumFunctionOnSet(Amounts(oret), InStatus(oret, Claiming)) = GoodsTotal
  BY DEF CustomerSide, Returned, ReturnedValue
<1>4. GoodsTotal \in Nat /\ Units \in Nat \ {0}
  BY SettlementAssumption
<1>5. SumFunctionOnSet(Amounts(oret), InStatus(oret, Claiming)) <= GoodsTotal
  BY <1>1, <1>2, <1>3, <1>4, SharesBounded
<1> QED BY <1>5 DEF ReturnedValue

\* confirmOrderReturn: the goods are back, and the money goes the way it came.
LEMMA ReturnConfirmed ==
  ASSUME Priced, Priced', CustomerSide, PaymentSide, NEW r \in OrderReturns, NEW original,
         ConfirmReturn(r, original)
  PROVE  CustomerSide' /\ PaymentSide'
<1>1. /\ oret \in [OrderReturns -> OrderReturnRows(Nat)] /\ oret' \in [OrderReturns -> OrderReturnRows(Nat)]
      /\ SettledWithCause /\ SettledWithCause' /\ RefundedTogether' /\ order \in OrderRow
  BY DEF Priced, IInv, Shape
<1> DEFINE reduce == ReducesReceivable(original)
           full == Returned({"COMPLETED"}) + oret[r].quantity >= Units
<1>2. /\ oret[r].status = "INSPECTION" /\ oret'[r].status = "COMPLETED"
      /\ oret'[r].settledBy = (IF reduce THEN "RECEIVABLE" ELSE "PAYOUT")
      /\ oret'[r].quantity = oret[r].quantity /\ oret'[r].amount = oret[r].amount
      /\ \A y \in OrderReturns \ {r} : oret'[y] = oret[y]
      /\ txn' = txn
  BY <1>1, Zenon DEF ConfirmReturn, OrderReturnRows
<1>3. order' = IF full THEN [order EXCEPT !.status = "REFUNDED", !.payment = "REFUNDED"] ELSE order
  BY DEF ConfirmReturn
<1> DEFINE q == oret[r].quantity
           a == oret[r].amount
           u == Returned(Claiming)
           v == ReturnedValue(Claiming)
           c == Returned({"COMPLETED"})
           d == PaidOut
<1>4. q \in Nat /\ q > 0 /\ a \in Nat
  BY <1>1, <1>2 DEF OrderReturnRows, CustomerSide
<1>5. u \in Nat /\ Returned(Claiming)' = u - q + q /\ v \in Nat /\ ReturnedValue(Claiming)' = v - a + a
  BY <1>1, <1>2, ReturnWritten DEF Claiming
<1>6. c \in Nat /\ Returned({"COMPLETED"})' = c - 0 + q
  BY <1>1, <1>2, ReturnWritten
<1>7. oret[r].settledBy = "NONE"
  BY <1>1, <1>2 DEF SettledWithCause, OrderReturnRows
<1>8. d \in Nat /\ PaidOut' = d - 0 + (IF reduce THEN 0 ELSE a)
  BY <1>1, <1>2, <1>7, ReturnWritten
<1>9. u <= Units /\ (u = Units => v = GoodsTotal) /\ (order.status = "REFUNDED" <=> c = Units)
  BY DEF CustomerSide
<1>10. AreParts(oret, OrderReturns) /\ AreParts(oret', OrderReturns)
  BY <1>1, OrderParts
<1>11. SharedFairly(oret', Claiming, GoodsTotal, Units)
  <2>1. InStatus(oret', Claiming) \subseteq InStatus(oret, Claiming)
    BY <1>1, <1>2 DEF InStatus, Claiming
  <2>2. /\ \A y \in OrderReturns : oret'[y].quantity = oret[y].quantity /\ oret'[y].amount = oret[y].amount
        /\ \A y \in OrderReturns : oret'[y].status # "NONE" <=> oret[y].status # "NONE"
    BY <1>2
  <2>3. SharedFairly(oret, Claiming, GoodsTotal, Units)
    BY DEF CustomerSide
  <2> QED BY <1>10, <2>1, <2>2, <2>3, FewerShares
<1>12. \A y \in OrderReturns : oret'[y].status # "NONE" => oret'[y].quantity > 0
  BY <1>2 DEF CustomerSide
\* What is completed, and what is paid out, is among what is claimed.
<1>13. Returned({"COMPLETED"})' <= Returned(Claiming)' /\ PaidOut' <= ReturnedValue(Claiming)'
  <2> DEFINE A == InStatus(oret', Claiming)
             B == InStatus(oret', {"COMPLETED"})
             P == {y \in OrderReturns : oret'[y].settledBy = "PAYOUT"}
  <2>1. A \in SUBSET OrderReturns /\ B \in SUBSET A /\ P \in SUBSET A
    <3>1. \A y \in OrderReturns : oret'[y].settledBy = "PAYOUT" => oret'[y].status = "COMPLETED"
      BY <1>1 DEF SettledWithCause
    <3> QED BY <1>1, <3>1 DEF InStatus, Claiming
  <2>2. /\ Returned({"COMPLETED"})' = SumFunctionOnSet(Quantities(oret'), B)
        /\ Returned(Claiming)' = SumFunctionOnSet(Quantities(oret'), A)
        /\ ReturnedValue(Claiming)' = SumFunctionOnSet(Amounts(oret'), A)
        /\ PaidOut' = SumFunctionOnSet(Amounts(oret'), P)
    BY DEF Returned, ReturnedValue, PaidOut, Quantities, Amounts, InStatus
  <2> HIDE DEF A, B, P
  <2>3. SumFunctionOnSet(Quantities(oret'), B) <= SumFunctionOnSet(Quantities(oret'), A)
    BY <1>10, <2>1, SomeOfTheParts
  <2>4. SumFunctionOnSet(Amounts(oret'), P) <= SumFunctionOnSet(Amounts(oret'), A)
    BY <1>10, <2>1, SomeOfTheParts
  <2> QED BY <2>2, <2>3, <2>4
<1>14. full <=> c + q >= Units
  OBVIOUS
<1>15. order'.method = order.method /\ order'.status = (IF full THEN "REFUNDED" ELSE order.status)
       /\ order'.payment = (IF full THEN "REFUNDED" ELSE order.payment)
  BY <1>1, <1>3 DEF OrderRow
<1>16. Collected' = Collected
  BY <1>2, <1>15 DEF Collected, Settled, Gross, Amounts, InStatus
<1>17. ~reduce => Collected = Total
  BY DEF ReducesReceivable, PaymentSide, PaidMeansCollected, Collected
<1>18. AmplePrices => v <= GoodsTotal
  BY ReturnsAreWorthNoMore
<1>19. Units \in Nat /\ GoodsTotal \in Nat /\ Total \in Nat /\ GoodsTotal <= Total
  BY SettlementAssumption
<1> HIDE DEF q, a, u, v, c, d, full, reduce
<1>20. /\ Returned(Claiming)' = u /\ ReturnedValue(Claiming)' = v /\ Returned({"COMPLETED"})' = c + q
       /\ c + q <= u
  BY <1>4, <1>5, <1>6, <1>13
<1>21. order'.status = "REFUNDED" <=> c + q = Units
  <2>1. CASE full
    BY <1>4, <1>5, <1>6, <1>9, <1>14, <1>15, <1>19, <1>20, <2>1
  <2>2. CASE ~full
    <3>1. c + q < Units /\ c # Units
      BY <1>4, <1>6, <1>14, <1>19, <2>2
    <3> QED BY <1>4, <1>6, <1>9, <1>15, <1>19, <2>2, <3>1
  <2> QED BY <2>1, <2>2
<1>22. CustomerSide'
  BY <1>9, <1>11, <1>12, <1>20, <1>21 DEF CustomerSide
<1>23. PaidMeansCollected'
  <2>1. PaidMeansCollected
    BY DEF PaymentSide
  <2>2. order'.payment = "PAID" <=> Collected' = Total /\ order'.status # "REFUNDED"
    BY <1>15, <1>16, <2>1 DEF PaidMeansCollected
  <2> QED BY <1>1, <1>16, <2>1, <2>2 DEF PaidMeansCollected
<1>24. ASSUME AmplePrices PROVE NoRefundWithoutMoney'
  <2>1. d <= Collected
    BY <1>24 DEF PaymentSide, NoRefundWithoutMoney, d, PaidOut
  <2>2. PaidOut' <= Collected
    <3>1. CASE reduce
      BY <1>8, <2>1, <3>1
    <3>2. CASE ~reduce
      <4>1. PaidOut' <= v /\ PaidOut' \in Int
        BY <1>4, <1>8, <1>13, <1>20
      <4> QED BY <1>5, <1>17, <1>18, <1>19, <1>24, <3>2, <4>1
    <3> QED BY <3>1, <3>2
  <2> QED BY <1>16, <2>2 DEF NoRefundWithoutMoney, PaidOut
<1> QED BY <1>22, <1>23, <1>24 DEF PaymentSide, AmplePrices

\* post of a customer receipt: what is collected grows by what was open.
LEMMA ReceiptPosted ==
  ASSUME Priced, Priced', CustomerSide, PaymentSide, NEW t \in Txns, PostReceipt(t)
  PROVE  CustomerSide' /\ PaymentSide'
<1> DEFINE a == txn[t].amount
           s == Settled("Order")
<1>1. /\ a \in Nat /\ s \in Nat /\ a <= Positive(Total - s) /\ Settled("Order")' = s + a
  <2>1. Post(t, "Order") /\ "Order" \in References /\ IInv'
    BY DEF PostReceipt, References, Priced
  <2>2. Owed("Order") = Total
    BY <2>1, OwedType
  <2> QED BY <2>1, <2>2, PostSettles
<1>2. order.status \in {"SHIPPED", "COMPLETED"} /\ order.method \in Credit /\ oret' = oret
  BY DEF PostReceipt, Post, Settleable
<1>3. order' = [order EXCEPT !.payment = IF s + a >= Total THEN "PAID" ELSE @]
  BY DEF PostReceipt
<1>4. order \in OrderRow /\ RefundedTogether' /\ PaidMeansCollected
  BY DEF Priced, IInv, Shape, PaymentSide
<1>5. /\ order'.status = order.status /\ order'.method = order.method
      /\ order'.payment = IF s + a >= Total THEN "PAID" ELSE order.payment
  BY <1>3, <1>4 DEF OrderRow
<1>6. Collected = s /\ Collected' = s + a
  BY <1>1, <1>2, <1>5 DEF Collected
<1>7. CustomerSide'
  BY <1>2, <1>5, CustomerFrame
<1>8. s <= Total /\ (order.payment = "PAID" <=> s = Total /\ order.status # "REFUNDED")
  BY <1>4, <1>6 DEF PaidMeansCollected
<1>9. Total \in Nat
  BY SettlementAssumption
<1> HIDE DEF a, s
<1>10. s + a <= Total /\ (order'.payment = "PAID" <=> s + a = Total /\ order'.status # "REFUNDED")
  <2>1. s + a <= Total
    BY <1>1, <1>8, <1>9 DEF Positive
  <2>2. CASE s + a >= Total
    BY <1>1, <1>2, <1>5, <1>9, <2>1, <2>2
  <2>3. CASE ~(s + a >= Total)
    <3>1. s # Total /\ s + a # Total
      BY <1>1, <1>9, <2>3
    <3> QED BY <1>5, <1>8, <2>1, <2>3, <3>1
  <2> QED BY <2>1, <2>2, <2>3
<1>11. PaidMeansCollected'
  BY <1>4, <1>6, <1>10 DEF PaidMeansCollected
<1>12. ASSUME AmplePrices PROVE NoRefundWithoutMoney'
  <2>1. PaidOut <= s /\ PaidOut \in Nat
    <3>1. AreParts(oret, OrderReturns)
      BY OrderParts DEF Priced
    <3>2. {r \in OrderReturns : oret[r].settledBy = "PAYOUT"} \in SUBSET OrderReturns
      OBVIOUS
    <3>3. PaidOut \in Nat
      BY <3>1, <3>2, PartSums DEF PaidOut
    <3> QED BY <1>6, <1>12, <3>3 DEF PaymentSide, NoRefundWithoutMoney, PaidOut
  <2>2. PaidOut' = PaidOut
    BY <1>2 DEF PaidOut
  <2>3. PaidOut <= s + a
    BY <1>1, <2>1
  <2> QED BY <1>6, <2>2, <2>3 DEF NoRefundWithoutMoney, PaidOut
<1> QED BY <1>7, <1>11, <1>12 DEF PaymentSide, AmplePrices

-----------------------------------------------------------------------------
\* The supplier's side, handler by handler.

LEMMA SupplierFrame ==
  ASSUME SupplierSide, pret' = pret, receipt' = receipt
  PROVE  SupplierSide'
BY DEF SupplierSide, BackToSupplier, BackToSupplierValue

LEMMA PayableFrame ==
  ASSUME PayableSide, pret' = pret, receipt' = receipt, books'.payable = books.payable,
         books'.supplierReceivable = books.supplierReceivable,
         \A ref : ref # "Order" => Settled(ref)' = Settled(ref)
  PROVE  PayableSide'
<1>1. Settled("GoodsReceipt")' = Settled("GoodsReceipt") /\ Owed("GoodsReceipt")' = Owed("GoodsReceipt")
  BY DEF Owed, SentBack
<1>2. \A p \in PurchaseReturns : Settled(p)' = Settled(p)
  BY SettlementAssumption
<1>3. PayableNeverNegative'
  BY <1>1 DEF PayableSide, PayablesAgree, PayableNeverNegative
<1>4. RefundsCovered'
  <2>1. [p \in PurchaseReturns |-> pret'[p].receivable - Settled(p)']
          = [p \in PurchaseReturns |-> pret[p].receivable - Settled(p)]
    BY <1>2
  <2> QED BY <1>2, <2>1 DEF PayableSide, PayablesAgree, RefundsCovered
<1> QED BY <1>3, <1>4 DEF PayableSide, PayablesAgree

\* What has a settled part, and what is still to come from the supplier.
StillToCome == [p \in PurchaseReturns |-> pret[p].receivable - Settled(p)]

\* Writing one return, or what is settled of it, moves account 1202 with it.
LEMMA ReceivableWritten ==
  ASSUME Priced, Priced', RefundsCovered, NEW p \in PurchaseReturns,
         \A o \in PurchaseReturns \ {p} : pret'[o] = pret[o] /\ Settled(o)' = Settled(o),
         books'.supplierReceivable = books.supplierReceivable
           - (pret[p].receivable - Settled(p)) + (pret'[p].receivable - Settled(p)'),
         Settled(p)' <= pret'[p].receivable
  PROVE  RefundsCovered'
<1> DEFINE f == StillToCome
           g == StillToCome'
<1>1. /\ \A o \in PurchaseReturns : pret[o].receivable \in Nat /\ pret'[o].receivable \in Nat
      /\ txn \in [Txns -> TxnRows] /\ txn' \in [Txns -> TxnRows]
  BY DEF Priced, PurchaseReturnRows, IInv, Shape
<1>2. \A o \in PurchaseReturns : Settled(o) \in Nat
  BY <1>1, GrossType DEF Settled
<1>3. Settled(p)' \in Int
  <2> DEFINE R == {t \in Txns \cap InStatus(txn', {"POSTED"}) : txn'[t].ref = p}
  <2>1. IsFiniteSet(R) /\ \A t \in R : Amounts(txn')[t] \in Int
    BY <1>1, FS_Subset, SettlementAssumption DEF Amounts, TxnRows
  <2>2. SumFunctionOnSet(Amounts(txn'), R) \in Int
    BY <2>1, SumType
  <2> QED BY <2>2 DEF Settled, Gross, Amounts, InStatus
<1>4. /\ DOMAIN f = PurchaseReturns /\ DOMAIN g = PurchaseReturns
      /\ \A o \in PurchaseReturns : f[o] \in Int
      /\ f[p] = pret[p].receivable - Settled(p) /\ g[p] = pret'[p].receivable - Settled(p)' /\ g[p] \in Int
      /\ \A o \in PurchaseReturns \ {p} : g[o] = f[o]
  BY <1>1, <1>2, <1>3 DEF StillToCome
<1>5. books.supplierReceivable = SumFunction(f)
  BY DEF RefundsCovered, StillToCome
<1>6. \A o \in PurchaseReturns : Settled(o)' <= pret'[o].receivable
  BY DEF RefundsCovered
<1> HIDE DEF f, g
<1>7. SumFunction(g) = SumFunction(f) - f[p] + g[p]
  BY <1>4, SumUpdated, SettlementAssumption
<1>8. books'.supplierReceivable = SumFunction(g)
  BY <1>4, <1>5, <1>7
<1> QED BY <1>6, <1>8 DEF RefundsCovered, StillToCome, g

\* post of a supplier payment: the debt falls by what was open.
LEMMA PaymentPosted ==
  ASSUME Priced, Priced', PayableSide, NEW t \in Txns, PostPayment(t)
  PROVE  PayableSide'
<1> DEFINE a == txn[t].amount
           s == Settled("GoodsReceipt")
           o == Owed("GoodsReceipt")
           b == books.payable
<1>0. Post(t, "GoodsReceipt") /\ "GoodsReceipt" \in References /\ IInv'
  BY DEF PostPayment, References, Priced
<1>1. /\ a \in Nat /\ s \in Nat /\ o \in Int /\ a <= Positive(o - s) /\ Settled("GoodsReceipt")' = s + a
      /\ \A other : other # "GoodsReceipt" => Settled(other)' = Settled(other)
  BY <1>0, PostSettles
<1>2. receipt = "CONFIRMED" /\ receipt' = receipt /\ pret' = pret
  BY <1>0 DEF Post, Settleable
<1>3. /\ books \in Balances
      /\ books' = [books EXCEPT !.cash = @ - a, !.payable = @ - a]
  BY DEF PostPayment, Priced, Balances
<1>4. /\ b \in Int /\ books'.payable = b - a /\ books'.supplierReceivable = books.supplierReceivable
  BY <1>3 DEF Balances
<1>5. Owed("GoodsReceipt")' = o
  BY <1>2 DEF Owed, SentBack
<1>6. b = Positive(o - s)
  BY <1>2 DEF PayableSide, PayablesAgree, PayableNeverNegative
<1>7. RefundsCovered'
  <2>1. \A p \in PurchaseReturns : Settled(p)' = Settled(p)
    BY <1>1, SettlementAssumption
  <2>2. [p \in PurchaseReturns |-> pret'[p].receivable - Settled(p)']
          = [p \in PurchaseReturns |-> pret[p].receivable - Settled(p)]
    BY <1>2, <2>1
  <2> QED BY <1>2, <1>4, <2>1, <2>2 DEF PayableSide, PayablesAgree, RefundsCovered
<1> HIDE DEF a, s, o, b
<1>8. books'.payable >= 0 /\ books'.payable = Positive(o - (s + a))
  BY <1>1, <1>4, <1>6 DEF Positive
<1> QED BY <1>1, <1>2, <1>5, <1>7, <1>8 DEF PayableSide, PayablesAgree, PayableNeverNegative

\* post of a supplier's refund: the claim falls by what was open.
LEMMA RefundPosted ==
  ASSUME Priced, Priced', PayableSide, NEW t \in Txns, NEW p \in PurchaseReturns, PostRefund(t, p)
  PROVE  PayableSide'
<1> DEFINE a == txn[t].amount
           s == Settled(p)
           r == pret[p].receivable
           b == books.supplierReceivable
<1>0. Post(t, p) /\ p \in References /\ p # "GoodsReceipt" /\ p # "Order" /\ IInv'
  BY SettlementAssumption DEF PostRefund, References, Priced
<1>1. /\ a \in Nat /\ s \in Nat /\ a <= Positive(r - s) /\ Settled(p)' = s + a
      /\ \A other : other # p => Settled(other)' = Settled(other)
  <2>1. Owed(p) = r
    BY <1>0, OwedType
  <2> QED BY <1>0, <2>1, PostSettles
<1>2. receipt' = receipt /\ pret' = pret
  BY <1>0 DEF Post
<1>3. /\ books \in Balances
      /\ books' = [books EXCEPT !.cash = @ + a, !.supplierReceivable = @ - a]
  BY DEF PostRefund, Priced, Balances
<1>4. /\ b \in Int /\ books'.supplierReceivable = b - a /\ books'.payable = books.payable
  BY <1>3 DEF Balances
<1>5. r \in Nat /\ s <= r /\ RefundsCovered
  BY DEF Priced, PurchaseReturnRows, PayableSide, PayablesAgree, RefundsCovered
<1>6. PayableNeverNegative' /\ (receipt' = "NONE" => books'.payable = 0)
  <2>1. Settled("GoodsReceipt")' = Settled("GoodsReceipt") /\ Owed("GoodsReceipt")' = Owed("GoodsReceipt")
    BY <1>0, <1>1, <1>2 DEF Owed, SentBack
  <2> QED BY <1>2, <1>4, <2>1 DEF PayableSide, PayablesAgree, PayableNeverNegative
<1>7. \A other \in PurchaseReturns \ {p} : pret'[other] = pret[other] /\ Settled(other)' = Settled(other)
  BY <1>1, <1>2
<1>8. pret'[p].receivable = r
  BY <1>2
<1> HIDE DEF a, s, r, b
<1>9. books'.supplierReceivable = b - (r - s) + (r - (s + a)) /\ s + a <= r
  BY <1>1, <1>4, <1>5 DEF Positive
<1>10. RefundsCovered'
  BY <1>1, <1>5, <1>7, <1>8, <1>9, ReceivableWritten DEF a, s, r, b
<1> QED BY <1>6, <1>10 DEF PayableSide, PayablesAgree

\* What went back and was confirmed, with one return written.
LEMMA SentBackWritten ==
  ASSUME Priced, Priced', NEW p \in PurchaseReturns,
         \A o \in PurchaseReturns \ {p} : pret'[o] = pret[o]
  PROVE  /\ SentBack(PurchaseReturns) \in Nat
         /\ SentBack(PurchaseReturns)' = SentBack(PurchaseReturns)
              - (IF pret[p].status = "COMPLETED" THEN pret[p].amount ELSE 0)
              + (IF pret'[p].status = "COMPLETED" THEN pret'[p].amount ELSE 0)
         /\ pret[p].status # "COMPLETED" =>
              SentBack(PurchaseReturns \ {p}) = SentBack(PurchaseReturns)
         /\ BackToSupplier \in Nat /\ BackToSupplierValue \in Nat
         /\ BackToSupplier' = BackToSupplier
              - (IF pret[p].status \in LivePurchaseReturns THEN pret[p].quantity ELSE 0)
              + (IF pret'[p].status \in LivePurchaseReturns THEN pret'[p].quantity ELSE 0)
         /\ BackToSupplierValue' = BackToSupplierValue
              - (IF pret[p].status \in LivePurchaseReturns THEN pret[p].amount ELSE 0)
              + (IF pret'[p].status \in LivePurchaseReturns THEN pret'[p].amount ELSE 0)
<1>1. AreParts(pret, PurchaseReturns) /\ AreParts(pret', PurchaseReturns)
  BY SupplierParts DEF Priced
<1>2. DOMAIN pret = PurchaseReturns /\ DOMAIN pret' = PurchaseReturns
  BY <1>1 DEF AreParts
<1>3. /\ SentBack(PurchaseReturns) \in Nat
      /\ SentBack(PurchaseReturns)' = SentBack(PurchaseReturns)
           - (IF pret[p].status = "COMPLETED" THEN pret[p].amount ELSE 0)
           + (IF pret'[p].status = "COMPLETED" THEN pret'[p].amount ELSE 0)
  <2> DEFINE A == PurchaseReturns \cap InStatus(pret, {"COMPLETED"})
             B == PurchaseReturns \cap InStatus(pret', {"COMPLETED"})
  <2>1. /\ A \in SUBSET PurchaseReturns /\ B \in SUBSET PurchaseReturns
        /\ \A o \in PurchaseReturns \ {p} : o \in B <=> o \in A
        /\ p \in A <=> pret[p].status = "COMPLETED"
        /\ p \in B <=> pret'[p].status = "COMPLETED"
    BY <1>2 DEF InStatus
  <2>2. SentBack(PurchaseReturns) = SumFunctionOnSet(Amounts(pret), A)
        /\ SentBack(PurchaseReturns)' = SumFunctionOnSet(Amounts(pret'), B)
    BY DEF SentBack, Amounts, InStatus
  <2> HIDE DEF A, B
  <2>3. SumFunctionOnSet(Amounts(pret), A) \in Nat
    BY <1>1, <2>1, PartSums
  <2>4. SumFunctionOnSet(Amounts(pret'), B) = SumFunctionOnSet(Amounts(pret), A)
          - (IF p \in A THEN pret[p].amount ELSE 0) + (IF p \in B THEN pret'[p].amount ELSE 0)
    BY <1>1, <2>1, PartWritten
  <2> QED BY <2>1, <2>2, <2>3, <2>4
<1>4. pret[p].status # "COMPLETED" => SentBack(PurchaseReturns \ {p}) = SentBack(PurchaseReturns)
  <2> SUFFICES ASSUME pret[p].status # "COMPLETED"
               PROVE  SentBack(PurchaseReturns \ {p}) = SentBack(PurchaseReturns)
    OBVIOUS
  <2>1. (PurchaseReturns \ {p}) \cap InStatus(pret, {"COMPLETED"})
          = PurchaseReturns \cap InStatus(pret, {"COMPLETED"})
    BY DEF InStatus
  <2> QED BY <2>1 DEF SentBack
<1>5. /\ BackToSupplier \in Nat /\ BackToSupplierValue \in Nat
      /\ BackToSupplier' = BackToSupplier
           - (IF pret[p].status \in LivePurchaseReturns THEN pret[p].quantity ELSE 0)
           + (IF pret'[p].status \in LivePurchaseReturns THEN pret'[p].quantity ELSE 0)
      /\ BackToSupplierValue' = BackToSupplierValue
           - (IF pret[p].status \in LivePurchaseReturns THEN pret[p].amount ELSE 0)
           + (IF pret'[p].status \in LivePurchaseReturns THEN pret'[p].amount ELSE 0)
  <2> DEFINE A == InStatus(pret, LivePurchaseReturns)
             B == InStatus(pret', LivePurchaseReturns)
  <2>1. /\ A \in SUBSET PurchaseReturns /\ B \in SUBSET PurchaseReturns
        /\ \A o \in PurchaseReturns \ {p} : o \in B <=> o \in A
        /\ p \in A <=> pret[p].status \in LivePurchaseReturns
        /\ p \in B <=> pret'[p].status \in LivePurchaseReturns
    BY <1>2 DEF InStatus
  <2>2. /\ BackToSupplier = SumFunctionOnSet(Quantities(pret), A)
        /\ BackToSupplier' = SumFunctionOnSet(Quantities(pret'), B)
        /\ BackToSupplierValue = SumFunctionOnSet(Amounts(pret), A)
        /\ BackToSupplierValue' = SumFunctionOnSet(Amounts(pret'), B)
    BY DEF BackToSupplier, BackToSupplierValue, Quantities, Amounts, InStatus
  <2> HIDE DEF A, B
  <2>3. SumFunctionOnSet(Quantities(pret), A) \in Nat /\ SumFunctionOnSet(Amounts(pret), A) \in Nat
    BY <1>1, <2>1, PartSums
  <2>4. /\ SumFunctionOnSet(Quantities(pret'), B) = SumFunctionOnSet(Quantities(pret), A)
             - (IF p \in A THEN pret[p].quantity ELSE 0) + (IF p \in B THEN pret'[p].quantity ELSE 0)
        /\ SumFunctionOnSet(Amounts(pret'), B) = SumFunctionOnSet(Amounts(pret), A)
             - (IF p \in A THEN pret[p].amount ELSE 0) + (IF p \in B THEN pret'[p].amount ELSE 0)
    BY <1>1, <2>1, PartWritten
  <2> QED BY <2>1, <2>2, <2>3, <2>4
<1> QED BY <1>3, <1>4, <1>5

\* createPurchaseReturn: priced like a part, and nothing booked.
LEMMA GoodsSentBack ==
  ASSUME Priced, Priced', SupplierSide, PayableSide,
         NEW p \in PurchaseReturns, NEW q \in 1..ReceiptUnits, NEW noted \in BOOLEAN,
         RequestPurchaseReturn(p, q, noted)
  PROVE  SupplierSide' /\ PayableSide'
<1>1. /\ pret \in [PurchaseReturns -> PurchaseReturnRows(Nat)]
      /\ pret' \in [PurchaseReturns -> PurchaseReturnRows(Nat)]
      /\ SettledWithCause /\ q \in Nat /\ q > 0
  BY SettlementAssumption DEF Priced, IInv
<1>2. /\ pret[p].status = "NONE" /\ receipt = "CONFIRMED" /\ receipt' = receipt /\ books' = books
      /\ txn' = txn
      /\ \A o \in PurchaseReturns \ {p} : pret'[o] = pret[o]
      /\ pret'[p].status = "REQUESTED" /\ pret'[p].quantity = q /\ pret'[p].receivable = 0
      /\ pret'[p].amount = Allocate(ReceiptTotal, BackToSupplierValue, ReceiptUnits, BackToSupplier, q)
      /\ BackToSupplier + q <= ReceiptUnits
  BY <1>1 DEF RequestPurchaseReturn
<1>3. pret[p].receivable = 0
  BY <1>1, <1>2 DEF SettledWithCause, PurchaseReturnRows
<1>4. Requested(pret, pret', p, LivePurchaseReturns, ReceiptTotal, ReceiptUnits, PurchaseReturns)
  <2>1. AreParts(pret, PurchaseReturns) /\ AreParts(pret', PurchaseReturns)
    BY <1>1, SupplierParts
  <2>2. "NONE" \notin LivePurchaseReturns /\ pret'[p].status \in LivePurchaseReturns
    BY <1>2 DEF LivePurchaseReturns
  <2>3. /\ BackToSupplier = SumFunctionOnSet(Quantities(pret), InStatus(pret, LivePurchaseReturns))
        /\ BackToSupplierValue = SumFunctionOnSet(Amounts(pret), InStatus(pret, LivePurchaseReturns))
    BY DEF BackToSupplier, BackToSupplierValue
  <2> QED BY <1>1, <1>2, <2>1, <2>2, <2>3, SettlementAssumption DEF Requested
<1>5. /\ SharedFairly(pret', LivePurchaseReturns, ReceiptTotal, ReceiptUnits)
      /\ BackToSupplier' = BackToSupplier + q
      /\ BackToSupplier + q = ReceiptUnits => BackToSupplierValue' = ReceiptTotal
  <2>1. SharedFairly(pret, LivePurchaseReturns, ReceiptTotal, ReceiptUnits)
    BY DEF SupplierSide
  <2>2. /\ BackToSupplier = SumFunctionOnSet(Quantities(pret), InStatus(pret, LivePurchaseReturns))
        /\ BackToSupplierValue = SumFunctionOnSet(Amounts(pret), InStatus(pret, LivePurchaseReturns))
        /\ BackToSupplier' = SumFunctionOnSet(Quantities(pret'), InStatus(pret', LivePurchaseReturns))
        /\ BackToSupplierValue' = SumFunctionOnSet(Amounts(pret'), InStatus(pret', LivePurchaseReturns))
    BY DEF BackToSupplier, BackToSupplierValue, Quantities, Amounts, InStatus, LivePurchaseReturns
  <2> QED BY <1>2, <1>4, <2>1, <2>2, RequestShares
<1>6. SupplierSide'
  BY <1>2, <1>5 DEF SupplierSide
<1>7. \A ref : Settled(ref)' = Settled(ref)
  BY <1>2 DEF Settled, Gross, Amounts, InStatus
<1>8. PayableNeverNegative' /\ (receipt' = "NONE" => books'.payable = 0)
  <2> DEFINE b == SentBack(PurchaseReturns)
  <2>1. b \in Nat /\ SentBack(PurchaseReturns)' = b - 0 + 0
    BY <1>1, <1>2, SentBackWritten
  <2> HIDE DEF b
  <2>2. SentBack(PurchaseReturns)' = b
    BY <2>1
  <2>3. Owed("GoodsReceipt")' = Owed("GoodsReceipt")
    BY <2>2 DEF Owed, b
  <2> QED BY <1>2, <1>7, <2>3 DEF PayableSide, PayablesAgree, PayableNeverNegative
<1>9. RefundsCovered'
  <2>1. \A o \in PurchaseReturns : pret'[o].receivable = pret[o].receivable
    BY <1>2, <1>3
  <2>2. [o \in PurchaseReturns |-> pret'[o].receivable - Settled(o)']
          = [o \in PurchaseReturns |-> pret[o].receivable - Settled(o)]
    BY <1>7, <2>1
  <2> QED BY <1>2, <1>7, <2>1, <2>2 DEF PayableSide, PayablesAgree, RefundsCovered
<1> QED BY <1>6, <1>8, <1>9 DEF PayableSide, PayablesAgree

\* confirmPurchaseReturn: what is still a debt is set off, the rest is claimed.
LEMMA GoodsReturned ==
  ASSUME Priced, Priced', SupplierSide, PayableSide,
         NEW p \in PurchaseReturns, NEW noted \in BOOLEAN, ConfirmPurchaseReturn(p, noted)
  PROVE  SupplierSide' /\ PayableSide'
<1> DEFINE offset == PayableOffset(p)
           a == pret[p].amount
           rest == a - offset
           s == Settled("GoodsReceipt")
           b == SentBack(PurchaseReturns)
<1>1. /\ pret \in [PurchaseReturns -> PurchaseReturnRows(Nat)]
      /\ pret' \in [PurchaseReturns -> PurchaseReturnRows(Nat)]
      /\ SettledWithCause /\ books \in Balances /\ txn \in [Txns -> TxnRows]
  BY DEF Priced, IInv, Shape, Balances
<1>2. /\ pret[p].status = "REQUESTED" /\ receipt' = receipt /\ txn' = txn
      /\ \E note : pret' = [pret EXCEPT ![p].status = "COMPLETED", ![p].noted = note, ![p].receivable = rest]
      /\ books' = [books EXCEPT !.payable = @ - offset, !.supplierReceivable = @ + rest]
  BY Zenon DEF ConfirmPurchaseReturn
<1>3. /\ \A o \in PurchaseReturns \ {p} : pret'[o] = pret[o]
      /\ pret'[p].status = "COMPLETED" /\ pret'[p].quantity = pret[p].quantity /\ pret'[p].amount = a
      /\ pret'[p].receivable = rest
  <2>1. PICK note : pret' = [pret EXCEPT ![p].status = "COMPLETED", ![p].noted = note, ![p].receivable = rest]
    BY <1>2
  <2> HIDE DEF rest
  <2> QED BY <1>1, <2>1 DEF PurchaseReturnRows
<1>4. receipt = "CONFIRMED"
  BY <1>2 DEF SupplierSide, Priced
<1>5. /\ books'.payable = books.payable - offset /\ books'.supplierReceivable = books.supplierReceivable + rest
      /\ books.payable \in Int /\ books.supplierReceivable \in Int
  <2> HIDE DEF offset, rest
  <2> QED BY <1>1, <1>2 DEF Balances
<1>6. pret[p].receivable = 0
  BY <1>1, <1>2 DEF SettledWithCause, PurchaseReturnRows
<1>7. /\ SharedFairly(pret', LivePurchaseReturns, ReceiptTotal, ReceiptUnits)
  <2>1. AreParts(pret, PurchaseReturns) /\ AreParts(pret', PurchaseReturns)
    BY <1>1, SupplierParts
  <2>2. InStatus(pret', LivePurchaseReturns) \subseteq InStatus(pret, LivePurchaseReturns)
    BY <1>1, <1>2, <1>3 DEF InStatus, LivePurchaseReturns
  <2>3. /\ \A o \in PurchaseReturns : pret'[o].quantity = pret[o].quantity /\ pret'[o].amount = pret[o].amount
        /\ \A o \in PurchaseReturns : pret'[o].status # "NONE" <=> pret[o].status # "NONE"
    BY <1>2, <1>3
  <2>4. SharedFairly(pret, LivePurchaseReturns, ReceiptTotal, ReceiptUnits)
    BY DEF SupplierSide
  <2> QED BY <2>1, <2>2, <2>3, <2>4, FewerShares
<1>8. a \in Nat /\ pret[p].quantity \in Nat
  BY <1>1 DEF PurchaseReturnRows
<1>9. BackToSupplier' = BackToSupplier /\ BackToSupplierValue' = BackToSupplierValue
  <2> DEFINE u == BackToSupplier
             v == BackToSupplierValue
             k == pret[p].quantity
  <2>1. /\ u \in Nat /\ v \in Nat /\ k \in Nat
        /\ BackToSupplier' = u - k + k /\ BackToSupplierValue' = v - a + a
    BY <1>2, <1>3, <1>8, SentBackWritten DEF LivePurchaseReturns
  <2> HIDE DEF u, v, k, a
  <2>2. u - k + k = u /\ v - a + a = v
    BY <1>8, <2>1
  <2> QED BY <2>1, <2>2 DEF u, v
<1>10. SupplierSide'
  BY <1>2, <1>4, <1>7, <1>9 DEF SupplierSide
<1>11. \A ref : Settled(ref)' = Settled(ref)
  BY <1>2 DEF Settled, Gross, Amounts, InStatus
<1>12. s \in Nat /\ Settled(p) \in Nat
  BY <1>1, GrossType DEF Settled
<1>13. b \in Nat /\ SentBack(PurchaseReturns)' = b - 0 + a /\ SentBack(PurchaseReturns \ {p}) = b
  BY <1>2, <1>3, SentBackWritten
<1>14. offset = IF a < Positive(ReceiptTotal - b - s) THEN a ELSE Positive(ReceiptTotal - b - s)
  BY <1>13 DEF PayableOffset
<1>15. books.payable = Positive(ReceiptTotal - b - s) /\ RefundsCovered
  BY <1>4 DEF PayableSide, PayablesAgree, PayableNeverNegative, Owed
<1>16. Settled(p) <= 0
  BY <1>6, <1>15 DEF RefundsCovered
<1>17. ReceiptTotal \in Nat
  BY SettlementAssumption
<1> HIDE DEF offset, a, s, b
<1>18. /\ offset \in Int /\ rest \in Int /\ rest >= 0
       /\ books'.payable >= 0 /\ books'.payable = Positive(ReceiptTotal - (b - 0 + a) - s)
  BY <1>5, <1>8, <1>12, <1>13, <1>14, <1>15, <1>17 DEF Positive
<1>19. PayableNeverNegative' /\ (receipt' = "NONE" => books'.payable = 0)
  <2>1. Owed("GoodsReceipt")' = ReceiptTotal - (b - 0 + a)
    BY <1>13 DEF Owed
  <2>2. Settled("GoodsReceipt")' = s
    BY <1>11 DEF s
  <2> QED BY <1>2, <1>4, <1>18, <2>1, <2>2 DEF PayableNeverNegative
<1>20. RefundsCovered'
  <2>1. Settled(p)' = Settled(p) /\ Settled(p) = 0
    BY <1>11, <1>12, <1>16
  <2> HIDE DEF rest
  <2>2. books'.supplierReceivable = books.supplierReceivable - (pret[p].receivable - Settled(p))
                                      + (pret'[p].receivable - Settled(p)')
    BY <1>3, <1>5, <1>6, <1>18, <2>1
  <2>3. Settled(p)' <= pret'[p].receivable
    BY <1>3, <1>18, <2>1
  <2> QED BY <1>3, <1>11, <1>15, <2>2, <2>3, ReceivableWritten
<1> QED BY <1>10, <1>19, <1>20 DEF PayableSide, PayablesAgree


-----------------------------------------------------------------------------
\* The inductive invariant from the first state through every handler.

LEMMA NothingSettled ==
  ASSUME Init
  PROVE  \A ref : Settled(ref) = 0
<1> SUFFICES ASSUME NEW ref PROVE Settled(ref) = 0
  OBVIOUS
<1>1. {t \in Txns \cap InStatus(txn, {"POSTED"}) : txn[t].ref = ref} = {}
  BY DEF Init, NoTxn, InStatus
<1> QED BY <1>1, SumEmpty DEF Settled, Gross

LEMMA SettlementStart == Init => SettlementIInv
<1> SUFFICES ASSUME Init PROVE SettlementIInv
  OBVIOUS
<1>1. /\ order \in ShippedOrders \cup {NoOrder} /\ receipt \in {"NONE", "CONFIRMED"}
      /\ oret = [r \in OrderReturns |-> NoOrderReturn]
      /\ pret = [p \in PurchaseReturns |-> NoPurchaseReturn]
      /\ books = [receivable |-> IF order.status = "SHIPPED" /\ order.payment = "PENDING" THEN Total ELSE 0,
                  payable |-> IF receipt = "CONFIRMED" THEN ReceiptTotal ELSE 0,
                  supplierReceivable |-> 0,
                  cash |-> IF order.payment = "PAID" THEN Total ELSE 0]
  BY DEF Init
<1>2. Units \in Nat \ {0} /\ GoodsTotal \in Nat \ {0} /\ Total \in Nat /\ Total >= GoodsTotal
      /\ ReceiptUnits \in Nat \ {0} /\ ReceiptTotal \in Nat \ {0}
      /\ IsFiniteSet(OrderReturns) /\ IsFiniteSet(PurchaseReturns)
  BY SettlementAssumption
<1>3. Priced
  <2>1. IInv
    BY InitInv
  <2>2. oret \in [OrderReturns -> OrderReturnRows(Nat)] /\ pret \in [PurchaseReturns -> PurchaseReturnRows(Nat)]
    BY <1>1, <1>2 DEF NoOrderReturn, NoPurchaseReturn, OrderReturnRows, PurchaseReturnRows
  <2>3. books \in [receivable : Int, payable : Int, supplierReceivable : Int, cash : Int]
    <3> DEFINE a == IF order.status = "SHIPPED" /\ order.payment = "PENDING" THEN Total ELSE 0
               b == IF receipt = "CONFIRMED" THEN ReceiptTotal ELSE 0
               c == IF order.payment = "PAID" THEN Total ELSE 0
    <3>1. a \in Int /\ b \in Int /\ c \in Int
      BY <1>2
    <3>2. books = [receivable |-> a, payable |-> b, supplierReceivable |-> 0, cash |-> c]
      BY <1>1
    <3> HIDE DEF a, b, c
    <3> QED BY <3>1, <3>2
  <2> QED BY <1>1, <2>1, <2>2, <2>3 DEF Priced
\* No part counts yet.
<1>4. /\ InStatus(oret, Claiming) = {} /\ InStatus(oret, {"COMPLETED"}) = {}
      /\ InStatus(pret, LivePurchaseReturns) = {} /\ InStatus(pret, {"COMPLETED"}) = {}
  BY <1>1 DEF InStatus, NoOrderReturn, NoPurchaseReturn, Claiming, LivePurchaseReturns
<1>5. /\ Returned(Claiming) = 0 /\ Returned({"COMPLETED"}) = 0
      /\ BackToSupplier = 0 /\ SentBack(PurchaseReturns) = 0
  <2>1. PurchaseReturns \cap {} = {}
    OBVIOUS
  <2> QED BY <1>4, <2>1, SumEmpty DEF Returned, BackToSupplier, SentBack
<1>6. ASSUME NEW rows, NEW S, IsFiniteSet(S), DOMAIN rows = S, NEW statuses, InStatus(rows, statuses) = {},
             NEW total \in Nat, NEW units \in Nat
      PROVE  SharedFairly(rows, statuses, total, units)
  <2> SUFFICES ASSUME NEW A \in SUBSET InStatus(rows, statuses)
               PROVE  LET value == SumFunctionOnSet(Amounts(rows), A)
                          quantity == SumFunctionOnSet(Quantities(rows), A)
                          requests == Cardinality({r \in DOMAIN rows : rows[r].status # "NONE"})
                      IN  /\ 2 * (units * value) <= 2 * (total * quantity) + units * requests
                          /\ 2 * (total * quantity) <= 2 * (units * value) + units * requests
    BY DEF SharedFairly
  <2>1. A = {}
    BY <1>6
  <2>2. SumFunctionOnSet(Amounts(rows), A) = 0 /\ SumFunctionOnSet(Quantities(rows), A) = 0
    BY <2>1, SumEmpty
  <2> DEFINE n == Cardinality({r \in DOMAIN rows : rows[r].status # "NONE"})
  <2>3. n \in Nat
    BY <1>6, RequestsCounted
  <2> HIDE DEF n
  <2>4. units * n \in Nat /\ units * 0 = 0 /\ total * 0 = 0
    BY <2>3
  <2> QED BY <2>2, <2>4 DEF n
<1>7. CustomerSide
  <2>1. SharedFairly(oret, Claiming, GoodsTotal, Units)
    BY <1>1, <1>2, <1>4, <1>6
  <2>2. \A r \in OrderReturns : oret[r].status = "NONE"
    BY <1>1 DEF NoOrderReturn
  <2>3. order.status # "REFUNDED"
    BY <1>1 DEF ShippedOrders, NoOrder
  <2> QED BY <1>2, <1>5, <2>1, <2>2, <2>3 DEF CustomerSide
<1>8. PaymentSide
  <2>1. Settled("Order") = 0
    BY NothingSettled
  <2>2. Collected \in Nat /\ Collected <= Total
    BY <1>2, <2>1 DEF Collected
  <2>3. PaidMeansCollected
    <3>1. RefundedTogether
      BY <1>1 DEF RefundedTogether, ShippedOrders, NoOrder
    <3>2. order.payment = "PAID" <=> order.method \notin Credit
      BY <1>1 DEF ShippedOrders, NoOrder, Credit
    <3>3. order.status # "REFUNDED"
      BY <1>1 DEF ShippedOrders, NoOrder
    <3> QED BY <1>2, <2>1, <2>2, <3>1, <3>2, <3>3 DEF PaidMeansCollected, Collected
  <2>4. NoRefundWithoutMoney
    <3>1. \A r \in OrderReturns : oret[r].settledBy = "NONE"
      BY <1>1 DEF NoOrderReturn
    <3>2. {r \in OrderReturns : oret[r].settledBy = "PAYOUT"} = {}
      BY <3>1
    <3>3. SumFunctionOnSet(Amounts(oret), {r \in OrderReturns : oret[r].settledBy = "PAYOUT"}) = 0
      BY <3>2, SumEmpty
    <3> QED BY <2>2, <3>3 DEF NoRefundWithoutMoney
  <2> QED BY <2>3, <2>4 DEF PaymentSide
<1>9. SupplierSide
  <2>1. SharedFairly(pret, LivePurchaseReturns, ReceiptTotal, ReceiptUnits)
    BY <1>1, <1>2, <1>4, <1>6
  <2>2. \A p \in PurchaseReturns : pret[p].status = "NONE"
    BY <1>1 DEF NoPurchaseReturn
  <2> QED BY <1>2, <1>5, <2>1, <2>2 DEF SupplierSide
<1>10. PayableSide
  <2>1. \A ref : Settled(ref) = 0
    BY NothingSettled
  <2>2. books.supplierReceivable = 0 /\ books.payable = (IF receipt = "CONFIRMED" THEN ReceiptTotal ELSE 0)
    BY <1>1
  <2>3. Owed("GoodsReceipt") = ReceiptTotal
    BY <1>2, <1>5 DEF Owed
  <2>4. PayableNeverNegative
    BY <1>2, <2>1, <2>2, <2>3 DEF PayableNeverNegative, Positive
  <2>5. \A p \in PurchaseReturns : pret[p].receivable = 0
    BY <1>1 DEF NoPurchaseReturn
  <2>6. RefundsCovered
    <3> DEFINE f == [p \in PurchaseReturns |-> pret[p].receivable - Settled(p)]
    <3>1. \A p \in PurchaseReturns : f[p] = 0
      BY <2>1, <2>5
    <3>2. DOMAIN f = PurchaseReturns
      OBVIOUS
    <3> HIDE DEF f
    <3>3. SumFunctionOnSet(f, PurchaseReturns) = 0
      BY <1>2, <3>1, SumOfZeros
    <3>4. SumFunction(f) = 0
      BY <3>2, <3>3 DEF SumFunction
    <3> QED BY <2>1, <2>2, <2>5, <3>4 DEF RefundsCovered, f
  <2> QED BY <1>1, <2>2, <2>4, <2>6 DEF PayableSide, PayablesAgree
<1> QED BY <1>3, <1>7, <1>8, <1>9, <1>10 DEF SettlementIInv

\* A step that leaves the transactions alone settles nothing.
LEMMA SettledFrame ==
  ASSUME txn' = txn
  PROVE  \A ref : Settled(ref)' = Settled(ref)
BY DEF Settled, Gross

LEMMA FinanceStep ==
  ASSUME SettlementIInv, Priced', Finance
  PROVE  CustomerSide' /\ PaymentSide' /\ SupplierSide' /\ PayableSide'
<1>1. /\ Priced /\ CustomerSide /\ PaymentSide /\ SupplierSide /\ PayableSide
      /\ IInv /\ IInv'
  BY DEF SettlementIInv, Priced
<1>2. ASSUME NEW t \in Txns, txn[t].status # "POSTED", txn'[t].status # "POSTED",
             \A u \in Txns \ {t} : txn'[u] = txn[u],
             UNCHANGED <<order, receipt, oret, pret, inspections, books, onHand>>
      PROVE  CustomerSide' /\ PaymentSide' /\ SupplierSide' /\ PayableSide'
  <2>1. \A ref : Settled(ref)' = Settled(ref)
    BY <1>1, <1>2, OpenTxnsSettleNothing
  <2>2. order' = order /\ oret' = oret /\ pret' = pret /\ receipt' = receipt /\ books' = books
    BY <1>2
  <2>3. CustomerSide' /\ PaymentSide' /\ SupplierSide'
    BY <1>1, <2>1, <2>2, CustomerFrame, PaymentFrame, SupplierFrame
  <2>4. PayableSide'
    BY <1>1, <2>1, <2>2, PayableFrame
  <2> QED BY <2>3, <2>4
<1>3. DOMAIN txn = Txns
  BY <1>1 DEF IInv, Shape
<1>4. ASSUME NEW t \in Txns, NEW ref \in References, NEW amount \in 1..(Total + ReceiptTotal),
             NEW status \in {"DRAFT", "WAITING_APPROVAL"}, Draft(t, ref, amount, status)
      PROVE  CustomerSide' /\ PaymentSide' /\ SupplierSide' /\ PayableSide'
  <2>1. /\ txn[t].status # "POSTED" /\ txn'[t].status # "POSTED" /\ \A u \in Txns \ {t} : txn'[u] = txn[u]
        /\ UNCHANGED <<order, receipt, oret, pret, inspections, books, onHand>>
    BY <1>3, <1>4 DEF Draft
  <2> QED BY <1>2, <2>1
<1>5. ASSUME NEW t \in Txns, NEW from, NEW to, Mark(t, from, to), "POSTED" \notin from, to # "POSTED"
      PROVE  CustomerSide' /\ PaymentSide' /\ SupplierSide' /\ PayableSide'
  <2>1. /\ txn[t].status # "POSTED" /\ txn'[t].status # "POSTED" /\ \A u \in Txns \ {t} : txn'[u] = txn[u]
        /\ UNCHANGED <<order, receipt, oret, pret, inspections, books, onHand>>
    <3>1. txn'[t] = [txn[t] EXCEPT !.status = to]
      BY <1>3, <1>5 DEF Mark
    <3>2. txn[t] \in TxnRows
      BY <1>1 DEF IInv, Shape
    <3>3. txn'[t].status = to
      BY <3>1, <3>2 DEF TxnRows
    <3> QED BY <1>3, <1>5, <3>3 DEF Mark
  <2> QED BY <1>2, <2>1
<1>6. ASSUME NEW t \in Txns, PostReceipt(t)
      PROVE  CustomerSide' /\ PaymentSide' /\ SupplierSide' /\ PayableSide'
  <2>1. CustomerSide' /\ PaymentSide'
    BY <1>1, <1>6, ReceiptPosted
  <2>2. pret' = pret /\ receipt' = receipt
    BY <1>6 DEF PostReceipt, Post
  <2>3. SupplierSide'
    BY <1>1, <2>2, SupplierFrame
  <2>4. \A ref : ref # "Order" => Settled(ref)' = Settled(ref)
    BY <1>1, <1>6, PostSettles DEF PostReceipt, References
  <2>5. books'.payable = books.payable /\ books'.supplierReceivable = books.supplierReceivable
    BY <1>1, <1>6 DEF PostReceipt, Priced
  <2> QED BY <1>1, <2>1, <2>2, <2>3, <2>4, <2>5, PayableFrame
<1>7. ASSUME NEW t \in Txns, NEW ref \in References \ {"Order"}, Post(t, ref), order' = order
      PROVE  CustomerSide' /\ PaymentSide' /\ SupplierSide'
  <2>1. pret' = pret /\ receipt' = receipt /\ oret' = oret /\ order' = order
    BY <1>7 DEF Post
  <2>2. Settled("Order")' = Settled("Order")
    BY <1>1, <1>7, PostSettles
  <2> QED BY <1>1, <2>1, <2>2, SupplierFrame, CustomerFrame, PaymentFrame
<1>8. ASSUME NEW t \in Txns, PostPayment(t)
      PROVE  CustomerSide' /\ PaymentSide' /\ SupplierSide' /\ PayableSide'
  <2>1. PayableSide'
    BY <1>1, <1>8, PaymentPosted
  <2>2. "GoodsReceipt" \in References \ {"Order"} /\ Post(t, "GoodsReceipt") /\ order' = order
    BY <1>8 DEF PostPayment, References
  <2> QED BY <1>7, <2>1, <2>2
<1>9. ASSUME NEW t \in Txns, NEW p \in PurchaseReturns, PostRefund(t, p)
      PROVE  CustomerSide' /\ PaymentSide' /\ SupplierSide' /\ PayableSide'
  <2>1. PayableSide'
    BY <1>1, <1>9, RefundPosted
  <2>2. p \in References \ {"Order"} /\ Post(t, p) /\ order' = order
    BY <1>9, SettlementAssumption DEF PostRefund, References
  <2> QED BY <1>7, <2>1, <2>2
<1>10. ASSUME NEW t \in Txns, Approve(t) \/ Reject(t) \/ Cancel(t)
       PROVE  CustomerSide' /\ PaymentSide' /\ SupplierSide' /\ PayableSide'
  BY <1>5, <1>10 DEF Approve, Reject, Cancel, Pending
<1> QED BY <1>4, <1>6, <1>8, <1>9, <1>10 DEF Finance

LEMMA ReturnsStep ==
  ASSUME SettlementIInv, Priced', CustomerReturn \/ SupplierReturn
  PROVE  CustomerSide' /\ PaymentSide' /\ SupplierSide' /\ PayableSide'
<1>1. Priced /\ CustomerSide /\ PaymentSide /\ SupplierSide /\ PayableSide /\ IInv
  BY DEF SettlementIInv, Priced
\* A handler of the customer's returns touches neither payable nor claims.
<1>2. ASSUME NEW r \in OrderReturns, NEW original,
             \/ \E q \in 1..Units : RequestReturn(r, q)
             \/ StartReturnInspection(r) \/ RejectReturn(r) \/ ConfirmReturn(r, original)
      PROVE  SupplierSide' /\ PayableSide'
  <2>1. pret' = pret /\ receipt' = receipt /\ txn' = txn
    BY <1>2 DEF RequestReturn, StartReturnInspection, RejectReturn, ConfirmReturn
  <2>2. books'.payable = books.payable /\ books'.supplierReceivable = books.supplierReceivable
    <3>1. CASE books' = books
      BY <3>1
    <3>2. CASE ConfirmReturn(r, original)
      BY <1>1, <3>2 DEF ConfirmReturn, Priced
    <3> QED BY <1>2, <3>1, <3>2 DEF RequestReturn, StartReturnInspection, RejectReturn
  <2>3. \A ref : Settled(ref)' = Settled(ref)
    BY <2>1, SettledFrame
  <2> QED BY <1>1, <2>1, <2>2, <2>3, SupplierFrame, PayableFrame
<1>3. ASSUME NEW r \in OrderReturns, NEW q \in 1..Units, RequestReturn(r, q)
      PROVE  CustomerSide' /\ PaymentSide' /\ SupplierSide' /\ PayableSide'
  <2>1. CustomerSide' /\ PaymentSide'
    BY <1>1, <1>3, ReturnRequested
  <2> QED BY <1>2, <1>3, <2>1
<1>4. ASSUME NEW r \in OrderReturns, StartReturnInspection(r) \/ RejectReturn(r)
      PROVE  CustomerSide' /\ PaymentSide' /\ SupplierSide' /\ PayableSide'
  <2>1. CustomerSide' /\ PaymentSide'
    BY <1>1, <1>4, ReturnMoved
  <2> QED BY <1>2, <1>4, <2>1
<1>5. ASSUME NEW r \in OrderReturns, NEW original \in BOOLEAN, ConfirmReturn(r, original)
      PROVE  CustomerSide' /\ PaymentSide' /\ SupplierSide' /\ PayableSide'
  <2>1. CustomerSide' /\ PaymentSide'
    BY <1>1, <1>5, ReturnConfirmed
  <2> QED BY <1>2, <1>5, <2>1
\* A handler of the returns to a supplier leaves the customer alone.
<1>6. ASSUME oret' = oret, order' = order, txn' = txn
      PROVE  CustomerSide' /\ PaymentSide'
  <2>1. Settled("Order")' = Settled("Order")
    BY <1>6, SettledFrame
  <2> QED BY <1>1, <1>6, <2>1, CustomerFrame, PaymentFrame
<1>7. ASSUME NEW p \in PurchaseReturns, NEW q \in 1..ReceiptUnits, NEW noted \in BOOLEAN,
             RequestPurchaseReturn(p, q, noted)
      PROVE  CustomerSide' /\ PaymentSide' /\ SupplierSide' /\ PayableSide'
  <2>1. SupplierSide' /\ PayableSide'
    BY <1>1, <1>7, GoodsSentBack
  <2>2. oret' = oret /\ order' = order /\ txn' = txn
    BY <1>7 DEF RequestPurchaseReturn
  <2> QED BY <1>6, <2>1, <2>2
<1>8. ASSUME NEW p \in PurchaseReturns, NEW noted \in BOOLEAN, ConfirmPurchaseReturn(p, noted)
      PROVE  CustomerSide' /\ PaymentSide' /\ SupplierSide' /\ PayableSide'
  <2>1. SupplierSide' /\ PayableSide'
    BY <1>1, <1>8, GoodsReturned
  <2>2. oret' = oret /\ order' = order /\ txn' = txn
    BY <1>8 DEF ConfirmPurchaseReturn
  <2> QED BY <1>6, <2>1, <2>2
<1> QED BY <1>3, <1>4, <1>5, <1>7, <1>8 DEF CustomerReturn, SupplierReturn

LEMMA SettlementStep == SettlementIInv /\ [Next]_vars => SettlementIInv'
<1> SUFFICES ASSUME SettlementIInv, [Next]_vars PROVE SettlementIInv'
  OBVIOUS
<1>1. Priced /\ CustomerSide /\ PaymentSide /\ SupplierSide /\ PayableSide /\ IInv
  BY DEF SettlementIInv, Priced
<1>2. Priced'
  <2>1. CASE Next
    BY <1>1, <2>1, PricedKept
  <2>2. CASE UNCHANGED vars
    <3>1. IInv'
      BY <1>1, <2>2, NextInv
    <3> QED BY <1>1, <2>2, <3>1 DEF Priced, vars
  <2> QED BY <2>1, <2>2
\* Nothing here looks at stock or at inspections.
<1>3. ASSUME oret' = oret, pret' = pret, txn' = txn, receipt' = receipt, books' = books, order' = order
      PROVE  CustomerSide' /\ PaymentSide' /\ SupplierSide' /\ PayableSide'
  <2>1. \A ref : Settled(ref)' = Settled(ref)
    BY <1>3, SettledFrame
  <2> QED BY <1>1, <1>3, <2>1, CustomerFrame, PaymentFrame, SupplierFrame, PayableFrame
<1>4. CustomerSide' /\ PaymentSide' /\ SupplierSide' /\ PayableSide'
  <2>1. CASE Finance
    BY <1>2, <2>1, FinanceStep
  <2>2. CASE CustomerReturn \/ SupplierReturn
    BY <1>2, <2>2, ReturnsStep
  <2>3. CASE UNCHANGED vars
    BY <1>3, <2>3 DEF vars
  <2>4. CASE Sell \/ Inspection
    BY <1>3, <2>4 DEF Sell, Inspection, BeginInspection, EndInspection
  <2>5. CASE Deliver
    <3>1. /\ oret' = oret /\ pret' = pret /\ txn' = txn /\ receipt' = receipt /\ books' = books
          /\ order.status = "SHIPPED" /\ order' = [order EXCEPT !.status = "COMPLETED"] /\ order \in OrderRow
      BY <1>1, <2>5 DEF Deliver, IInv, Shape
    <3>2. order'.status = "COMPLETED" /\ order'.payment = order.payment /\ order'.method = order.method
      BY <3>1 DEF OrderRow
    <3>3. \A ref : Settled(ref)' = Settled(ref)
      BY <3>1, SettledFrame
    <3>4. CustomerSide'
      BY <1>1, <3>1, <3>2, CustomerFrame
    <3>5. SupplierSide' /\ PayableSide'
      BY <1>1, <3>1, <3>3, SupplierFrame, PayableFrame
    <3>6. Collected' = Collected
      BY <3>2, <3>3 DEF Collected
    <3>7. PaymentSide'
      BY <1>1, <3>1, <3>2, <3>6 DEF PaymentSide, PaidMeansCollected, RefundedTogether, NoRefundWithoutMoney
    <3> QED BY <3>4, <3>5, <3>7
  <2> QED BY <2>1, <2>2, <2>3, <2>4, <2>5 DEF Next
<1> QED BY <1>2, <1>4 DEF SettlementIInv

\* The rows and the books of every reachable state.
THEOREM SettlementInvariance == Spec => []SettlementIInv
BY SettlementStart, SettlementStep, PTL DEF Spec

\* Whatever the order in which payments are drafted, approved and posted and
\* returns to the supplier are confirmed (post, confirmPurchaseReturn): the debt
\* never turns negative and is what the snapshot calls outstanding, no claim is
\* refunded twice, and account 1202 holds what is still to come.  Nothing is
\* asked of amounts: the offset is bounded by the debt, not by the rounding.
THEOREM PayablesCorrect == Spec => []PayablesAgree
<1>1. SettlementIInv => PayablesAgree
  BY DEF SettlementIInv, PayableSide
<1> QED BY <1>1, SettlementInvariance, PTL

\* A payment is PAID exactly when receipts for the whole total are posted, and
\* receipts never exceed it, again for any amounts (post, confirmOrderReturn).
THEOREM PaidIsCollected == Spec => []PaidMeansCollected
<1>1. SettlementIInv => PaidMeansCollected
  BY DEF SettlementIInv, PaymentSide
<1> QED BY <1>1, SettlementInvariance, PTL

\* Parts that are sent back are priced in proportion, to half a unit of money
\* for each request ever made, however requests are rejected and made again
\* (allocateHistoricalRemainder): every set of them, for any amounts.
THEOREM SharesAreFair ==
  Spec => [](/\ SharedFairly(oret, Claiming, GoodsTotal, Units)
             /\ SharedFairly(pret, LivePurchaseReturns, ReceiptTotal, ReceiptUnits))
<1>1. SettlementIInv => /\ SharedFairly(oret, Claiming, GoodsTotal, Units)
                        /\ SharedFairly(pret, LivePurchaseReturns, ReceiptTotal, ReceiptUnits)
  BY DEF SettlementIInv, CustomerSide, SupplierSide
<1> QED BY <1>1, SettlementInvariance, PTL

\* No customer is paid more than was collected for the order (confirmOrderReturn
\* looks at the payment's status only), provided that the roundings of the
\* requests cannot add up to the price of a piece.
THEOREM PaymentsCorrect ==
  ASSUME AmplePrices PROVE Spec => []PaymentsAreTrue
<1>1. SettlementIInv => PaymentsAreTrue
  BY DEF SettlementIInv, PaymentSide, PaymentsAreTrue
<1> QED BY <1>1, SettlementInvariance, PTL

\* No unit goes back twice, to the supplier or from the customer, parts are
\* together worth no more than the document and exactly as much when all are
\* back (createOrderReturn, createPurchaseReturn, allocateHistoricalRemainder),
\* provided again that a piece costs more than the roundings.
THEOREM ReturnsCorrect ==
  ASSUME AmplePrices PROVE Spec => []ReturnedOnce
<1>1. SettlementIInv => ReturnedOnce
  <2> SUFFICES ASSUME SettlementIInv PROVE ReturnedOnce
    OBVIOUS
  <2>1. Priced /\ CustomerSide /\ SupplierSide
    BY DEF SettlementIInv
  <2>2. ReturnedValue(Claiming) <= GoodsTotal
    BY <2>1, ReturnsAreWorthNoMore
  <2>3. BackToSupplierValue <= ReceiptTotal
    <3>1. AreParts(pret, PurchaseReturns)
      BY <2>1, SupplierParts DEF Priced
    <3>2. /\ SharedFairly(pret, LivePurchaseReturns, ReceiptTotal, ReceiptUnits)
          /\ ReceiptUnits * Cardinality(PurchaseReturns) <= 2 * ReceiptTotal
      BY <2>1 DEF AmplePrices, SupplierSide
    <3>3. /\ SumFunctionOnSet(Quantities(pret), InStatus(pret, LivePurchaseReturns)) <= ReceiptUnits
          /\ SumFunctionOnSet(Quantities(pret), InStatus(pret, LivePurchaseReturns)) = ReceiptUnits
               => SumFunctionOnSet(Amounts(pret), InStatus(pret, LivePurchaseReturns)) = ReceiptTotal
      BY <2>1 DEF SupplierSide, BackToSupplier, BackToSupplierValue
    <3>4. ReceiptTotal \in Nat /\ ReceiptUnits \in Nat \ {0}
      BY SettlementAssumption
    <3> QED BY <3>1, <3>2, <3>3, <3>4, SharesBounded DEF BackToSupplierValue
  <2> QED BY <2>1, <2>2, <2>3 DEF ReturnedOnce, CustomerSide, SupplierSide
<1> QED BY <1>1, SettlementInvariance, PTL

-----------------------------------------------------------------------------
(***************************************************************************)
(* The books for any calendar, journal and bank statements: periods do not *)
(* overlap, closed days take no entry, a matched line has a journal line   *)
(* of its own, and a reconciliation that shares no line is completed when  *)
(* it says so.  The first is a matter of the check in createFiscalPeriod;  *)
(* the matches need an induction over every line at once, because a line   *)
(* is true only if no other line has its journal line.                     *)
(***************************************************************************)

\* What of the types the arguments use; the balances are sums and may be anything.
BooksShape ==
  /\ DOMAIN fiscal \subseteq Spans
  /\ entry \in [Entries -> {"NONE", "PENDING", "POSTED", "CANCELLED"}]
  /\ matchedTo \in [Lines -> Entries \cup {None}]
  /\ \A r \in DOMAIN recon : r \in Reconciliations /\ r[1] \in DOMAIN statement

BooksIInv == BooksShape /\ PeriodsAreApart /\ MatchesAreTrue /\ CompletionIsTrue

\* MatchesAreTrue of matches that are about to be written.
TrueMatches(match) ==
  \A l \in Lines : match[l] # None =>
    /\ StatementOf[l] \in DOMAIN statement
    /\ entry[match[l]] = "POSTED" /\ Agrees(l, match[l])
    /\ \A k \in Lines \ {l} : match[k] # match[l]

\* What every way of matching has in common.
Rematch(r, match) ==
  /\ r \in DOMAIN recon
  /\ match \in [Lines -> Entries \cup {None}]
  /\ \A l \in Lines \ LinesOf(r) : match[l] = matchedTo[l]
  /\ TrueMatches(match)
  /\ Refresh(r, match)

LEMMA BooksStart == BooksInit => BooksIInv
<1> SUFFICES ASSUME BooksInit PROVE BooksIInv
  OBVIOUS
<1>1. DOMAIN fiscal = {} /\ DOMAIN recon = {}
  BY DEF BooksInit, Nothing
<1>2. BooksShape
  BY <1>1 DEF BooksShape, BooksInit
<1>3. MatchesAreTrue
  BY DEF MatchesAreTrue, BooksInit
<1> QED BY <1>1, <1>2, <1>3 DEF BooksIInv, PeriodsAreApart, CompletionIsTrue

-----------------------------------------------------------------------------
(* The calendar *)

LEMMA CalendarKeeps ==
  ASSUME BooksIInv, CalendarStep PROVE BooksIInv'
<1>1. UNCHANGED <<entry, statement, matchedTo, recon>>
  BY DEF CalendarStep, CreateFiscalPeriod, SoftCloseFiscalPeriod, ReopenFiscalPeriod, CloseFiscalPeriod,
         SetFiscal, CheckControl, CreateControl, CloseControl, ReopenControl, SetControl, bank
<1>2. MatchesAreTrue' /\ CompletionIsTrue'
  BY <1>1 DEF BooksIInv, MatchesAreTrue, CompletionIsTrue, Alone, LinesOf, Agrees, Completed
<1>3. DOMAIN fiscal' \subseteq Spans /\ PeriodsAreApart'
  <2>1. CASE \E s \in Spans : CreateFiscalPeriod(s)
    <3>1. PICK s \in Spans : CreateFiscalPeriod(s)
      BY <2>1
    <3>2. DOMAIN fiscal' = DOMAIN fiscal \cup {s}
      BY <3>1 DEF CreateFiscalPeriod, Put
    <3>3. ASSUME NEW u \in DOMAIN fiscal, NEW d \in BusinessDays, Within(d, s), Within(d, u)
          PROVE  FALSE
      <4>1. u \in Spans
        BY DEF BooksIInv, BooksShape
      <4>2. /\ s[1] \in Int /\ s[2] \in Int /\ u[1] \in Int /\ u[2] \in Int /\ d \in Int
        BY <4>1, BooksAssumption DEF BusinessDays
      <4>3. Meet(s, u)
        BY <3>3, <4>2 DEF Within, Meet
      <4> QED BY <4>3, <3>1 DEF CreateFiscalPeriod
    <3> QED BY <3>2, <3>3 DEF BooksIInv, BooksShape, PeriodsAreApart
  <2>2. CASE ~\E s \in Spans : CreateFiscalPeriod(s)
    <3>1. DOMAIN fiscal' = DOMAIN fiscal
      BY <2>2 DEF CalendarStep, SoftCloseFiscalPeriod, ReopenFiscalPeriod, CloseFiscalPeriod,
         SetFiscal, CheckControl, CreateControl, CloseControl, ReopenControl, SetControl
    <3> QED BY <3>1 DEF BooksIInv, BooksShape, PeriodsAreApart
  <2> QED BY <2>1, <2>2
<1> QED BY <1>1, <1>2, <1>3 DEF BooksIInv, BooksShape

(* The journal: an entry that is posted stays *)

LEMMA JournalKeeps ==
  ASSUME BooksIInv, JournalStep PROVE BooksIInv'
<1>1. UNCHANGED <<fiscal, statement, matchedTo, recon>>
  BY DEF JournalStep, DraftEntry, CancelDraft, BeginPost, CommitPost, GiveUpPost, calendar, bank
<1>2. /\ entry' \in [Entries -> {"NONE", "PENDING", "POSTED", "CANCELLED"}]
      /\ \A e \in Entries : entry[e] = "POSTED" => entry'[e] = "POSTED"
  BY DEF BooksIInv, BooksShape, JournalStep, DraftEntry, CancelDraft, BeginPost, CommitPost, GiveUpPost
<1>3. MatchesAreTrue'
  <2> SUFFICES ASSUME NEW l \in Lines, matchedTo[l] # None
               PROVE  /\ StatementOf[l] \in DOMAIN statement
                      /\ entry'[matchedTo[l]] = "POSTED" /\ Agrees(l, matchedTo[l])
                      /\ \A k \in Lines \ {l} : matchedTo[k] # matchedTo[l]
    BY <1>1 DEF MatchesAreTrue, Agrees
  <2>1. matchedTo[l] \in Entries
    BY DEF BooksIInv, BooksShape
  <2> QED BY <2>1, <1>2 DEF BooksIInv, MatchesAreTrue
<1>4. CompletionIsTrue'
  BY <1>1 DEF BooksIInv, CompletionIsTrue, Alone, LinesOf, Completed
<1> QED BY <1>1, <1>2, <1>3, <1>4 DEF BooksIInv, BooksShape, PeriodsAreApart

-----------------------------------------------------------------------------
(* The bank: each way of matching gives true matches *)

LEMMA AutoMatchIsTrue ==
  ASSUME BooksIInv, NEW r \in Reconciliations, AutoMatch(r)
  PROVE  \E match : Rematch(r, match)
<1>1. PICK new \in [OpenLines(r) -> Entries \cup {None}] :
         /\ \A l \in OpenLines(r) : new[l] \in Takes(Candidates(l, r, UsedSoFar(new, l)))
         /\ Refresh(r, [l \in Lines |-> IF l \in OpenLines(r) THEN new[l] ELSE matchedTo[l]])
  BY DEF AutoMatch
<1> DEFINE match == [l \in Lines |-> IF l \in OpenLines(r) THEN new[l] ELSE matchedTo[l]]
<1>2. r \in DOMAIN recon /\ r[1] \in DOMAIN statement
  BY DEF AutoMatch, BooksIInv, BooksShape
<1>3. /\ OpenLines(r) \subseteq LinesOf(r) /\ LinesOf(r) \subseteq Lines
      /\ \A l \in LinesOf(r) : StatementOf[l] = r[1]
  BY DEF OpenLines, LinesOf
<1>4. /\ match \in [Lines -> Entries \cup {None}]
      /\ \A l \in Lines \ LinesOf(r) : match[l] = matchedTo[l]
  BY <1>3 DEF BooksIInv, BooksShape
<1>5. ASSUME NEW l \in OpenLines(r), new[l] # None
      PROVE  /\ entry[new[l]] = "POSTED" /\ Agrees(l, new[l])
             /\ new[l] \notin UsedSoFar(new, l)
  <2>1. new[l] \in Candidates(l, r, UsedSoFar(new, l))
    BY <1>1, <1>5 DEF Takes
  <2> QED BY <2>1 DEF Candidates, InJournal
<1>6. ASSUME NEW l \in OpenLines(r), new[l] # None, NEW k \in Lines
      PROVE  matchedTo[k] # new[l]
  BY <1>5, <1>6 DEF UsedSoFar, Used
<1>7. ASSUME NEW l \in OpenLines(r), new[l] # None, NEW k \in OpenLines(r), k # l
      PROVE  new[k] # new[l]
  <2>1. k \in DOMAIN new /\ l \in DOMAIN new
    OBVIOUS
  <2> k \in Lines /\ l \in Lines
    BY <1>3
  <2>a. k \in Nat /\ l \in Nat /\ LineDay[k] \in Int /\ LineDay[l] \in Int
    BY BooksAssumption DEF BusinessDays
  <2>2. CASE LineDay[k] < LineDay[l] \/ (LineDay[k] = LineDay[l] /\ k < l)
    BY <2>1, <2>2, <1>5, <1>7 DEF UsedSoFar, Used
  <2>3. CASE LineDay[l] < LineDay[k] \/ (LineDay[l] = LineDay[k] /\ l < k)
    <3> SUFFICES ASSUME new[k] = new[l] PROVE FALSE
      OBVIOUS
    <3>1. new[k] # None
      BY <1>7
    <3>2. new[k] \notin UsedSoFar(new, k)
      BY <1>5, <3>1
    <3> QED BY <2>1, <2>3, <3>2 DEF UsedSoFar, Used
  <2> QED BY <2>a, <2>2, <2>3, <1>7
<1>8. TrueMatches(match)
  <2> SUFFICES ASSUME NEW l \in Lines, match[l] # None
               PROVE  /\ StatementOf[l] \in DOMAIN statement
                      /\ entry[match[l]] = "POSTED" /\ Agrees(l, match[l])
                      /\ \A k \in Lines \ {l} : match[k] # match[l]
    BY DEF TrueMatches
  <2>1. CASE l \in OpenLines(r)
    <3>1. match[l] = new[l]
      BY <2>1
    <3>2. ASSUME NEW k \in Lines \ {l} PROVE match[k] # match[l]
      BY <2>1, <3>1, <1>6, <1>7
    <3> QED BY <2>1, <3>1, <3>2, <1>2, <1>3, <1>5
  <2>2. CASE l \notin OpenLines(r)
    <3>1. match[l] = matchedTo[l] /\ matchedTo[l] # None
      BY <2>2
    <3>2. ASSUME NEW k \in Lines \ {l} PROVE match[k] # match[l]
      <4>1. CASE k \in OpenLines(r)
        <5>1. match[k] = new[k]
          BY <4>1
        <5> QED BY <3>1, <4>1, <5>1, <1>6
      <4>2. CASE k \notin OpenLines(r)
        BY <3>1, <4>2 DEF BooksIInv, MatchesAreTrue
      <4> QED BY <4>1, <4>2
    <3> QED BY <3>1, <3>2 DEF BooksIInv, MatchesAreTrue
  <2> QED BY <2>1, <2>2
<1>9. Refresh(r, match)
  BY <1>1
<1> HIDE DEF match
<1>10. Rematch(r, match)
  BY <1>2, <1>4, <1>8, <1>9 DEF Rematch
<1> QED BY <1>10

LEMMA MatchIsTrue ==
  ASSUME BooksIInv, NEW r \in Reconciliations, NEW l \in Lines, NEW e \in Entries, MatchReconciliation(r, l, e)
  PROVE  Rematch(r, [matchedTo EXCEPT ![l] = e])
<1> DEFINE match == [matchedTo EXCEPT ![l] = e]
<1>1. /\ r \in DOMAIN recon /\ r[1] \in DOMAIN statement /\ StatementOf[l] = r[1] /\ l \in LinesOf(r)
      /\ entry[e] = "POSTED" /\ Agrees(l, e)
      /\ \A k \in Lines \ {l} : matchedTo[k] # e
      /\ Refresh(r, match)
  BY DEF MatchReconciliation, LinesOf, InJournal, Used, BooksIInv, BooksShape
<1>2. /\ match \in [Lines -> Entries \cup {None}] /\ match[l] = e
      /\ \A k \in Lines \ {l} : match[k] = matchedTo[k]
  BY DEF BooksIInv, BooksShape
<1>3. Refresh(r, match)
  BY <1>1
<1> HIDE DEF match
<1>4. TrueMatches(match)
  BY <1>1, <1>2 DEF TrueMatches, BooksIInv, MatchesAreTrue
<1>5. Rematch(r, match)
  BY <1>1, <1>2, <1>3, <1>4 DEF Rematch
<1> QED BY <1>5 DEF match

LEMMA UnmatchIsTrue ==
  ASSUME BooksIInv, NEW r \in Reconciliations, NEW l \in Lines, UnmatchReconciliation(r, l)
  PROVE  Rematch(r, [matchedTo EXCEPT ![l] = None])
<1> DEFINE match == [matchedTo EXCEPT ![l] = None]
<1>1. r \in DOMAIN recon /\ l \in LinesOf(r) /\ Refresh(r, match)
  BY DEF UnmatchReconciliation
<1>2. /\ match \in [Lines -> Entries \cup {None}] /\ match[l] = None
      /\ \A k \in Lines \ {l} : match[k] = matchedTo[k]
  BY DEF BooksIInv, BooksShape
<1> HIDE DEF match
<1>3. TrueMatches(match)
  BY <1>2 DEF TrueMatches, BooksIInv, MatchesAreTrue
<1>4. Rematch(r, match)
  BY <1>1, <1>2, <1>3 DEF Rematch
<1> QED BY <1>4 DEF match

\* True matches of one reconciliation's lines leave the others as they were.
LEMMA RematchKeeps ==
  ASSUME BooksIInv, NEW r, NEW match, Rematch(r, match) PROVE BooksIInv'
<1>1. /\ UNCHANGED <<fiscal, entry, statement>> /\ matchedTo' = match
      /\ recon' = Put(recon, r, Row(r, recon[r].book, recon[r].bank, match))
      /\ r \in DOMAIN recon
  BY DEF Rematch, Refresh, calendar
<1>2. /\ DOMAIN recon' = DOMAIN recon
      /\ recon'[r] = Row(r, recon[r].book, recon[r].bank, match)
      /\ \A q \in DOMAIN recon : q # r => recon'[q] = recon[q]
  BY <1>1 DEF Put
<1>3. BooksShape'
  BY <1>1, <1>2 DEF BooksIInv, BooksShape, Rematch
<1>4. MatchesAreTrue'
  BY <1>1 DEF Rematch, TrueMatches, MatchesAreTrue, Agrees
<1>5. CompletionIsTrue'
  <2> SUFFICES ASSUME NEW q \in DOMAIN recon
               PROVE  /\ recon'[q].done => recon'[q].book = recon'[q].bank
                      /\ Alone(q) => recon'[q].done = Completed(q, recon'[q].book, recon'[q].bank, match)
    BY <1>1, <1>2 DEF CompletionIsTrue, Alone, Completed, LinesOf
  <2>1. CASE q = r
    <3>1. /\ recon'[q].book = recon[r].book /\ recon'[q].bank = recon[r].bank
          /\ recon'[q].done = Completed(q, recon[r].book, recon[r].bank, match)
      BY <2>1, <1>2 DEF Row
    <3>2. Completed(q, recon[r].book, recon[r].bank, match) => recon[r].book = recon[r].bank
      BY DEF Completed
    <3> QED BY <3>1, <3>2
  <2>2. CASE q # r
    <3>1. recon'[q] = recon[q]
      BY <2>2, <1>2
    <3>2. ASSUME Alone(q) PROVE \A l \in LinesOf(q) : match[l] = matchedTo[l]
      <4>1. LinesOf(r) \cap LinesOf(q) = {} /\ LinesOf(q) \subseteq Lines
        BY <3>2, <2>2, <1>1 DEF Alone, LinesOf
      <4> QED BY <4>1 DEF Rematch
    <3>3. Alone(q) => Completed(q, recon[q].book, recon[q].bank, match)
                      = Completed(q, recon[q].book, recon[q].bank, matchedTo)
      BY <3>2 DEF Completed
    <3> QED BY <3>1, <3>3 DEF BooksIInv, CompletionIsTrue
  <2> QED BY <2>1, <2>2
<1>6. PeriodsAreApart'
  BY <1>1 DEF BooksIInv, PeriodsAreApart
<1> QED BY <1>3, <1>4, <1>5, <1>6 DEF BooksIInv

LEMMA CreateKeeps ==
  ASSUME BooksIInv, NEW r \in Reconciliations, CreateReconciliation(r) PROVE BooksIInv'
<1>1. /\ UNCHANGED <<fiscal, entry, statement, matchedTo>>
      /\ r \notin DOMAIN recon /\ r[1] \in DOMAIN statement
  BY DEF CreateReconciliation, calendar
<1>2. PICK book, balance : recon' = Put(recon, r, Row(r, book, balance, matchedTo))
  BY DEF CreateReconciliation
<1>3. /\ DOMAIN recon' = DOMAIN recon \cup {r}
      /\ recon'[r] = Row(r, book, balance, matchedTo)
      /\ \A q \in DOMAIN recon : q # r => recon'[q] = recon[q]
  BY <1>2 DEF Put
<1>4. CompletionIsTrue'
  <2> SUFFICES ASSUME NEW q \in DOMAIN recon'
               PROVE  /\ recon'[q].done => recon'[q].book = recon'[q].bank
                      /\ Alone(q)' => recon'[q].done = Completed(q, recon'[q].book, recon'[q].bank, matchedTo)
    BY <1>1 DEF CompletionIsTrue, Completed, LinesOf
  <2>1. CASE q = r
    <3>1. /\ recon'[q].book = book /\ recon'[q].bank = balance
          /\ recon'[q].done = Completed(q, book, balance, matchedTo)
      BY <2>1, <1>3 DEF Row
    <3>2. Completed(q, book, balance, matchedTo) => book = balance
      BY DEF Completed
    <3> QED BY <3>1, <3>2
  <2>2. CASE q # r
    <3>1. q \in DOMAIN recon /\ recon'[q] = recon[q]
      BY <2>2, <1>3
    <3>2. Alone(q)' => Alone(q)
      BY <1>3 DEF Alone, LinesOf
    <3> QED BY <3>1, <3>2 DEF BooksIInv, CompletionIsTrue
  <2> QED BY <2>1, <2>2
<1> QED BY <1>1, <1>3, <1>4 DEF BooksIInv, BooksShape, PeriodsAreApart, MatchesAreTrue, Agrees

LEMMA ImportKeeps ==
  ASSUME BooksIInv, NEW b \in Statements, NEW balance, ImportBankStatement(b, balance) PROVE BooksIInv'
<1>1. UNCHANGED <<fiscal, entry, matchedTo, recon>> /\ DOMAIN statement \subseteq DOMAIN statement'
  BY DEF ImportBankStatement, calendar, Put, bank
<1>2. MatchesAreTrue'
  BY <1>1 DEF BooksIInv, MatchesAreTrue, Agrees
<1>3. CompletionIsTrue'
  BY <1>1 DEF BooksIInv, CompletionIsTrue, Alone, LinesOf, Completed
<1> QED BY <1>1, <1>2, <1>3 DEF BooksIInv, BooksShape, PeriodsAreApart

LEMMA BooksStep == BooksIInv /\ [BooksNext]_booksVars => BooksIInv'
<1> SUFFICES ASSUME BooksIInv, [BooksNext]_booksVars PROVE BooksIInv'
  OBVIOUS
<1>1. CASE CalendarStep
  BY <1>1, CalendarKeeps
<1>2. CASE JournalStep
  BY <1>2, JournalKeeps
<1>3. CASE BankStep
  <2>1. CASE \E b \in Statements, balance \in {"CLOSING", "LINES"} : ImportBankStatement(b, balance)
    BY <2>1, ImportKeeps
  <2>2. ASSUME NEW r \in Reconciliations, CreateReconciliation(r) PROVE BooksIInv'
    BY <2>2, CreateKeeps
  <2>3. ASSUME NEW r \in Reconciliations, AutoMatch(r) PROVE BooksIInv'
    BY <2>3, AutoMatchIsTrue, RematchKeeps
  <2>4. ASSUME NEW r \in Reconciliations, NEW l \in Lines, UnmatchReconciliation(r, l) PROVE BooksIInv'
    BY <2>4, UnmatchIsTrue, RematchKeeps
  <2>5. ASSUME NEW r \in Reconciliations, NEW l \in Lines, NEW e \in Entries, MatchReconciliation(r, l, e)
        PROVE  BooksIInv'
    BY <2>5, MatchIsTrue, RematchKeeps
  <2> QED BY <1>3, <2>1, <2>2, <2>3, <2>4, <2>5 DEF BankStep
<1>4. CASE UNCHANGED booksVars
  BY <1>4 DEF booksVars, BooksIInv, BooksShape, PeriodsAreApart, MatchesAreTrue, Agrees, CompletionIsTrue,
              Alone, LinesOf, Completed
<1> QED BY <1>1, <1>2, <1>3, <1>4 DEF BooksNext

-----------------------------------------------------------------------------
THEOREM BooksInvariance == BooksSpec => []BooksIInv
BY BooksStart, BooksStep, PTL DEF BooksSpec

(* Whatever the desks do beside each other, a day has one fiscal period, a *)
(* matched line a posted journal line of its own, and a reconciliation     *)
(* that shares no line says COMPLETED exactly when it is.                  *)
THEOREM BooksSound == BooksSpec => []BooksAreSound
<1>1. BooksIInv => BooksAreSound
  BY DEF BooksIInv, BooksAreSound
<1> QED BY <1>1, BooksInvariance, PTL

(* Days that are closed take no entry, from no posting that was under way, *)
(* a final close is never undone, and the journal only grows.              *)
THEOREM ClosedIsFinal == BooksSpec => ClosedBooksAreFinal
<1> DEFINE Final ==
      /\ \A e \in Entries :
           IF entry[e] = "POSTED" THEN entry'[e] = "POSTED"
           ELSE entry'[e] = "POSTED" =>
                  \A s \in DOMAIN fiscal : Within(EntryDay[e], s) => fiscal[s] = "OPEN"
      /\ \A s \in DOMAIN fiscal : fiscal[s] = "CLOSED" => s \in DOMAIN fiscal' /\ fiscal'[s] = "CLOSED"
<1>1. BooksIInv /\ [BooksNext]_booksVars => [Final]_booksVars
  <2> SUFFICES ASSUME BooksIInv, BooksNext PROVE Final
    OBVIOUS
  <2>1. CASE CalendarStep
    <3>1. entry' = entry
      BY <2>1 DEF CalendarStep, CreateFiscalPeriod, SoftCloseFiscalPeriod, ReopenFiscalPeriod, CloseFiscalPeriod,
         SetFiscal, CheckControl, CreateControl, CloseControl, ReopenControl, SetControl
    <3>2. ASSUME NEW s \in DOMAIN fiscal, fiscal[s] = "CLOSED" PROVE s \in DOMAIN fiscal' /\ fiscal'[s] = "CLOSED"
      <4>1. ASSUME NEW u \in Spans, CreateFiscalPeriod(u) PROVE s \in DOMAIN fiscal' /\ fiscal'[s] = "CLOSED"
        <5>1. u # s
          <6>1. s \in Spans /\ s[1] \in Int /\ s[2] \in Int /\ s[1] <= s[2]
            BY BooksAssumption DEF BooksIInv, BooksShape, BusinessDays
          <6> QED BY <4>1, <6>1 DEF CreateFiscalPeriod, Meet
        <5> QED BY <4>1, <5>1, <3>2 DEF CreateFiscalPeriod, Put
      <4>2. ASSUME NEW u \in Spans, NEW from \in {"OPEN", "SOFT_CLOSED"}, NEW to, SetFiscal(u, from, to)
            PROVE  s \in DOMAIN fiscal' /\ fiscal'[s] = "CLOSED"
        BY <4>2, <3>2 DEF SetFiscal
      <4>3. ASSUME UNCHANGED fiscal PROVE s \in DOMAIN fiscal' /\ fiscal'[s] = "CLOSED"
        BY <4>3, <3>2
      <4> QED BY <2>1, <4>1, <4>2, <4>3 DEF CalendarStep, SoftCloseFiscalPeriod, ReopenFiscalPeriod,
                 CloseFiscalPeriod, CheckControl, CreateControl, CloseControl, ReopenControl, SetControl
    <3> QED BY <3>1, <3>2
  <2>2. CASE JournalStep
    <3>1. fiscal' = fiscal
      BY <2>2 DEF JournalStep, DraftEntry, CancelDraft, BeginPost, CommitPost, GiveUpPost, calendar
    <3>2. ASSUME NEW e \in Entries, entry[e] = "POSTED" PROVE entry'[e] = "POSTED"
      BY <2>2, <3>2 DEF JournalStep, DraftEntry, CancelDraft, BeginPost, CommitPost, GiveUpPost,
                        Unposted, BooksIInv, BooksShape
    <3>3. ASSUME NEW e \in Entries, entry[e] # "POSTED", entry'[e] = "POSTED"
          PROVE  PeriodTakes(EntryDay[e])
      BY <2>2, <3>3 DEF JournalStep, DraftEntry, CancelDraft, BeginPost, CommitPost, GiveUpPost, BooksIInv, BooksShape
    <3> QED BY <3>1, <3>2, <3>3 DEF PeriodTakes
  <2>3. CASE BankStep
    <3>1. UNCHANGED <<fiscal, entry>>
      BY <2>3 DEF BankStep, ImportBankStatement, CreateReconciliation, AutoMatch, MatchReconciliation,
                  UnmatchReconciliation, Refresh, calendar
    <3> QED BY <3>1
  <2> QED BY <2>1, <2>2, <2>3 DEF BooksNext
<1> QED BY <1>1, BooksInvariance, PTL DEF BooksSpec, ClosedBooksAreFinal

-----------------------------------------------------------------------------
(* A behaviour of the finance desk is one of the settlement and one of the *)
(* books, of which one may stand still: what is proved of each holds of    *)
(* the desk (FinanceOperationsService and AccountingService post to one    *)
(* journal and read nothing there that the other writes).                  *)
THEOREM FinanceIsBoth == FinanceSpec => Spec /\ BooksSpec
<1>1. FinanceInit => Init /\ BooksInit
  BY DEF FinanceInit
<1>2. [FinanceNext]_financeVars => [Next]_vars /\ [BooksNext]_booksVars
  BY DEF FinanceNext, SettlementTurn, BooksTurn, BooksNext, financeVars
<1> QED BY <1>1, <1>2, PTL DEF FinanceSpec, Spec, BooksSpec
=============================================================================
