---------------------------- MODULE GoodsReceipts ----------------------------
(***************************************************************************)
(* Receiving what a purchase order ordered (GoodsReceiptsService), with    *)
(* the inspection of the goods (OperationsControlService).  Creating and   *)
(* confirming a receipt are serializable transactions; rejecting it,       *)
(* completing and approving its inspection read a status first and write   *)
(* later without looking again.  One product at a cost of one, so that a   *)
(* payable is a number of units.                                           *)
(***************************************************************************)
EXTENDS Naturals, FiniteSets, Functions

CONSTANTS
  Orders, Ordered,  \* purchase orders and the quantity of their item
  Receipts,         \* goods receipts
  Clerks,           \* each with at most one call between its read and its write
  BlockOnMismatch,  \* of the PURCHASE_RECEIPT policy
  Free              \* no order, no call

ASSUME ReceiptsAssumption ==
  /\ Ordered \in [Orders -> Nat \ {0}]
  /\ IsFiniteSet(Orders) /\ IsFiniteSet(Receipts)
  /\ BlockOnMismatch \in BOOLEAN
  /\ Free \notin Orders

VARIABLES
  po,            \* status of the order, receivedQty of its item
  receipt,       \* the receipts with their item
  inspection,    \* status of the inspection of each receipt
  confirmation,  \* status of its GOODS_RECEIPT_CONFIRMATION
  broughtIn,         \* units that receipts brought into the warehouse
  payable,       \* balance of 2101
  reading        \* what each clerk's call has read

receiptVars == <<po, receipt, inspection, confirmation, broughtIn, payable, reading>>

Posted == {"CONFIRMED", "PARTIALLY_ACCEPTED"}
Verdicts == {"PASSED", "PARTIAL", "FAILED", "REVIEW_REQUIRED"}
Calls == [op : {"reject"}, receipt : Receipts, verdict : {"NONE"}]
    \cup [op : {"complete"}, receipt : Receipts, verdict : {"NONE"}]
    \cup [op : {"approve"}, receipt : Receipts, verdict : Verdicts]

ReceiptsTypeOK ==
  /\ po \in [Orders -> [status : {"NONE", "APPROVED", "PARTIALLY_RECEIVED", "RECEIVED"}, received : Nat]]
  /\ receipt \in [Receipts -> [status : {"NONE", "PENDING_INSPECTION", "READY_TO_CONFIRM", "REJECTED"} \cup Posted,
                               order : Orders \cup {Free}, accepted : Nat, damaged : Nat,
                               inspected : BOOLEAN, event : BOOLEAN]]
  /\ inspection \in [Receipts -> {"NONE", "IN_PROGRESS", "APPROVED", "REJECTED"} \cup Verdicts]
  /\ confirmation \in [Receipts -> {"NONE", "PENDING", "APPROVED", "REJECTED"}]
  /\ broughtIn \in Nat /\ payable \in Nat
  /\ reading \in [Clerks -> Calls \cup {Free}]

NoReceipt == [status |-> "NONE", order |-> Free, accepted |-> 0, damaged |-> 0,
              inspected |-> FALSE, event |-> FALSE]

\* An order is APPROVED from its creation.
ReceiptsInit ==
  /\ po = [o \in Orders |-> [status |-> "APPROVED", received |-> 0]]
  /\ receipt = [g \in Receipts |-> NoReceipt]
  /\ inspection = [g \in Receipts |-> "NONE"]
  /\ confirmation = [g \in Receipts |-> "NONE"]
  /\ broughtIn = 0 /\ payable = 0
  /\ reading = [c \in Clerks |-> Free]

Remaining(o) == Ordered[o] - po[o].received

\* create: what open receipts announce is not counted against the order.
CreateReceipt(g, o, received, damaged, inspected) ==
  /\ receipt[g].status = "NONE"
  /\ po[o].status \notin {"NONE", "RECEIVED"}
  /\ received <= Remaining(o) /\ damaged <= received
  /\ receipt' = [receipt EXCEPT ![g] =
       [status |-> IF inspected THEN "PENDING_INSPECTION" ELSE "READY_TO_CONFIRM", order |-> o,
        accepted |-> received - damaged, damaged |-> damaged, inspected |-> inspected, event |-> FALSE]]
  /\ inspection' = [inspection EXCEPT ![g] = IF inspected THEN "IN_PROGRESS" ELSE "NONE"]
  /\ confirmation' = [confirmation EXCEPT ![g] = "PENDING"]
  /\ UNCHANGED <<po, broughtIn, payable, reading>>

Cleared(g) ==
  receipt[g].inspected =>
    inspection[g] \in {"PASSED", "APPROVED"} \cup (IF BlockOnMismatch THEN {} ELSE {"PARTIAL"})

\* Faulty variant: the order's remaining quantity is not looked at again.
FitsAlways(g) == TRUE
Fits(g) == receipt[g].accepted <= Remaining(receipt[g].order)
Open(g) == receipt[g].status \in {"PENDING_INSPECTION", "READY_TO_CONFIRM"}

\* confirm: a posted receipt is returned as it is, and one with nothing
\* accepted cannot be posted.
ConfirmReceipt(g) ==
  LET o == receipt[g].order
      received == po[o].received + receipt[g].accepted
  IN  /\ Open(g) /\ Cleared(g) /\ Fits(g) /\ receipt[g].accepted > 0
      /\ po' = [po EXCEPT ![o] =
                  [status |-> IF received >= Ordered[o] THEN "RECEIVED" ELSE "PARTIALLY_RECEIVED",
                   received |-> received]]
      /\ broughtIn' = broughtIn + receipt[g].accepted
      /\ payable' = payable + receipt[g].accepted
      /\ confirmation' = [confirmation EXCEPT ![g] = IF @ = "PENDING" THEN "APPROVED" ELSE @]
      /\ receipt' = [receipt EXCEPT ![g].event = TRUE,
                       ![g].status = IF receipt[g].damaged > 0 THEN "PARTIALLY_ACCEPTED" ELSE "CONFIRMED"]
      /\ UNCHANGED <<inspection, reading>>

-----------------------------------------------------------------------------
Read(c, r) ==
  /\ reading[c] = Free
  /\ reading' = [reading EXCEPT ![c] = r]
  /\ UNCHANGED <<po, receipt, inspection, confirmation, broughtIn, payable>>

Answer(c) == reading' = [reading EXCEPT ![c] = Free]

BeginReject(c, g) ==
  /\ receipt[g].status \notin {"NONE"} \cup Posted
  /\ Read(c, [op |-> "reject", receipt |-> g, verdict |-> "NONE"])

\* The status is written whatever it has become.
RejectReceipt(c, r) ==
  /\ r.op = "reject"
  /\ receipt' = [receipt EXCEPT ![r.receipt].status = "REJECTED"]
  /\ confirmation' = [confirmation EXCEPT ![r.receipt] = IF @ = "PENDING" THEN "REJECTED" ELSE @]
  /\ Answer(c)
  /\ UNCHANGED <<po, inspection, broughtIn, payable>>

BeginVerdict(c, g) ==
  /\ inspection[g] \in {"IN_PROGRESS"} \cup Verdicts
  /\ Read(c, [op |-> "complete", receipt |-> g, verdict |-> "NONE"])

\* completeInspection: the result must repeat the receipt's quantities, and
\* damaged units make it PARTIAL unless a blocking check failed.
CompleteInspection(c, r, verdict) ==
  /\ r.op = "complete"
  /\ verdict \in IF receipt[r.receipt].damaged > 0 THEN {"PARTIAL", "FAILED"}
                 ELSE {"PASSED", "REVIEW_REQUIRED", "FAILED"}
  /\ inspection' = [inspection EXCEPT ![r.receipt] = verdict]
  /\ Answer(c)
  /\ UNCHANGED <<po, receipt, confirmation, broughtIn, payable>>

BeginApproval(c, g) ==
  /\ inspection[g] \in Verdicts
  /\ Read(c, [op |-> "approve", receipt |-> g, verdict |-> inspection[g]])

ApproveInspection(c, r) ==
  /\ r.op = "approve"
  /\ inspection' = [inspection EXCEPT ![r.receipt] =
                      IF r.verdict = "FAILED" THEN "REJECTED" ELSE "APPROVED"]
  /\ Answer(c)
  /\ UNCHANGED <<po, receipt, confirmation, broughtIn, payable>>

\* The call is lost.
DropCall(c) ==
  /\ reading[c] # Free /\ Answer(c)
  /\ UNCHANGED <<po, receipt, inspection, confirmation, broughtIn, payable>>

ReceiptsNext ==
  \/ \E g \in Receipts :
       \/ ConfirmReceipt(g)
       \/ \E o \in Orders, inspected \in BOOLEAN : \E received \in 1..Ordered[o], damaged \in 0..Ordered[o] :
            CreateReceipt(g, o, received, damaged, inspected)
       \/ \E c \in Clerks : BeginReject(c, g) \/ BeginVerdict(c, g) \/ BeginApproval(c, g)
  \/ \E c \in Clerks : \/ DropCall(c)
                       \/ \E r \in {reading[c]} \ {Free} :
                            \/ RejectReceipt(c, r) \/ ApproveInspection(c, r)
                            \/ \E verdict \in Verdicts : CompleteInspection(c, r, verdict)

ReceiptsSpec == ReceiptsInit /\ [][ReceiptsNext]_receiptVars

-----------------------------------------------------------------------------
PostedFor(o) == {g \in Receipts : receipt[g].order = o /\ receipt[g].event}

(* Concurrent receipts of one order, their inspections and their rejections*)
(* leave the order, the warehouse and the supplier's account agreeing: what*)
(* was received is the sum of the posted receipts, never more than ordered,*)
(* and it is in stock and owed exactly once (create, confirm, reject).     *)
ReceivedAsOrdered ==
  /\ \A o \in Orders : /\ po[o].received = SumFunction([g \in PostedFor(o) |-> receipt[g].accepted])
                       /\ po[o].received <= Ordered[o]
                       /\ po[o].status = "RECEIVED" <=> po[o].received = Ordered[o]
  /\ broughtIn = SumFunction([o \in Orders |-> po[o].received])
  /\ payable = broughtIn

(* goods-receipts.service.ts:392: a posted receipt must be returned, not   *)
(* rejected.                                                               *)
PostedIsNotRejected == \A g \in Receipts : receipt[g].event => receipt[g].status \in Posted
=============================================================================
