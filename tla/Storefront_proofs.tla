-------------------------- MODULE Storefront_proofs ---------------------------
(***************************************************************************)
(* What holds of the storefront for every instance: of its orders, of the  *)
(* provider's callbacks, of the units of its lines, of the customer's      *)
(* points, and of the four together.                                       *)
(*                                                                         *)
(* First of Orders, for every set of orders, references and needs.         *)
(* The payment, the ledger postings and the shipment are only safe         *)
(* together: a payment may be reset or declined because its order's status *)
(* says no goods depend on it.  MoneyFollowsOrder states that, status by   *)
(* status, and is inductive with the type, stock and shipment invariants.  *)
(***************************************************************************)
EXTENDS Storefront, SumTheorems, FiniteSetTheorems, TLAPS

Prepaid == {"MOCK_QRIS", Electronic}

Money(o) ==
  LET p == payment[o] e == posted[o] IN
  /\ status[o] \in {"NONE", "PENDING_PAYMENT", "CANCELLED"} =>
       e = {} /\ p.status # "PAID"
  /\ status[o] = "PROCESSING" =>
       e = {} /\ p.method \in Deferred /\ p.status # "PAID"
  /\ status[o] = "PAID" =>
       e = {"PREPAYMENT"} /\ p.method \in Prepaid /\ p.status = "PAID"
  /\ status[o] = "PACKED" =>
       \/ e = {"PREPAYMENT"} /\ p.method \in Prepaid /\ p.status = "PAID"
       \/ e = {} /\ p.method \in Deferred /\ p.status # "PAID"
  /\ status[o] \in {"SHIPPED", "COMPLETED"} =>
       \/ e = {"PREPAYMENT", "PREPAID_FULFILLED"} /\ p.method \in Prepaid /\ p.status = "PAID"
       \/ e = {"CREDIT_FULFILLED"} /\ p.method \in Deferred
  /\ status[o] = "REFUNDED" =>
       /\ e \in {{"PREPAYMENT", "PREPAID_FULFILLED"}, {"CREDIT_FULFILLED"}}
       /\ p.status # "PAID"

MoneyFollowsOrder == \A o \in Orders : Money(o)

IInv == TypeOK /\ HeldMatchesOrder /\ ShipmentFollowsOrder /\ MoneyFollowsOrder
        /\ UniqueProviderRef

LEMMA InitIInv == Init => IInv
<1> SUFFICES ASSUME Init PROVE IInv
  OBVIOUS
<1> USE DEF Init
<1>1. TypeOK
  BY DEF TypeOK, OrderStatuses, Payments, Methods, PaymentStatuses, Electronic
<1>2. HeldMatchesOrder
  BY DEF HeldMatchesOrder, Live
<1>3. ShipmentFollowsOrder
  BY DEF ShipmentFollowsOrder
<1>4. MoneyFollowsOrder
  BY DEF MoneyFollowsOrder, Money
<1>5. UniqueProviderRef
  BY DEF UniqueProviderRef
<1> QED BY <1>1, <1>2, <1>3, <1>4, <1>5 DEF IInv

LEMMA StepIInv == IInv /\ [Next]_vars => IInv'
<1> SUFFICES ASSUME IInv, [Next]_vars PROVE IInv'
  OBVIOUS
<1> USE OrdersAssumption DEF IInv, ledger
<1>1. ASSUME NEW o \in Orders, Create(o) PROVE IInv'
  <2> USE <1>1 DEF Create, Hold
  <2>1. TypeOK'
    BY DEF TypeOK, OrderStatuses, Payments, Methods, PaymentStatuses, Deferred, Electronic
  <2>2. HeldMatchesOrder'
    BY DEF TypeOK, HeldMatchesOrder, Live
  <2>3. ShipmentFollowsOrder'
    BY DEF TypeOK, ShipmentFollowsOrder
  <2>4. MoneyFollowsOrder'
    BY DEF TypeOK, MoneyFollowsOrder, Money, Payments, Methods, Prepaid, Deferred, Electronic
  <2>5. UniqueProviderRef'
    BY DEF TypeOK, UniqueProviderRef, Payments, Deferred, Electronic
  <2> QED BY <2>1, <2>2, <2>3, <2>4, <2>5
<1>2. ASSUME NEW o \in Orders, NEW method \in Methods, SelectPayment(o, method) PROVE IInv'
  <2> USE <1>2 DEF SelectPayment, PostPrepayment, EnsureOutboundWorkflow, Choose
  <2>1. TypeOK'
    <3>1. payment' \in [Orders -> Payments]
      <4>1. CASE method = "MOCK_QRIS"
        BY <4>1 DEF TypeOK, Payments, Methods, PaymentStatuses, Deferred, Electronic
      <4>2. CASE method # "MOCK_QRIS"
        <5>1. payment' = [payment EXCEPT ![o] =
                            [method |-> method, status |-> "PENDING", ref |-> payment[o].ref]]
          BY <4>2 DEF TypeOK, Payments
        <5> QED BY <5>1 DEF TypeOK, Payments, PaymentStatuses
      <4> QED BY <4>1, <4>2
    <3> QED BY <3>1 DEF TypeOK, OrderStatuses, Deferred, Electronic
  <2>2. HeldMatchesOrder'
    BY DEF TypeOK, HeldMatchesOrder, Live
  <2>3. ShipmentFollowsOrder'
    BY DEF TypeOK, ShipmentFollowsOrder
  <2>4. MoneyFollowsOrder'
    BY DEF TypeOK, MoneyFollowsOrder, Money, Payments, Methods, Prepaid, Deferred, Electronic
  <2>5. UniqueProviderRef'
    BY SMTT(60) DEF TypeOK, UniqueProviderRef, Payments, Deferred, Electronic
  <2> QED BY <2>1, <2>2, <2>3, <2>4, <2>5
<1>3. ASSUME NEW o \in Orders, NEW ref \in Refs, ConfirmPayment(o, ref) PROVE IInv'
  <2> USE <1>3 DEF ConfirmPayment, Unused, PostPrepayment, EnsureOutboundWorkflow
  <2>1. TypeOK'
    BY DEF TypeOK, OrderStatuses, Payments, Methods, PaymentStatuses, Deferred, Electronic
  <2>2. HeldMatchesOrder'
    BY DEF TypeOK, HeldMatchesOrder, Live
  <2>3. ShipmentFollowsOrder'
    BY DEF TypeOK, ShipmentFollowsOrder
  <2>4. MoneyFollowsOrder'
    BY DEF TypeOK, MoneyFollowsOrder, Money, Payments, Methods, Prepaid, Deferred, Electronic
  <2>5. UniqueProviderRef'
    BY DEF TypeOK, UniqueProviderRef, Payments, Deferred, Electronic
  <2> QED BY <2>1, <2>2, <2>3, <2>4, <2>5
<1>4. ASSUME NEW o \in Orders, NEW ref \in Refs, ProviderPaid(o, ref) PROVE IInv'
  <2> USE <1>4 DEF ProviderPaid, Unused, PostPrepayment, EnsureOutboundWorkflow
  <2>1. TypeOK'
    BY DEF TypeOK, OrderStatuses, Payments, Methods, PaymentStatuses, Deferred, Electronic
  <2>2. HeldMatchesOrder'
    BY DEF TypeOK, HeldMatchesOrder, Live
  <2>3. ShipmentFollowsOrder'
    BY DEF TypeOK, ShipmentFollowsOrder
  <2>4. MoneyFollowsOrder'
    BY DEF TypeOK, MoneyFollowsOrder, Money, Payments, Methods, Prepaid, Deferred, Electronic
  <2>5. UniqueProviderRef'
    BY DEF TypeOK, UniqueProviderRef, Payments, Deferred, Electronic
  <2> QED BY <2>1, <2>2, <2>3, <2>4, <2>5
<1>5. ASSUME NEW o \in Orders, NEW ref \in Refs, NEW outcome \in {"FAILED", "CANCELLED"}, ProviderDeclined(o, ref, outcome) PROVE IInv'
  <2> USE <1>5 DEF ProviderDeclined
  <2>1. TypeOK'
    <3>1. payment[o] \in Payments
      BY DEF TypeOK
    <3>2. [payment[o] EXCEPT !.status = outcome, !.ref = ref] \in Payments
      BY <3>1 DEF Payments, PaymentStatuses
    <3>3. payment' = [payment EXCEPT ![o] = [payment[o] EXCEPT !.status = outcome, !.ref = ref]]
      BY DEF TypeOK
    <3>4. payment' \in [Orders -> Payments]
      BY <3>2, <3>3 DEF TypeOK
    <3> QED BY <3>4 DEF TypeOK
  <2>2. HeldMatchesOrder'
    BY DEF TypeOK, HeldMatchesOrder, Live
  <2>3. ShipmentFollowsOrder'
    BY DEF TypeOK, ShipmentFollowsOrder
  <2>4. MoneyFollowsOrder'
    BY SMTT(60) DEF TypeOK, MoneyFollowsOrder, Money, Payments, Methods, Prepaid, Deferred, Electronic
  <2>5. UniqueProviderRef'
    BY DEF TypeOK, UniqueProviderRef, Payments, Deferred, Electronic
  <2> QED BY <2>1, <2>2, <2>3, <2>4, <2>5
<1>6. ASSUME NEW o \in Orders, AuthorizeInvoice(o) PROVE IInv'
  <2> USE <1>6 DEF AuthorizeInvoice, EnsureOutboundWorkflow
  <2>1. TypeOK'
    BY DEF TypeOK, OrderStatuses, Payments, Methods, PaymentStatuses, Deferred, Electronic
  <2>2. HeldMatchesOrder'
    BY DEF TypeOK, HeldMatchesOrder, Live
  <2>3. ShipmentFollowsOrder'
    BY DEF TypeOK, ShipmentFollowsOrder
  <2>4. MoneyFollowsOrder'
    BY DEF TypeOK, MoneyFollowsOrder, Money, Payments, Methods, Prepaid, Deferred, Electronic
  <2>5. UniqueProviderRef'
    BY DEF TypeOK, UniqueProviderRef, Payments, Deferred, Electronic
  <2> QED BY <2>1, <2>2, <2>3, <2>4, <2>5
<1>7. ASSUME NEW o \in Orders, ApproveInspection(o) PROVE IInv'
  <2> USE <1>7 DEF ApproveInspection
  <2>1. TypeOK'
    BY DEF TypeOK, OrderStatuses, Payments, Methods, PaymentStatuses, Deferred, Electronic
  <2>2. HeldMatchesOrder'
    BY DEF TypeOK, HeldMatchesOrder, Live
  <2>3. ShipmentFollowsOrder'
    BY DEF TypeOK, ShipmentFollowsOrder
  <2>4. MoneyFollowsOrder'
    BY DEF TypeOK, MoneyFollowsOrder, Money, Payments, Methods, Prepaid, Deferred, Electronic
  <2>5. UniqueProviderRef'
    BY DEF TypeOK, UniqueProviderRef, Payments, Deferred, Electronic
  <2> QED BY <2>1, <2>2, <2>3, <2>4, <2>5
<1>8. ASSUME NEW o \in Orders, Pack(o) PROVE IInv'
  <2> USE <1>8 DEF Pack
  <2>1. TypeOK'
    BY DEF TypeOK, OrderStatuses, Payments, Methods, PaymentStatuses, Deferred, Electronic
  <2>2. HeldMatchesOrder'
    BY DEF TypeOK, HeldMatchesOrder, Live
  <2>3. ShipmentFollowsOrder'
    BY DEF TypeOK, ShipmentFollowsOrder
  <2>4. MoneyFollowsOrder'
    BY DEF TypeOK, MoneyFollowsOrder, Money, Payments, Methods, Prepaid, Deferred, Electronic
  <2>5. UniqueProviderRef'
    BY DEF TypeOK, UniqueProviderRef, Payments, Deferred, Electronic
  <2> QED BY <2>1, <2>2, <2>3, <2>4, <2>5
<1>9. ASSUME NEW o \in Orders, Ship(o) PROVE IInv'
  <2> USE <1>9 DEF Ship, Fulfil
  <2>1. TypeOK'
    BY DEF TypeOK, OrderStatuses, Payments, Methods, PaymentStatuses, Deferred, Electronic
  <2>2. HeldMatchesOrder'
    BY DEF TypeOK, HeldMatchesOrder, Live
  <2>3. ShipmentFollowsOrder'
    BY DEF TypeOK, ShipmentFollowsOrder
  <2>4. MoneyFollowsOrder'
    BY DEF TypeOK, MoneyFollowsOrder, Money, Payments, Methods, Prepaid, Deferred, Electronic
  <2>5. UniqueProviderRef'
    BY DEF TypeOK, UniqueProviderRef, Payments, Deferred, Electronic
  <2> QED BY <2>1, <2>2, <2>3, <2>4, <2>5
<1>10. ASSUME NEW o \in Orders, Deliver(o) PROVE IInv'
  <2> USE <1>10 DEF Deliver
  <2>1. TypeOK'
    BY DEF TypeOK, OrderStatuses, Payments, Methods, PaymentStatuses, Deferred, Electronic
  <2>2. HeldMatchesOrder'
    BY DEF TypeOK, HeldMatchesOrder, Live
  <2>3. ShipmentFollowsOrder'
    BY DEF TypeOK, ShipmentFollowsOrder
  <2>4. MoneyFollowsOrder'
    BY DEF TypeOK, MoneyFollowsOrder, Money, Payments, Methods, Prepaid, Deferred, Electronic
  <2>5. UniqueProviderRef'
    BY DEF TypeOK, UniqueProviderRef, Payments, Deferred, Electronic
  <2> QED BY <2>1, <2>2, <2>3, <2>4, <2>5
<1>11. ASSUME NEW o \in Orders, Cancel(o) PROVE IInv'
  <2> USE <1>11 DEF Cancel, CancelPending, Drop
  <2>1. TypeOK'
    BY DEF TypeOK, OrderStatuses, Payments, Methods, PaymentStatuses, Deferred, Electronic
  <2>2. HeldMatchesOrder'
    BY DEF TypeOK, HeldMatchesOrder, Live
  <2>3. ShipmentFollowsOrder'
    BY DEF TypeOK, ShipmentFollowsOrder
  <2>4. MoneyFollowsOrder'
    BY DEF TypeOK, MoneyFollowsOrder, Money, Payments, Methods, Prepaid, Deferred, Electronic
  <2>5. UniqueProviderRef'
    BY DEF TypeOK, UniqueProviderRef, Payments, Deferred, Electronic
  <2> QED BY <2>1, <2>2, <2>3, <2>4, <2>5
<1>12. ASSUME NEW o \in Orders, Lapse(o) PROVE IInv'
  <2> USE <1>12 DEF Lapse
  <2>1. TypeOK'
    BY DEF TypeOK, OrderStatuses, Payments, Methods, PaymentStatuses, Deferred, Electronic
  <2>2. HeldMatchesOrder'
    BY DEF TypeOK, HeldMatchesOrder, Live
  <2>3. ShipmentFollowsOrder'
    BY DEF TypeOK, ShipmentFollowsOrder
  <2>4. MoneyFollowsOrder'
    BY DEF TypeOK, MoneyFollowsOrder, Money, Payments, Methods, Prepaid, Deferred, Electronic
  <2>5. UniqueProviderRef'
    BY DEF TypeOK, UniqueProviderRef, Payments, Deferred, Electronic
  <2> QED BY <2>1, <2>2, <2>3, <2>4, <2>5
<1>13. ASSUME NEW o \in Orders, Expire(o) PROVE IInv'
  <2> USE <1>13 DEF Expire, CancelPending, Drop
  <2>1. TypeOK'
    BY DEF TypeOK, OrderStatuses, Payments, Methods, PaymentStatuses, Deferred, Electronic
  <2>2. HeldMatchesOrder'
    BY DEF TypeOK, HeldMatchesOrder, Live
  <2>3. ShipmentFollowsOrder'
    BY DEF TypeOK, ShipmentFollowsOrder
  <2>4. MoneyFollowsOrder'
    BY DEF TypeOK, MoneyFollowsOrder, Money, Payments, Methods, Prepaid, Deferred, Electronic
  <2>5. UniqueProviderRef'
    BY DEF TypeOK, UniqueProviderRef, Payments, Deferred, Electronic
  <2> QED BY <2>1, <2>2, <2>3, <2>4, <2>5
<1>14. ASSUME NEW o \in Orders, SettleReceivable(o) PROVE IInv'
  <2> USE <1>14 DEF SettleReceivable
  <2>1. TypeOK'
    BY DEF TypeOK, OrderStatuses, Payments, Methods, PaymentStatuses, Deferred, Electronic
  <2>2. HeldMatchesOrder'
    BY DEF TypeOK, HeldMatchesOrder, Live
  <2>3. ShipmentFollowsOrder'
    BY DEF TypeOK, ShipmentFollowsOrder
  <2>4. MoneyFollowsOrder'
    BY DEF TypeOK, MoneyFollowsOrder, Money, Payments, Methods, Prepaid, Deferred, Electronic
  <2>5. UniqueProviderRef'
    BY DEF TypeOK, UniqueProviderRef, Payments, Deferred, Electronic
  <2> QED BY <2>1, <2>2, <2>3, <2>4, <2>5
<1>15. ASSUME NEW o \in Orders, NEW restock \in BOOLEAN, FullReturn(o, restock) PROVE IInv'
  <2> USE <1>15 DEF FullReturn
  <2>1. TypeOK'
    BY DEF TypeOK, OrderStatuses, Payments, Methods, PaymentStatuses, Deferred, Electronic
  <2>2. HeldMatchesOrder'
    BY DEF TypeOK, HeldMatchesOrder, Live
  <2>3. ShipmentFollowsOrder'
    BY DEF TypeOK, ShipmentFollowsOrder
  <2>4. MoneyFollowsOrder'
    BY DEF TypeOK, MoneyFollowsOrder, Money, Payments, Methods, Prepaid, Deferred, Electronic
  <2>5. UniqueProviderRef'
    BY DEF TypeOK, UniqueProviderRef, Payments, Deferred, Electronic
  <2> QED BY <2>1, <2>2, <2>3, <2>4, <2>5
<1>16. CASE OtherStock
  BY <1>16 DEF OtherStock, orderVars, TypeOK, HeldMatchesOrder, ShipmentFollowsOrder,
     MoneyFollowsOrder, Money, UniqueProviderRef
<1>17. CASE UNCHANGED vars
  BY <1>17 DEF vars, orderVars, TypeOK, HeldMatchesOrder, ShipmentFollowsOrder,
     MoneyFollowsOrder, Money, UniqueProviderRef
<1> QED
  BY <1>1, <1>2, <1>3, <1>4, <1>5, <1>6, <1>7, <1>8, <1>9, <1>10, <1>11, <1>12, <1>13,
     <1>14, <1>15, <1>16, <1>17 DEF Next, OrderStep
(* The inductive invariant holds in every reachable state. *)
THEOREM Invariance == Spec => []IInv
<1>1. Init => IInv
  BY InitIInv
<1>2. IInv /\ [Next]_vars => IInv'
  BY StepIInv
<1> QED BY <1>1, <1>2, PTL DEF Spec

(* Every column keeps a value of its enum, whatever the handlers do. *)
THEOREM TypeCorrect == Spec => []TypeOK
<1>1. IInv => TypeOK
  BY DEF IInv
<1> QED BY <1>1, Invariance, PTL

(* create, ship, cancel and the expiry sweep move exactly the order's units *)
(* in and out of the reserved stock: nothing leaks and nothing is released  *)
(* twice.                                                                   *)
THEOREM StockFollowsOrder == Spec => []HeldMatchesOrder
<1>1. IInv => HeldMatchesOrder
  BY DEF IInv
<1> QED BY <1>1, Invariance, PTL

(* Every customer advance is on an order that ships or is still to ship,   *)
(* and each shipped order was posted once and on the right account.        *)
THEOREM LedgerCorrect == Spec => []LedgerFollowsOrder
<1>1. IInv => LedgerFollowsOrder
  <2> SUFFICES ASSUME IInv, NEW o \in Orders
               PROVE  /\ "PREPAYMENT" \in posted[o] => status[o] \in {"PAID", "PACKED"} \cup Left
                      /\ posted[o] \ {"PREPAYMENT"} =
                           IF status[o] \notin Left THEN {}
                           ELSE IF "PREPAYMENT" \in posted[o] THEN {"PREPAID_FULFILLED"}
                           ELSE {"CREDIT_FULFILLED"}
    BY DEF LedgerFollowsOrder
  <2>1. Money(o) /\ status[o] \in OrderStatuses
    BY DEF IInv, MoneyFollowsOrder, TypeOK
  <2> QED BY <2>1 DEF Money, OrderStatuses, Left
<1> QED BY <1>1, Invariance, PTL

(* No electronic order is packed, shipped or completed unpaid, and no late *)
(* callback can make one so.                                               *)
THEOREM GoodsCorrect == Spec => []GoodsFollowMoney
<1>1. IInv => GoodsFollowMoney
  BY DEF IInv, MoneyFollowsOrder, Money, GoodsFollowMoney
<1> QED BY <1>1, Invariance, PTL

(* One provider reference pays at most one order at a time. *)
THEOREM RefsCorrect == Spec => []UniqueProviderRef
<1>1. IInv => UniqueProviderRef
  BY DEF IInv
<1> QED BY <1>1, Invariance, PTL

(* Together: goods and money follow each other for every order.            *)
THEOREM MoneyCorrect == Spec => []MoneyFollowsOrders
BY LedgerCorrect, GoodsCorrect, RefsCorrect, PTL DEF MoneyFollowsOrders

(* Each handler finds the shipment in the status it requires. *)
THEOREM ShipmentCorrect == Spec => []ShipmentFollowsOrder
<1>1. IInv => ShipmentFollowsOrder
  BY DEF IInv
<1> QED BY <1>1, Invariance, PTL

(* Neither cancel nor the expiry sweep ends an order that was paid. *)
THEOREM PaidKept == Spec => PaidOrderIsKept
<1> DEFINE Kept == \A o \in Orders : status'[o] = "CANCELLED" =>
              status[o] = "CANCELLED" \/ (payment[o].status # "PAID" /\ posted[o] = {})
<1>1. IInv /\ [Next]_vars => [Kept]_vars
  <2> SUFFICES ASSUME IInv, Next PROVE Kept
    OBVIOUS
  <2>1. ASSUME NEW o \in Orders, OrderStep(o) PROVE Kept
    <3>1. \A other \in Orders \ {o} : status'[other] = status[other]
      BY <2>1 DEF IInv, TypeOK, OrderStep, Create, SelectPayment, ConfirmPayment, ProviderPaid,
         PostPrepayment, ProviderDeclined, AuthorizeInvoice, ApproveInspection, Pack, Ship,
         Deliver, Cancel, Lapse, Expire, SettleReceivable, FullReturn
    <3>2. status'[o] = "CANCELLED" => status[o] = "CANCELLED" \/ Cancel(o) \/ Expire(o)
      BY <2>1 DEF IInv, TypeOK, OrderStep, Create, SelectPayment, ConfirmPayment, ProviderPaid,
         PostPrepayment, ProviderDeclined, AuthorizeInvoice, ApproveInspection, Pack, Ship,
         Deliver, Lapse, SettleReceivable, FullReturn
    <3>3. Cancel(o) \/ Expire(o) => payment[o].status # "PAID" /\ posted[o] = {}
      BY DEF IInv, MoneyFollowsOrder, Money, Cancel, Expire, Deferred, Prepaid
    <3> QED BY <3>1, <3>2, <3>3
  <2>2. CASE OtherStock
    BY <2>2 DEF OtherStock, orderVars
  <2> QED BY <2>1, <2>2 DEF Next
<1> QED BY <1>1, Invariance, PTL DEF Spec, PaidOrderIsKept

-----------------------------------------------------------------------------
(* The stock of all orders together: the units held are a sum over every   *)
(* order, of which a step changes one term.                                *)
StockIInv == onHand \in Int /\ setAside = 0 /\ NoOversell

LEMMA HoldKeepsStock ==
  ASSUME TypeOK, StockIInv, NEW o \in Orders, Hold(o) \/ Drop(o) \/ Fulfil(o)
  PROVE  StockIInv'
<1>1. IsFiniteSet(Orders) /\ Need[o] \in Nat /\ held \in [Orders -> Int] /\ held[o] \in Nat
  BY OrdersAssumption DEF TypeOK
<1>2. CASE Hold(o)
  <2>1. /\ held' = [held EXCEPT ![o] = Need[o]] /\ held[o] = 0 /\ Need[o] <= Unheld
        /\ UNCHANGED <<onHand, setAside>>
    BY <1>1, <1>2 DEF Hold, StockIInv, NoOversell, Unheld
  <2>2. /\ DOMAIN held = Orders /\ DOMAIN held' = Orders /\ held'[o] = Need[o]
        /\ \A x \in Orders : held[x] \in Int
        /\ \A x \in Orders \ {o} : held'[x] = held[x]
    BY <1>1, <2>1
  <2>3. SumFunction(held') = SumFunction(held) - held[o] + held'[o] /\ SumFunction(held) \in Int
    BY <1>1, <2>2, SumUpdated
  <2> QED BY <1>1, <2>1, <2>2, <2>3 DEF StockIInv, NoOversell, Unheld
<1>3. CASE Drop(o) \/ Fulfil(o)
  <2>1. held' = [held EXCEPT ![o] = 0] /\ onHand' \in {onHand, onHand - held[o]} /\ setAside' = setAside
    BY <1>3 DEF Drop, Fulfil
  <2>2. /\ DOMAIN held = Orders /\ DOMAIN held' = Orders /\ held'[o] = 0
        /\ \A x \in Orders : held[x] \in Int
        /\ \A x \in Orders \ {o} : held'[x] = held[x]
    BY <1>1, <2>1
  <2>3. SumFunction(held') = SumFunction(held) - held[o] + held'[o] /\ SumFunction(held) \in Int
    BY <1>1, <2>2, SumUpdated
  <2> QED BY <1>1, <2>1, <2>2, <2>3 DEF StockIInv, NoOversell, Unheld
<1> QED BY <1>2, <1>3

LEMMA StockStep ==
  ASSUME TypeOK, StockIInv, [Next]_vars PROVE StockIInv'
<1>1. SumFunction(held) \in Int
  <2>1. held \in [Orders -> Int] /\ \A o \in Orders : held[o] \in Int
    BY DEF TypeOK
  <2>2. SumFunctionOnSet(held, Orders) \in Int
    BY <2>1, SumType, OrdersAssumption
  <2> QED BY <2>1, <2>2 DEF SumFunction
<1>2. CASE UNCHANGED ledger
  BY <1>2 DEF ledger, StockIInv, NoOversell, Unheld
<1>3. CASE UNCHANGED vars
  BY <1>2, <1>3 DEF vars
<1>4. CASE OtherStock
  BY <1>1, <1>4, OrdersAssumption DEF OtherStock, StockIInv, NoOversell, Unheld
<1>5. ASSUME NEW o \in Orders, OrderStep(o) PROVE StockIInv'
  <2>1. ASSUME NEW restock \in BOOLEAN, FullReturn(o, restock) PROVE StockIInv'
    <3>1. Need[o] \in Nat /\ onHand' \in {onHand, onHand + Need[o]} /\ UNCHANGED <<held, setAside>>
      BY <2>1, OrdersAssumption DEF FullReturn
    <3> QED BY <1>1, <3>1 DEF StockIInv, NoOversell, Unheld
  <2>2. CASE Create(o) \/ Ship(o) \/ Cancel(o) \/ Expire(o)
    BY <2>2, HoldKeepsStock DEF Create, Ship, Cancel, Expire
  <2>3. CASE ~ (Create(o) \/ Ship(o) \/ Cancel(o) \/ Expire(o) \/ \E restock \in BOOLEAN : FullReturn(o, restock))
    <3>1. UNCHANGED ledger
      BY <1>5, <2>3 DEF OrderStep, SelectPayment, ConfirmPayment, ProviderPaid, ProviderDeclined, PostPrepayment,
         AuthorizeInvoice, ApproveInspection, Pack, Deliver, Lapse, SettleReceivable
    <3> QED BY <1>2, <3>1
  <2> QED BY <2>1, <2>2, <2>3
<1> QED BY <1>3, <1>4, <1>5 DEF Next

(* Whatever mix of orders, cancellations, expiries and counter sales: the   *)
(* shop never promises or sells more than it has, and an order holds        *)
(* exactly its units while it is unfinished.                                *)
THEOREM StockCorrect == Spec => []StockFollowsOrders
<1>1. Init => StockIInv
  <2> SUFFICES ASSUME Init PROVE StockIInv
    OBVIOUS
  <2>1. SumFunction(held) = 0
    <3>1. DOMAIN held = Orders /\ \A o \in Orders : held[o] = 0
      BY DEF Init
    <3> QED BY <3>1, SumOfZeros, OrdersAssumption DEF SumFunction
  <2> QED BY <2>1, OrdersAssumption DEF Init, StockIInv, NoOversell, Unheld
<1>2. StockIInv /\ TypeOK /\ [Next]_vars => StockIInv'
  BY StockStep
<1>3. StockIInv /\ IInv => StockFollowsOrders
  BY DEF StockIInv, IInv, StockFollowsOrders
<1>4. IInv => TypeOK
  BY DEF IInv
<1> QED BY <1>1, <1>2, <1>3, <1>4, Invariance, PTL DEF Spec

-----------------------------------------------------------------------------
(***************************************************************************)
(* Proved of PaymentCallbacks: taken apart into the statements of its      *)
(* callbacks, the storefront is still the one of Orders, so that every     *)
(* theorem about the orders holds whatever the provider repeats, overlaps  *)
(* or never hears; and one request handles an event, applying it once.     *)
(***************************************************************************)

CallbacksNext == Shop \/ CallbackStep

Handling == {"confirm", "mark", "fail"}

\* Where a request is says what has become of its event.
StepsTell ==
  \A c \in Calls :
    LET e == call[c].event IN
    /\ call[c].at \in Handling => event[e] # "NONE"
    /\ call[c].at = "confirm" => applied[e] = 0
    /\ call[c].at = "mark" => applied[e] = 1

OneHandles ==
  \A c, d \in Calls :
    call[c].event = call[d].event /\ {call[c].at, call[d].at} \subseteq Handling => c = d

EventsTell ==
  \A e \in Events :
    /\ applied[e] <= 1
    /\ event[e] = "PROCESSED" => applied[e] = 1
    /\ event[e] = "NONE" => applied[e] = 0 /\ e \notin told

CInv == CallbacksTypeOK /\ StepsTell /\ OneHandles /\ EventsTell

\* Applying an event is a step of its order, or none.
LEMMA ApplyImplements ==
  ASSUME NEW e \in Events, Apply(e) PROVE [Next]_vars
<1>1. About[e] \in Orders /\ RefOf[e] \in Refs /\ Says[e] \in {"PAID", "FAILED", "CANCELLED"}
  BY CallbacksAssumption
<1>2. CASE ProviderPaid(About[e], RefOf[e])
  BY <1>1, <1>2 DEF Next, OrderStep
<1>3. CASE UNCHANGED vars
  BY <1>3
<1>4. CASE Says[e] # "PAID" /\ ProviderDeclined(About[e], RefOf[e], Says[e])
  <2>1. Says[e] \in {"FAILED", "CANCELLED"}
    BY <1>1, <1>4
  <2> QED BY <1>1, <1>4, <2>1 DEF Next, OrderStep
<1> QED BY <1>2, <1>3, <1>4 DEF Apply

\* Every step of a request is a step of the orders, or leaves them alone.
LEMMA StepImplements ==
  ASSUME CInv, [CallbacksNext]_<<vars, callbackVars>> PROVE [Next]_vars
<1>1. CASE Shop
  BY <1>1 DEF Shop, ShopStep, Next, OrderStep
<1>2. ASSUME NEW c \in Calls, ConfirmEvent(c) PROVE [Next]_vars
  <2>1. call[c].event \in Events
    BY <1>2 DEF CInv, CallbacksTypeOK, NoCall, ConfirmEvent
  <2> QED BY <1>2, <2>1, ApplyImplements DEF ConfirmEvent
<1>3. CASE UNCHANGED vars
  BY <1>3
<1>4. CASE CallbackStep
  <2>1. ASSUME NEW e \in Events, AnswerReplay(e) PROVE UNCHANGED vars
    BY <2>1 DEF AnswerReplay
  <2>2. ASSUME NEW e \in Events, NEW c \in Calls, BeginCallback(c, e) PROVE UNCHANGED vars
    BY <2>2 DEF BeginCallback
  <2>3. ASSUME NEW c \in Calls,
               RecordEvent(c) \/ MarkEvent(c) \/ CallFails(c) \/ MarkFailed(c) \/ CallDies(c)
        PROVE UNCHANGED vars
    BY <2>3 DEF RecordEvent, MarkEvent, CallFails, MarkFailed, CallDies
  <2> QED BY <1>2, <1>3, <1>4, <2>1, <2>2, <2>3 DEF CallbackStep
<1>5. CASE UNCHANGED <<vars, callbackVars>>
  BY <1>3, <1>5
<1> QED BY <1>1, <1>4, <1>5 DEF CallbacksNext

LEMMA CallbacksInitCInv ==
  ASSUME CallbacksInit PROVE CInv
BY DEF CallbacksInit, CInv, CallbacksTypeOK, StepsTell, OneHandles, EventsTell, NoCall, Handling

\* Each statement of a request keeps the invariant; the others do not see the
\* events.
LEMMA CallbacksStepCInv ==
  ASSUME CInv, [CallbacksNext]_<<vars, callbackVars>> PROVE CInv'
<1> USE DEF CInv, CallbacksTypeOK, NoCall
<1>1. CASE UNCHANGED callbackVars
  BY <1>1 DEF callbackVars, StepsTell, OneHandles, EventsTell
<1>2. ASSUME NEW e \in Events, AnswerReplay(e) PROVE CInv'
  <2>1. CallbacksTypeOK'
    BY <1>2 DEF AnswerReplay
  <2>2. StepsTell' /\ OneHandles'
    BY <1>2 DEF AnswerReplay, StepsTell, OneHandles
  <2>3. EventsTell'
    BY <1>2 DEF AnswerReplay, EventsTell
  <2> QED BY <2>1, <2>2, <2>3
<1>3. ASSUME NEW c \in Calls, NEW e \in Events, BeginCallback(c, e) PROVE CInv'
  <2>1. CallbacksTypeOK'
    BY <1>3 DEF BeginCallback
  <2>2. StepsTell'
    BY <1>3 DEF BeginCallback, StepsTell, Handling
  <2>3. OneHandles'
    BY <1>3 DEF BeginCallback, OneHandles, Handling
  <2>4. EventsTell'
    BY <1>3 DEF BeginCallback, EventsTell
  <2> QED BY <2>1, <2>2, <2>3, <2>4
<1>4. ASSUME NEW c \in Calls, RecordEvent(c) PROVE CInv'
  <2> DEFINE e == call[c].event
  <2>0. e \in Events /\ call[c].at = "create"
    BY <1>4 DEF RecordEvent
  <2>1. CASE event[e] = "NONE" /\ event' = [event EXCEPT ![e] = "RECEIVED"]
             /\ GoesTo(c, "confirm") /\ UNCHANGED <<told, applied>>
    <3>1. CallbacksTypeOK'
      BY <2>0, <2>1 DEF GoesTo
    <3>2. \A d \in Calls : call[d].at \in Handling => call[d].event # e
      BY <2>1 DEF StepsTell
    <3>3. StepsTell'
      BY <2>0, <2>1, <3>2 DEF GoesTo, StepsTell, EventsTell, Handling
    <3>4. OneHandles'
      BY <2>0, <2>1, <3>2 DEF GoesTo, OneHandles, Handling
    <3>5. EventsTell'
      BY <2>0, <2>1 DEF EventsTell
    <3> QED BY <3>1, <3>3, <3>4, <3>5
  <2>2. CASE event[e] # "NONE" /\ told' = told \cup {e} /\ Ends(c) /\ UNCHANGED <<event, applied>>
    <3>1. CallbacksTypeOK'
      BY <2>0, <2>2 DEF Ends
    <3>2. StepsTell' /\ OneHandles'
      BY <2>0, <2>2 DEF Ends, StepsTell, OneHandles, Handling
    <3>3. EventsTell'
      BY <2>0, <2>2 DEF EventsTell
    <3> QED BY <3>1, <3>2, <3>3
  <2> QED BY <1>4, <2>1, <2>2 DEF RecordEvent
<1>5. ASSUME NEW c \in Calls, ConfirmEvent(c) PROVE CInv'
  <2> DEFINE e == call[c].event
  <2>0. e \in Events /\ call[c].at = "confirm" /\ applied[e] = 0 /\ event[e] # "NONE"
        /\ applied' = [applied EXCEPT ![e] = @ + 1] /\ GoesTo(c, "mark") /\ UNCHANGED <<event, told>>
    BY <1>5 DEF ConfirmEvent, StepsTell, Handling
  <2>1. CallbacksTypeOK'
    BY <2>0 DEF GoesTo
  <2>2. \A d \in Calls : call[d].at \in Handling /\ call[d].event = e => d = c
    BY <2>0 DEF OneHandles, Handling
  <2>3. StepsTell'
    BY <2>0, <2>2 DEF GoesTo, StepsTell, Handling
  <2>4. OneHandles'
    BY <2>0 DEF GoesTo, OneHandles, Handling
  <2>5. EventsTell'
    BY <2>0 DEF EventsTell
  <2> QED BY <2>1, <2>3, <2>4, <2>5
<1>6. ASSUME NEW c \in Calls, MarkEvent(c) \/ MarkFailed(c) PROVE CInv'
  <2> DEFINE e == call[c].event
  <2>0. e \in Events /\ call[c].at \in {"mark", "fail"} /\ Ends(c) /\ UNCHANGED applied
    BY <1>6 DEF MarkEvent, MarkFailed
  <2>1. PICK s \in {"PROCESSED", "FAILED"} :
          event' = [event EXCEPT ![e] = s] /\ (s = "PROCESSED" => call[c].at = "mark")
    BY <1>6 DEF MarkEvent, MarkFailed
  <2>2. event[e] # "NONE" /\ (s = "PROCESSED" => applied[e] = 1)
    BY <2>0, <2>1 DEF StepsTell, Handling
  <2>3. told' \in {told, told \cup {e}}
    BY <1>6 DEF MarkEvent, MarkFailed
  <2>4. CallbacksTypeOK'
    BY <2>0, <2>1, <2>3 DEF Ends
  <2>5. StepsTell'
    BY <2>0, <2>1 DEF Ends, StepsTell, Handling
  <2>6. OneHandles'
    BY <2>0 DEF Ends, OneHandles, Handling
  <2>7. EventsTell'
    BY <2>0, <2>1, <2>2, <2>3 DEF EventsTell
  <2> QED BY <2>4, <2>5, <2>6, <2>7
<1>7. ASSUME NEW c \in Calls, CallFails(c) PROVE CInv'
  <2>1. CallbacksTypeOK'
    BY <1>7 DEF CallFails, GoesTo
  <2>2. StepsTell' /\ OneHandles'
    BY <1>7 DEF CallFails, GoesTo, StepsTell, OneHandles, Handling
  <2>3. EventsTell'
    BY <1>7 DEF CallFails, EventsTell
  <2> QED BY <2>1, <2>2, <2>3
<1>8. ASSUME NEW c \in Calls, CallDies(c) PROVE CInv'
  <2>1. CallbacksTypeOK'
    BY <1>8 DEF CallDies, Ends
  <2>2. StepsTell' /\ OneHandles'
    BY <1>8 DEF CallDies, Ends, StepsTell, OneHandles, Handling
  <2>3. EventsTell'
    BY <1>8 DEF CallDies, EventsTell
  <2> QED BY <2>1, <2>2, <2>3
<1>9. CASE CallbackStep
  BY <1>2, <1>3, <1>4, <1>5, <1>6, <1>7, <1>8, <1>9 DEF CallbackStep
<1>10. CASE Shop \/ UNCHANGED <<vars, callbackVars>>
  BY <1>1, <1>10 DEF Shop
<1> QED BY <1>9, <1>10 DEF CallbacksNext

(* The invariant holds of every reachable state. *)
THEOREM CallbacksInvariance == CallbacksSpec => []CInv
<1>1. Init /\ CallbacksInit => CInv
  BY CallbacksInitCInv
<1>2. CInv /\ [CallbacksNext]_<<vars, callbackVars>> => CInv'
  BY CallbacksStepCInv
<1> QED BY <1>1, <1>2, PTL DEF CallbacksSpec, CallbacksNext

(* However often and concurrently the provider calls, one request handles *)
(* an event and applies it at most once.                                   *)
THEOREM CallbacksCorrect == CallbacksSpec => []CallbacksAreTrue
<1>1. CInv => CallbacksAreTrue
  BY DEF CInv, EventsTell, OneHandles, Handling, CallbacksAreTrue
<1> QED BY <1>1, CallbacksInvariance, PTL

(* providerCallback, statement by statement, implements the storefront of  *)
(* Orders, in which a callback is one step or none: what is proved of      *)
(* Orders holds of it.                                                     *)
THEOREM CallbacksImplement == CallbacksSpec => Spec
<1>1. CInv /\ [CallbacksNext]_<<vars, callbackVars>> => [Next]_vars
  BY StepImplements
<1> QED BY <1>1, CallbacksInvariance, PTL DEF CallbacksSpec, CallbacksNext, Spec

-----------------------------------------------------------------------------
(***************************************************************************)
(* The units in which goods are sold and taken back, for any units,        *)
(* barcodes, lines and returns, however edits overlap.  A sold line is the *)
(* product of its units and the factor it kept, and so is each return by   *)
(* that same factor; the sums follow, because a factor times a sum is the  *)
(* sum of the multiples.                                                   *)
(***************************************************************************)

\* A line, and a return of it, count their pieces by the factor of the line.
CountedByTheLine ==
  /\ \A l \in Lines : line[l].pieces = line[l].units * line[l].factor
  /\ \A r \in UnitReturns :
       unitReturn[r].status # "NONE" =>
         /\ line[unitReturn[r].line].units # 0
         /\ unitReturn[r].pieces = unitReturn[r].units * line[unitReturn[r].line].factor

\* No more comes back than was sold.
ClaimsFit == \A l \in Lines : PiecesOf(Claimed(l)) <= line[l].pieces

CameBack == {r \in UnitReturns : unitReturn[r].status = "COMPLETED" /\ unitReturn[r].good}
ShelfIsCounted == shelf + SumFunction([l \in Lines |-> line[l].pieces]) = Stock + PiecesOf(CameBack)

SellingIInv == SellingTypeOK /\ CountedByTheLine /\ ClaimsFit /\ ShelfIsCounted

LEMMA SellingStart == SellingInit => SellingIInv
<1> SUFFICES ASSUME SellingInit PROVE SellingIInv
  OBVIOUS
<1>1. SellingTypeOK
  <2>1. (CHOOSE l \in Lines : TRUE) \in Lines
    BY SellingUnitsAssumption
  <2> QED BY <2>1, SellingUnitsAssumption DEF SellingInit, SellingTypeOK, AnyFactor, NoEdit
<1>2. CountedByTheLine
  BY <1>1, SellingUnitsAssumption DEF SellingInit, CountedByTheLine, SellingTypeOK
<1>3. \A l \in Lines : Claimed(l) = {}
  BY DEF SellingInit, Claimed
<1>4. \A l \in Lines : PiecesOf(Claimed(l)) = 0 /\ line[l].pieces = 0
  BY <1>3, SumEmpty DEF PiecesOf, SellingInit
<1>5. CameBack = {} /\ PiecesOf(CameBack) = 0
  BY SumEmpty DEF CameBack, PiecesOf, SellingInit
<1>6. SumFunction([l \in Lines |-> line[l].pieces]) = 0
  BY <1>4, SumOfZeros, SellingUnitsAssumption DEF SumFunction
<1> QED BY <1>1, <1>2, <1>4, <1>5, <1>6, SellingUnitsAssumption DEF SellingIInv, ClaimsFit, ShelfIsCounted, SellingInit

UnitRow == [status : {"NONE", "ACTIVE", "INACTIVE"}, code : Codes, factor : AnyFactor]
BarcodeRow == [exists : BOOLEAN, unit : UnitIds \cup {NoUnit}, code : Codes, factor : AnyFactor]

LEMMA RowsChange ==
  /\ \A row \in UnitRow, code \in Codes, factor \in AnyFactor :
       [row EXCEPT !.code = code, !.factor = factor] \in UnitRow
  /\ \A row \in UnitRow, s \in {"ACTIVE", "INACTIVE"} : [row EXCEPT !.status = s] \in UnitRow
  /\ \A row \in BarcodeRow, code \in Codes, factor \in AnyFactor :
       [row EXCEPT !.code = code, !.factor = factor] \in BarcodeRow
<1>1. ASSUME NEW row \in UnitRow, NEW code \in Codes, NEW factor \in AnyFactor
      PROVE  [row EXCEPT !.code = code, !.factor = factor] \in UnitRow
  BY DEF UnitRow
<1>2. ASSUME NEW row \in UnitRow, NEW s \in {"ACTIVE", "INACTIVE"}
      PROVE  [row EXCEPT !.status = s] \in UnitRow
  BY DEF UnitRow
<1>3. ASSUME NEW row \in BarcodeRow, NEW code \in Codes, NEW factor \in AnyFactor
      PROVE  [row EXCEPT !.code = code, !.factor = factor] \in BarcodeRow
  BY DEF BarcodeRow
<1> QED BY <1>1, <1>2, <1>3

\* Editing master data keeps the types and touches nothing that was traded.
LEMMA EditKeepsTypes ==
  ASSUME SellingTypeOK, EditMasterData PROVE SellingTypeOK' /\ UNCHANGED tradeVars
<1> DEFINE Kept == baseUnit' \in Codes /\ unit' \in [UnitIds -> UnitRow] /\ barcode' \in [Barcodes -> BarcodeRow]
           ClerkRow == [barcode : Barcodes \cup {NoUnit}, exists : BOOLEAN, unit : UnitIds \cup {NoUnit},
                        relink : BOOLEAN, code : Codes, factor : AnyFactor]
<1>0. /\ baseUnit \in Codes /\ unit \in [UnitIds -> UnitRow] /\ barcode \in [Barcodes -> BarcodeRow]
      /\ clerk \in [Clerks -> ClerkRow] /\ Factors \subseteq AnyFactor /\ NoEdit \in ClerkRow
  BY SellingUnitsAssumption DEF SellingTypeOK, UnitRow, BarcodeRow, AnyFactor, NoEdit
<1> HIDE DEF ClerkRow
<1>1. ASSUME NEW code \in Codes, ChangeBaseUnit(code) PROVE Kept /\ clerk' \in [Clerks -> ClerkRow]
  BY <1>0, <1>1 DEF ChangeBaseUnit
<1>2. ASSUME NEW u \in UnitIds, NEW code \in Codes, NEW factor \in Factors, CreateUnit(u, code, factor)
      PROVE  Kept /\ clerk' \in [Clerks -> ClerkRow]
  <2>1. [status |-> "ACTIVE", code |-> code, factor |-> factor] \in UnitRow
    BY <1>0 DEF UnitRow
  <2> QED BY <1>0, <1>2, <2>1 DEF CreateUnit
<1>3. ASSUME NEW u \in UnitIds, NEW code \in Codes, NEW factor \in Factors, UpdateUnit(u, code, factor)
      PROVE  Kept /\ clerk' \in [Clerks -> ClerkRow]
  <2>1. unit' \in [UnitIds -> UnitRow]
    <3>1. [unit[u] EXCEPT !.code = code, !.factor = factor] \in UnitRow
      BY <1>0, RowsChange
    <3>2. unit' = [unit EXCEPT ![u] = [unit[u] EXCEPT !.code = code, !.factor = factor]]
      BY <1>3 DEF UpdateUnit
    <3> QED BY <1>0, <3>1, <3>2
  <2>2. \A b \in Barcodes : barcode'[b] \in BarcodeRow
    BY <1>0, <1>3, RowsChange DEF UpdateUnit
  <2>3. barcode' = [b \in Barcodes |-> barcode'[b]]
    BY <1>3 DEF UpdateUnit
  <2> QED BY <1>0, <1>3, <2>1, <2>2, <2>3 DEF UpdateUnit
<1>4. ASSUME NEW u \in UnitIds, DeactivateUnit(u) \/ ReactivateUnit(u) PROVE Kept /\ clerk' \in [Clerks -> ClerkRow]
  <2>1. PICK s \in {"ACTIVE", "INACTIVE"} : unit' = [unit EXCEPT ![u] = [unit[u] EXCEPT !.status = s]]
    BY <1>4 DEF DeactivateUnit, ReactivateUnit
  <2>2. [unit[u] EXCEPT !.status = s] \in UnitRow
    BY <1>0, RowsChange
  <2> QED BY <1>0, <1>4, <2>1, <2>2 DEF DeactivateUnit, ReactivateUnit
<1>5. ASSUME NEW c \in Clerks, WriteBarcode(c) PROVE Kept /\ clerk' \in [Clerks -> ClerkRow]
  <2>1. clerk[c] \in ClerkRow /\ clerk[c].barcode \in Barcodes
    BY <1>0, <1>5 DEF WriteBarcode, ClerkRow
  <2>2. barcode'[clerk[c].barcode] \in BarcodeRow
    BY <1>0, <1>5, <2>1 DEF WriteBarcode, BarcodeRow, ClerkRow
  <2> QED BY <1>0, <1>5, <2>1, <2>2 DEF WriteBarcode
<1>6. ASSUME NEW c \in Clerks, NEW b \in Barcodes, NEW relink \in BOOLEAN, NEW u \in UnitIds \cup {NoUnit},
             NEW code \in Codes, NEW factor \in AnyFactor, AskBarcode(c, b, relink, u, code, factor)
      PROVE  Kept /\ clerk' \in [Clerks -> ClerkRow]
  <2>1. [barcode |-> b, exists |-> barcode[b].exists, unit |-> u, relink |-> relink,
         code |-> code, factor |-> factor] \in ClerkRow
    BY <1>0 DEF ClerkRow, BarcodeRow
  <2> QED BY <1>0, <1>6, <2>1 DEF AskBarcode
<1>7. Kept /\ clerk' \in [Clerks -> ClerkRow]
  BY <1>1, <1>2, <1>3, <1>4, <1>5, <1>6 DEF EditMasterData
<1>8. UNCHANGED tradeVars
  BY Zenon DEF EditMasterData, ChangeBaseUnit, CreateUnit, UpdateUnit, DeactivateUnit, ReactivateUnit,
     WriteBarcode, AskBarcode
<1>9. Edit \/ UNCHANGED edits
  BY DEF EditMasterData, ChangeBaseUnit, CreateUnit, UpdateUnit, DeactivateUnit, ReactivateUnit,
     WriteBarcode, AskBarcode
<1>10. edits' \in 0..MaxEdits
  BY <1>9, SellingUnitsAssumption DEF Edit, SellingTypeOK
<1>11. outdated' \subseteq Barcodes
  <2>1. outdated \subseteq Barcodes /\ \A c \in Clerks : clerk[c].barcode # NoUnit => clerk[c].barcode \in Barcodes
    BY <1>0 DEF SellingTypeOK, ClerkRow
  <2>2. ASSUME NEW c \in Clerks, WriteBarcode(c) PROVE outdated' \subseteq Barcodes
    BY <2>1, <2>2 DEF WriteBarcode
  <2>3. ASSUME NEW u \in UnitIds, NEW code \in Codes, NEW factor \in Factors, UpdateUnit(u, code, factor)
        PROVE  outdated' \subseteq Barcodes
    BY <2>1, <2>3 DEF UpdateUnit, StillOutdated
  <2> QED BY <2>1, <2>2, <2>3 DEF EditMasterData, ChangeBaseUnit, CreateUnit, DeactivateUnit, ReactivateUnit, AskBarcode
<1> QED BY <1>7, <1>8, <1>10, <1>11 DEF SellingTypeOK, UnitRow, BarcodeRow, ClerkRow, tradeVars

LEMMA ReturnSums ==
  ASSUME SellingTypeOK, NEW rs \in SUBSET UnitReturns
  PROVE  IsFiniteSet(rs) /\ PiecesOf(rs) \in Nat /\ UnitsOf(rs) \in Nat
<1>1. IsFiniteSet(rs)
  BY SellingUnitsAssumption, FS_Subset
<1>2. \A r \in rs : /\ [x \in UnitReturns |-> unitReturn[x].pieces][r] \in Nat
                    /\ [x \in UnitReturns |-> unitReturn[x].units][r] \in Nat
  BY DEF SellingTypeOK
<1> QED BY <1>1, <1>2, SumNat DEF PiecesOf, UnitsOf

LEMMA FactorsArePositive == \A factor \in AnyFactor : factor \in Nat \ {0}
BY SellingUnitsAssumption DEF AnyFactor

\* The conversion that a line keeps has one of three sources, and its types.
LEMMA ConversionCases ==
  ASSUME NEW ask \in Asks, NEW conversion \in Conversion(ask)
  PROVE  \/ ask.barcode # NoUnit /\ conversion \in Scanned(ask.unit, ask.barcode)
         \/ ask.barcode = NoUnit /\ ask.unit # NoUnit /\ conversion \in InUnit(ask.unit)
         \/ /\ ask.barcode = NoUnit /\ ask.unit = NoUnit
            /\ conversion \in {[unit |-> NoUnit, code |-> baseUnit, factor |-> 1]}
<1>1. CASE ask.barcode # NoUnit
  BY <1>1 DEF Conversion
<1>2. CASE ask.barcode = NoUnit /\ ask.unit # NoUnit
  BY <1>2 DEF Conversion
<1>3. CASE ask.barcode = NoUnit /\ ask.unit = NoUnit
  BY <1>3 DEF Conversion
<1> QED BY <1>1, <1>2, <1>3

LEMMA ConversionType ==
  ASSUME SellingTypeOK, NEW ask \in Asks, NEW conversion \in Conversion(ask)
  PROVE  /\ conversion \in [unit : UnitIds \cup {NoUnit}, code : Codes, factor : AnyFactor]
         /\ conversion.factor \in Nat \ {0}
<1> DEFINE Row == [unit : UnitIds \cup {NoUnit}, code : Codes, factor : AnyFactor]
<1>1. \A u \in UnitIds : InUnit(u) \subseteq Row
  BY DEF InUnit, SellingTypeOK
<1>2. \A u \in UnitIds \cup {NoUnit}, b \in Barcodes : Scanned(u, b) \subseteq Row
  BY <1>1 DEF Scanned, SellingTypeOK
<1>3. [unit |-> NoUnit, code |-> baseUnit, factor |-> 1] \in Row
  BY DEF SellingTypeOK, AnyFactor
<1>4. ask.unit \in UnitIds \cup {NoUnit} /\ ask.barcode \in Barcodes \cup {NoUnit}
  BY DEF Asks
<1>5. \/ ask.barcode # NoUnit /\ conversion \in Scanned(ask.unit, ask.barcode)
      \/ ask.unit # NoUnit /\ conversion \in InUnit(ask.unit)
      \/ conversion \in {[unit |-> NoUnit, code |-> baseUnit, factor |-> 1]}
  BY ConversionCases
<1>6. conversion \in Row
  <2> HIDE DEF Row
  <2> QED BY <1>1, <1>2, <1>3, <1>4, <1>5
<1> QED BY <1>6, FactorsArePositive

\* All of the pieces of a line that came back are the units that came back.
LEMMA ClaimsScale ==
  ASSUME SellingTypeOK, CountedByTheLine, NEW l \in Lines
  PROVE  PiecesOf(Claimed(l)) = line[l].factor * UnitsOf(Claimed(l))
<1> DEFINE pieces == [r \in UnitReturns |-> unitReturn[r].pieces]
           units == [r \in UnitReturns |-> unitReturn[r].units]
<1>1. IsFiniteSet(Claimed(l))
  BY ReturnSums DEF Claimed
<1>2. line[l].factor \in Int
  BY FactorsArePositive DEF SellingTypeOK
<1>3. \A r \in Claimed(l) : units[r] \in Int /\ pieces[r] = units[r] * line[l].factor
  BY DEF Claimed, CountedByTheLine, SellingTypeOK
<1>4. \A r \in Claimed(l) : units[r] \in Int /\ pieces[r] = line[l].factor * units[r]
  <2>1. \A i, j \in Int : i * j = j * i
    OBVIOUS
  <2> QED BY <1>2, <1>3, <2>1
<1> HIDE DEF pieces, units
<1>5. SumFunctionOnSet(pieces, Claimed(l)) = line[l].factor * SumFunctionOnSet(units, Claimed(l))
  BY <1>1, <1>2, <1>4, SumScaled
<1> QED BY <1>5 DEF PiecesOf, UnitsOf, pieces, units

LEMMA SellKeeps ==
  ASSUME SellingIInv, NEW l \in Lines, NEW ask \in Asks, NEW units \in Amounts, SellLine(l, ask, units)
  PROVE  SellingIInv'
<1> USE SellingUnitsAssumption
<1>1. PICK conversion \in Conversion(ask) :
        /\ line[l].units = 0 /\ units * conversion.factor <= shelf
        /\ line' = [line EXCEPT ![l] = [units |-> units, factor |-> conversion.factor, unit |-> conversion.unit,
                                        pieces |-> units * conversion.factor]]
        /\ shelf' = shelf - units * conversion.factor
        /\ UNCHANGED <<masterVars, unitReturn>>
  BY DEF SellLine
<1> DEFINE n == units * conversion.factor
<1>2. /\ conversion.unit \in UnitIds \cup {NoUnit} /\ conversion.factor \in AnyFactor
      /\ units \in Nat \ {0} /\ conversion.factor \in Nat \ {0}
  BY ConversionType DEF SellingIInv
<1>3. n \in Nat
  BY <1>2
<1> HIDE DEF n
<1>4. shelf' = shelf - n /\ n <= shelf /\ shelf \in Nat
  BY <1>1 DEF n, SellingIInv, SellingTypeOK
<1>5. line' = [line EXCEPT ![l] = [units |-> units, factor |-> conversion.factor, unit |-> conversion.unit,
                                   pieces |-> n]]
  BY <1>1 DEF n
<1>6. SellingTypeOK'
  BY <1>1, <1>2, <1>3, <1>4, <1>5 DEF SellingIInv, SellingTypeOK, masterVars
<1>7. \A r \in UnitReturns : unitReturn[r].status # "NONE" => unitReturn[r].line # l
  BY <1>1 DEF SellingIInv, CountedByTheLine
<1>8. CountedByTheLine'
  <2>1. \A k \in Lines : line'[k].pieces = line'[k].units * line'[k].factor
    BY <1>1, <1>5 DEF n, SellingIInv, CountedByTheLine, SellingTypeOK
  <2>2. \A k \in Lines \ {l} : line'[k] = line[k]
    BY <1>5 DEF SellingIInv, SellingTypeOK
  <2>3. \A r \in UnitReturns : unitReturn'[r] = unitReturn[r] /\ unitReturn[r].line \in Lines
    BY <1>1 DEF SellingIInv, SellingTypeOK
  <2>4. \A r \in UnitReturns : unitReturn[r].status # "NONE" =>
          line[unitReturn[r].line].units # 0 /\ line'[unitReturn[r].line] = line[unitReturn[r].line]
    BY <1>7, <2>2, <2>3 DEF SellingIInv, CountedByTheLine
  <2> QED BY <2>1, <2>3, <2>4 DEF SellingIInv, CountedByTheLine
<1>9. ClaimsFit'
  <2>1. \A k \in Lines : Claimed(k)' = Claimed(k) /\ PiecesOf(Claimed(k))' = PiecesOf(Claimed(k))
    BY <1>1 DEF Claimed, PiecesOf
  <2>2. \A k \in Lines \ {l} : line'[k].pieces = line[k].pieces
    BY <1>5 DEF SellingIInv, SellingTypeOK
  <2>3. Claimed(l) = {} /\ PiecesOf(Claimed(l)) = 0
    BY <1>7, SumEmpty DEF Claimed, PiecesOf
  <2>4. line'[l].pieces = n
    BY <1>5 DEF SellingIInv, SellingTypeOK
  <2> QED BY <1>3, <2>1, <2>2, <2>3, <2>4 DEF SellingIInv, ClaimsFit
<1>10. ShelfIsCounted'
  <2> DEFINE sold == [k \in Lines |-> line[k].pieces]
             soldNow == [k \in Lines |-> line'[k].pieces]
  <2>1. line[l].pieces = 0
    <3>1. line[l].factor \in Int
      BY FactorsArePositive DEF SellingIInv, SellingTypeOK
    <3> QED BY <1>1, <3>1 DEF SellingIInv, CountedByTheLine
  <2>2. /\ \A k \in Lines : sold[k] \in Int
        /\ sold[l] = 0 /\ soldNow[l] = n /\ \A k \in Lines \ {l} : soldNow[k] = sold[k]
    BY <1>5, <2>1 DEF SellingIInv, SellingTypeOK
  <2>3. SumFunction(sold) = SumFunctionOnSet(sold, Lines) /\ SumFunction(soldNow) = SumFunctionOnSet(soldNow, Lines)
    BY DEF SumFunction
  <2> HIDE DEF sold, soldNow
  <2>4. SumFunctionOnSet(soldNow, Lines) = SumFunctionOnSet(sold, Lines) - sold[l] + soldNow[l]
    BY <1>3, <2>2, SumChanged
  <2>5. SumFunctionOnSet(sold, Lines) \in Int
    BY <2>2, SumType
  <2>6. SumFunction(soldNow) = SumFunction(sold) + n
    BY <1>3, <2>2, <2>3, <2>4, <2>5
  <2>7. CameBack' = CameBack /\ PiecesOf(CameBack)' = PiecesOf(CameBack)
    BY <1>1 DEF CameBack, PiecesOf
  <2>8. shelf' + SumFunction(soldNow) = shelf + SumFunction(sold)
    BY <1>3, <1>4, <2>3, <2>5, <2>6
  <2>9. shelf + SumFunction(sold) = Stock + PiecesOf(CameBack)
    BY DEF sold, SellingIInv, ShelfIsCounted
  <2> QED BY <2>7, <2>8, <2>9 DEF soldNow, ShelfIsCounted
<1> QED BY <1>6, <1>8, <1>9, <1>10 DEF SellingIInv

\* The pieces of a set of returns are the same while those returns are.
LEMMA SamePieces ==
  ASSUME SellingTypeOK, NEW rs \in SUBSET UnitReturns, \A r \in rs : unitReturn'[r].pieces = unitReturn[r].pieces
  PROVE  PiecesOf(rs)' = PiecesOf(rs)
<1>1. IsFiniteSet(rs)
  BY ReturnSums
<1> DEFINE now == [r \in UnitReturns |-> unitReturn'[r].pieces]
           then == [r \in UnitReturns |-> unitReturn[r].pieces]
<1>2. \A r \in rs : now[r] = then[r]
  OBVIOUS
<1> HIDE DEF now, then
<1>3. SumFunctionOnSet(now, rs) = SumFunctionOnSet(then, rs)
  BY <1>1, <1>2, SumAgree
<1> QED BY <1>3 DEF now, then, PiecesOf

LEMMA OneMoreReturn ==
  ASSUME SellingTypeOK, NEW rs \in SUBSET UnitReturns, NEW r \in UnitReturns \ rs
  PROVE  PiecesOf(rs \cup {r}) = PiecesOf(rs) + unitReturn[r].pieces
<1> DEFINE pieces == [x \in UnitReturns |-> unitReturn[x].pieces]
<1>1. IsFiniteSet(rs) /\ r \notin rs /\ pieces[r] = unitReturn[r].pieces
  BY ReturnSums
<1>2. \A x \in rs \cup {r} : pieces[x] \in Int
  BY DEF SellingTypeOK
<1> HIDE DEF pieces
<1>3. SumFunctionOnSet(pieces, rs \cup {r}) = SumFunctionOnSet(pieces, rs) + pieces[r]
  BY <1>1, <1>2, SumAdded
<1> QED BY <1>1, <1>3 DEF pieces, PiecesOf

LEMMA SoldIsNat == SellingTypeOK => SumFunction([l \in Lines |-> line[l].pieces]) \in Nat
<1> SUFFICES ASSUME SellingTypeOK PROVE SumFunctionOnSet([l \in Lines |-> line[l].pieces], Lines) \in Nat
  BY DEF SumFunction
<1> DEFINE sold == [l \in Lines |-> line[l].pieces]
<1>1. \A l \in Lines : sold[l] \in Nat
  BY DEF SellingTypeOK
<1> HIDE DEF sold
<1>2. SumFunctionOnSet(sold, Lines) \in Nat
  BY <1>1, SumNat, SellingUnitsAssumption
<1> QED BY <1>2 DEF sold

LEMMA MoreTimes ==
  ASSUME NEW f \in Nat \ {0}, NEW a \in Nat, NEW b \in Nat, f * a <= b * f PROVE a <= b
<1> SUFFICES ASSUME b + 1 <= a PROVE FALSE
  OBVIOUS
<1>1. f * (b + 1) <= f * a
  OBVIOUS
<1>2. f * (b + 1) = b * f + f
  OBVIOUS
<1> QED BY <1>1, <1>2

LEMMA AskKeeps ==
  ASSUME SellingIInv, NEW r \in UnitReturns, NEW l \in Lines, NEW units \in 1..line[l].units, AskReturn(r, l, units)
  PROVE  SellingIInv'
<1> DEFINE f == line[l].factor
           n == units * f
           row == [status |-> "REQUESTED", line |-> l, units |-> units, pieces |-> n, good |-> FALSE]
<1>1. f \in Nat \ {0} /\ line[l].units \in Nat /\ units \in Nat \ {0} /\ units <= line[l].units
  BY FactorsArePositive DEF SellingIInv, SellingTypeOK
<1>2. n \in Nat
  BY <1>1
<1>3. /\ unitReturn[r].status = "NONE" /\ PiecesOf(Claimed(l)) + n <= line[l].pieces
      /\ unitReturn' = [unitReturn EXCEPT ![r] = row] /\ UNCHANGED <<masterVars, line, shelf>>
  BY DEF AskReturn, InPieces
<1>4. SellingTypeOK'
  BY <1>1, <1>2, <1>3, SellingUnitsAssumption DEF SellingIInv, SellingTypeOK, masterVars
<1>5. unitReturn'[r] = row /\ \A x \in UnitReturns \ {r} : unitReturn'[x] = unitReturn[x]
  BY <1>3 DEF SellingIInv, SellingTypeOK
<1>6. CountedByTheLine'
  <2>1. row.line = l /\ row.pieces = row.units * line[row.line].factor /\ line[row.line].units # 0
    BY <1>1
  <2> HIDE DEF row
  <2> QED BY <1>3, <1>5, <2>1 DEF SellingIInv, CountedByTheLine
<1>7. ClaimsFit'
  <2>1. ASSUME NEW k \in Lines, k # l PROVE PiecesOf(Claimed(k))' <= line[k].pieces
    <3>1. Claimed(k)' = Claimed(k) /\ r \notin Claimed(k) /\ Claimed(k) \in SUBSET UnitReturns
      BY <1>3, <1>5, <2>1 DEF Claimed
    <3>2. PiecesOf(Claimed(k))' = PiecesOf(Claimed(k))
      <4> DEFINE rs == Claimed(k)
      <4>1. \A x \in rs : unitReturn'[x].pieces = unitReturn[x].pieces
        BY <1>5, <3>1
      <4>2. SumFunctionOnSet([x \in UnitReturns |-> unitReturn'[x].pieces], rs)
            = SumFunctionOnSet([x \in UnitReturns |-> unitReturn[x].pieces], rs)
        BY <3>1, <4>1, SamePieces DEF PiecesOf, SellingIInv
      <4> QED BY <3>1, <4>2 DEF PiecesOf
    <3> QED BY <3>2 DEF SellingIInv, ClaimsFit
  <2>2. PiecesOf(Claimed(l))' <= line[l].pieces
    <3>1. Claimed(l)' = Claimed(l) \cup {r} /\ r \notin Claimed(l) /\ Claimed(l) \in SUBSET UnitReturns
      BY <1>3, <1>5 DEF Claimed
    <3> DEFINE rs == Claimed(l)
               now == [x \in UnitReturns |-> unitReturn'[x].pieces]
               then == [x \in UnitReturns |-> unitReturn[x].pieces]
    <3>2. now[r] = n /\ \A x \in rs : now[x] = then[x] /\ then[x] \in Int
      BY <1>5, <3>1 DEF SellingIInv, SellingTypeOK
    <3>4. IsFiniteSet(rs) /\ r \notin rs
      BY <3>1, ReturnSums DEF SellingIInv
    <3>5. PiecesOf(Claimed(l))' = SumFunctionOnSet(now, rs \cup {r})
      BY <3>1 DEF PiecesOf
    <3>6. PiecesOf(Claimed(l)) = SumFunctionOnSet(then, rs)
      BY DEF PiecesOf
    <3> HIDE DEF rs, now, then, n
    <3>3. \A x \in rs \cup {r} : now[x] \in Int
      BY <1>2, <3>2
    <3>7. SumFunctionOnSet(now, rs \cup {r}) = SumFunctionOnSet(now, rs) + now[r]
      BY <3>3, <3>4, SumAdded
    <3>8. SumFunctionOnSet(now, rs) = SumFunctionOnSet(then, rs)
      BY <3>2, <3>4, SumAgree
    <3> QED BY <1>3, <3>2, <3>5, <3>6, <3>7, <3>8
  <2> QED BY <1>3, <2>1, <2>2 DEF ClaimsFit
<1>8. ShelfIsCounted'
  <2>1. CameBack' = CameBack /\ r \notin CameBack /\ CameBack \in SUBSET UnitReturns
    BY <1>3, <1>5 DEF CameBack
  <2>2. \A x \in CameBack : unitReturn'[x].pieces = unitReturn[x].pieces
    BY <1>5, <2>1
  <2>3. SumFunctionOnSet([x \in UnitReturns |-> unitReturn'[x].pieces], CameBack)
        = SumFunctionOnSet([x \in UnitReturns |-> unitReturn[x].pieces], CameBack)
    BY <2>1, <2>2, SamePieces DEF PiecesOf, SellingIInv
  <2>4. PiecesOf(CameBack)' = PiecesOf(CameBack)
    BY <2>1, <2>3 DEF PiecesOf
  <2> QED BY <1>3, <2>4 DEF SellingIInv, ShelfIsCounted
<1> QED BY <1>4, <1>6, <1>7, <1>8 DEF SellingIInv

\* Rejecting and confirming leave every return its units, pieces and line.
LEMMA DecideKeeps ==
  ASSUME SellingIInv, NEW r \in UnitReturns, RejectReturn(r) \/ \E good \in BOOLEAN : ConfirmReturn(r, good)
  PROVE  SellingIInv'
<1>1. /\ unitReturn[r].status = "REQUESTED" /\ UNCHANGED <<masterVars, line>>
      /\ unitReturn' \in [UnitReturns -> [status : {"NONE", "REQUESTED", "REJECTED", "COMPLETED"},
                                          line : Lines, units : Nat, pieces : Nat, good : BOOLEAN]]
      /\ unitReturn'[r].status \in {"REJECTED", "COMPLETED"}
      /\ \A x \in UnitReturns \ {r} : unitReturn'[x] = unitReturn[x]
      /\ unitReturn'[r].line = unitReturn[r].line /\ unitReturn'[r].units = unitReturn[r].units
      /\ unitReturn'[r].pieces = unitReturn[r].pieces
      /\ shelf' = IF unitReturn'[r].status = "COMPLETED" /\ unitReturn'[r].good THEN shelf + unitReturn[r].pieces
                  ELSE shelf
  <2>1. CASE RejectReturn(r)
    BY <2>1 DEF RejectReturn, SellingIInv, SellingTypeOK
  <2>2. ASSUME NEW good \in BOOLEAN, ConfirmReturn(r, good) PROVE <1>1!:
    <3> DEFINE row == [unitReturn[r] EXCEPT !.status = "COMPLETED", !.good = good]
    <3>1. unitReturn[r] \in [status : {"NONE", "REQUESTED", "REJECTED", "COMPLETED"},
                             line : Lines, units : Nat, pieces : Nat, good : BOOLEAN]
      BY DEF SellingIInv, SellingTypeOK
    <3>2. /\ row \in [status : {"NONE", "REQUESTED", "REJECTED", "COMPLETED"},
                      line : Lines, units : Nat, pieces : Nat, good : BOOLEAN]
          /\ row.status = "COMPLETED" /\ row.good = good /\ row.line = unitReturn[r].line
          /\ row.units = unitReturn[r].units /\ row.pieces = unitReturn[r].pieces
      BY <3>1
    <3>3. unitReturn' = [unitReturn EXCEPT ![r] = row]
      BY <2>2 DEF ConfirmReturn
    <3> HIDE DEF row
    <3>4. unitReturn'[r] = row /\ \A x \in UnitReturns \ {r} : unitReturn'[x] = unitReturn[x]
      BY <3>3 DEF SellingIInv, SellingTypeOK
    <3>5. unitReturn' \in [UnitReturns -> [status : {"NONE", "REQUESTED", "REJECTED", "COMPLETED"},
                                           line : Lines, units : Nat, pieces : Nat, good : BOOLEAN]]
      BY <3>2, <3>3 DEF SellingIInv, SellingTypeOK
    <3>6. shelf' = IF good THEN shelf + unitReturn[r].pieces ELSE shelf
      BY <2>2 DEF ConfirmReturn
    <3>7. unitReturn[r].status = "REQUESTED" /\ UNCHANGED <<masterVars, line>>
      BY <2>2 DEF ConfirmReturn
    <3> QED BY <3>2, <3>4, <3>5, <3>6, <3>7
  <2> QED BY <2>1, <2>2
<1>2. shelf' = IF unitReturn'[r].status = "COMPLETED" /\ unitReturn'[r].good THEN shelf + unitReturn[r].pieces
               ELSE shelf
  BY <1>1
<1>3. SellingTypeOK'
  BY <1>1, <1>2 DEF SellingIInv, SellingTypeOK, masterVars
<1>4. CountedByTheLine'
  BY <1>1 DEF SellingIInv, CountedByTheLine
<1>5. ASSUME NEW rs \in SUBSET UnitReturns PROVE PiecesOf(rs)' = PiecesOf(rs)
  BY <1>1, SamePieces DEF SellingIInv
<1>6. ClaimsFit'
  <2> SUFFICES ASSUME NEW l \in Lines PROVE PiecesOf(Claimed(l))' <= line[l].pieces
    BY <1>1 DEF ClaimsFit
  <2> DEFINE rs == Claimed(l)
             rest == Claimed(l) \ {r}
  <2>1. rs \in SUBSET UnitReturns /\ rest \in SUBSET UnitReturns /\ (Claimed(l)' = rs \/ Claimed(l)' = rest)
    BY <1>1 DEF Claimed
  <2>2. PiecesOf(rs) <= line[l].pieces /\ line[l].pieces \in Nat /\ unitReturn[r].pieces \in Nat
    BY DEF SellingIInv, ClaimsFit, SellingTypeOK
  <2>3. PiecesOf(rs) \in Nat /\ PiecesOf(rest) \in Nat
    BY <2>1, ReturnSums DEF SellingIInv
  <2>4. PiecesOf(rest) <= line[l].pieces
    <3>1. CASE r \in rs
      <4>1. rest \cup {r} = rs /\ r \in UnitReturns \ rest
        BY <3>1
      <4>2. PiecesOf(rs) = PiecesOf(rest) + unitReturn[r].pieces
        BY <2>1, <4>1, OneMoreReturn DEF SellingIInv
      <4> QED BY <2>2, <2>3, <4>2
    <3>2. CASE r \notin rs
      <4>1. rest = rs
        BY <3>2
      <4> QED BY <2>2, <4>1
    <3> QED BY <3>1, <3>2
  <2> HIDE DEF rs, rest
  <2>5. SumFunctionOnSet([x \in UnitReturns |-> unitReturn'[x].pieces], rs) = PiecesOf(rs)
    BY <2>1, <1>5 DEF PiecesOf
  <2>6. SumFunctionOnSet([x \in UnitReturns |-> unitReturn'[x].pieces], rest) = PiecesOf(rest)
    BY <2>1, <1>5 DEF PiecesOf
  <2>7. PiecesOf(Claimed(l))' \in {PiecesOf(rs), PiecesOf(rest)}
    BY <2>1, <2>5, <2>6 DEF PiecesOf
  <2> QED BY <2>2, <2>4, <2>7
<1>7. ShelfIsCounted'
  <2> DEFINE back == CameBack
  <2>1. back \in SUBSET UnitReturns /\ r \in UnitReturns \ back
    BY <1>1 DEF CameBack
  <2>2. CameBack' = IF unitReturn'[r].status = "COMPLETED" /\ unitReturn'[r].good THEN back \cup {r} ELSE back
    BY <1>1 DEF CameBack
  <2>3. PiecesOf(back \cup {r}) = PiecesOf(back) + unitReturn[r].pieces
    BY <2>1, OneMoreReturn DEF SellingIInv
  <2>4. PiecesOf(back) \in Nat /\ unitReturn[r].pieces \in Nat /\ shelf \in Nat /\ Stock \in Nat
    BY <2>1, ReturnSums, SellingUnitsAssumption DEF SellingIInv, SellingTypeOK
  <2> HIDE DEF back
  <2>5. /\ SumFunctionOnSet([x \in UnitReturns |-> unitReturn'[x].pieces], back) = PiecesOf(back)
        /\ SumFunctionOnSet([x \in UnitReturns |-> unitReturn'[x].pieces], back \cup {r}) = PiecesOf(back \cup {r})
    BY <2>1, <1>5 DEF PiecesOf
  <2>6. PiecesOf(CameBack)' = PiecesOf(back) + (shelf' - shelf)
    BY <1>2, <2>2, <2>3, <2>4, <2>5 DEF PiecesOf
  <2> DEFINE sold == SumFunction([l \in Lines |-> line[l].pieces])
  <2>7. sold \in Int
    BY SoldIsNat DEF SellingIInv
  <2>8. shelf + sold = Stock + PiecesOf(back) /\ shelf' \in Int
    BY <1>3 DEF back, SellingIInv, ShelfIsCounted, SellingTypeOK
  <2>9. SumFunction([l \in Lines |-> line[l].pieces])' = sold
    BY <1>1
  <2> HIDE DEF sold
  <2>10. shelf' + sold = Stock + PiecesOf(CameBack)'
    BY <2>4, <2>6, <2>7, <2>8
  <2> QED BY <2>9, <2>10 DEF ShelfIsCounted
<1> QED BY <1>3, <1>4, <1>6, <1>7 DEF SellingIInv

LEMMA SellingStep == SellingIInv /\ [SellingNext]_sellingVars => SellingIInv'
<1> SUFFICES ASSUME SellingIInv, [SellingNext]_sellingVars PROVE SellingIInv'
  OBVIOUS
<1>1. ASSUME SellingTypeOK', UNCHANGED tradeVars PROVE SellingIInv'
  BY <1>1 DEF tradeVars, SellingIInv, CountedByTheLine, ClaimsFit, ShelfIsCounted, Claimed, PiecesOf, CameBack
<1>2. CASE EditMasterData
  BY <1>1, <1>2, EditKeepsTypes DEF SellingIInv
<1>3. CASE UNCHANGED sellingVars
  <2>1. SellingTypeOK'
    BY <1>3 DEF sellingVars, masterVars, tradeVars, SellingIInv, SellingTypeOK
  <2> QED BY <1>1, <1>3, <2>1 DEF sellingVars
<1>4. CASE Trade
  BY <1>4, SellKeeps, AskKeeps, DecideKeeps DEF Trade
<1> QED BY <1>2, <1>3, <1>4 DEF SellingNext

THEOREM SellingInvariance == SellingSpec => []SellingIInv
<1> QED BY SellingStart, SellingStep, PTL DEF SellingSpec

\* The copy in a barcode follows its unit through any one step.
LEMMA CopiesKept ==
  ASSUME SellingTypeOK, CopiesFollowTheirUnits, [SellingNext]_sellingVars PROVE CopiesFollowTheirUnits'
<1> DEFINE Follows(b) == barcode[b].unit # NoUnit =>
                           unit[barcode[b].unit] = [status |-> "ACTIVE", code |-> barcode[b].code, factor |-> barcode[b].factor]
<1>0. /\ \A b \in Barcodes \ outdated : Follows(b)
      /\ \A b \in Barcodes : barcode[b].unit \in UnitIds \cup {NoUnit}
      /\ unit \in [UnitIds -> UnitRow] /\ barcode \in [Barcodes -> BarcodeRow]
      /\ \A c \in Clerks : clerk[c].barcode \in Barcodes \cup {NoUnit} /\ clerk[c].unit \in UnitIds \cup {NoUnit}
      /\ NoUnit \notin UnitIds
  BY SellingUnitsAssumption DEF CopiesFollowTheirUnits, SellingTypeOK, UnitRow, BarcodeRow
<1>a. ASSUME NEW b \in Barcodes, b \notin outdated, barcode[b].unit # NoUnit PROVE unit[barcode[b].unit].status = "ACTIVE"
  <2>1. Follows(b)
    BY <1>0, <1>a
  <2> HIDE <1>0
  <2> QED BY <1>a, <2>1
<1> SUFFICES ASSUME NEW b \in Barcodes, b \notin outdated' PROVE Follows(b)'
  BY DEF CopiesFollowTheirUnits
<1>1. CASE UNCHANGED <<unit, barcode, outdated>>
  BY <1>0, <1>1
<1>2. ASSUME NEW u \in UnitIds, NEW code \in Codes, NEW factor \in Factors, CreateUnit(u, code, factor)
      PROVE  Follows(b)'
  <2>1. barcode[b].unit # u
    BY <1>0, <1>a, <1>2 DEF CreateUnit
  <2> QED BY <1>0, <1>2, <2>1 DEF CreateUnit
<1>3. ASSUME NEW u \in UnitIds, NEW code \in Codes, NEW factor \in Factors, UpdateUnit(u, code, factor)
      PROVE  Follows(b)'
  <2>1. CASE barcode[b].unit = u
    <3>1. barcode'[b] = [barcode[b] EXCEPT !.code = code, !.factor = factor]
      BY <1>3, <2>1 DEF UpdateUnit
    <3>2. unit'[u] = [unit[u] EXCEPT !.code = code, !.factor = factor] /\ unit[u] \in UnitRow /\ barcode[b] \in BarcodeRow
      BY <1>0, <1>3 DEF UpdateUnit
    <3>3. unit[u].status = "ACTIVE"
      \* Otherwise the barcode was outdated before, and still is.
      BY <1>0, <1>a, <1>3, <2>1 DEF UpdateUnit, StillOutdated
    <3>4. barcode'[b].unit = u /\ barcode'[b].code = code /\ barcode'[b].factor = factor
      BY <2>1, <3>1, <3>2 DEF BarcodeRow
    <3>5. unit'[u] = [status |-> "ACTIVE", code |-> code, factor |-> factor]
      BY <3>2, <3>3 DEF UnitRow
    <3> QED BY <3>4, <3>5
  <2>2. CASE barcode[b].unit # u
    BY <1>0, <1>3, <2>2 DEF UpdateUnit, StillOutdated
  <2> QED BY <2>1, <2>2
<1>4. ASSUME NEW u \in UnitIds, DeactivateUnit(u) \/ ReactivateUnit(u) PROVE Follows(b)'
  <2>1. b \notin outdated /\ barcode'[b] = barcode[b]
    BY <1>4 DEF DeactivateUnit, ReactivateUnit
  <2>2. barcode[b].unit # u
    BY <1>0, <1>a, <1>4, <2>1 DEF DeactivateUnit, ReactivateUnit
  <2> QED BY <1>0, <1>4, <2>1, <2>2 DEF DeactivateUnit, ReactivateUnit
<1>5. ASSUME NEW c \in Clerks, WriteBarcode(c) PROVE Follows(b)'
  <2>1. CASE b = clerk[c].barcode
    <3>1. AsRead(c) /\ unit' = unit
      BY <1>5, <2>1 DEF WriteBarcode
    <3>2. /\ barcode'[b].code = clerk[c].code /\ barcode'[b].factor = clerk[c].factor
          /\ barcode'[b].unit = IF clerk[c].relink THEN clerk[c].unit ELSE barcode[b].unit
      BY <1>0, <1>5, <2>1 DEF WriteBarcode
    <3> QED BY <2>1, <3>1, <3>2 DEF AsRead
  <2>2. CASE b # clerk[c].barcode
    BY <1>0, <1>5, <2>2 DEF WriteBarcode
  <2> QED BY <2>1, <2>2
<1>6. CASE EditMasterData
  BY <1>1, <1>2, <1>3, <1>4, <1>5, <1>6 DEF EditMasterData, ChangeBaseUnit, AskBarcode
<1>7. CASE Trade \/ UNCHANGED sellingVars
  BY <1>1, <1>7 DEF Trade, SellLine, AskReturn, RejectReturn, ConfirmReturn, masterVars, sellingVars
<1> QED BY <1>6, <1>7 DEF SellingNext

(* For any units, barcodes and overlapping edits of them: a barcode carries *)
(* the code and factor of the active unit it is linked to, unless the       *)
(* request that wrote it last had read rows that were changed before it     *)
(* wrote (updateUnit, createBarcode, updateBarcode).                        *)
THEOREM CopiesCorrect == SellingSpec => []CopiesFollowTheirUnits
<1>1. SellingInit => CopiesFollowTheirUnits
  BY DEF SellingInit, CopiesFollowTheirUnits
<1>2. SellingIInv => SellingTypeOK
  BY DEF SellingIInv
<1>3. SellingTypeOK /\ CopiesFollowTheirUnits /\ [SellingNext]_sellingVars => CopiesFollowTheirUnits'
  BY CopiesKept
<1> QED BY <1>1, <1>2, <1>3, SellingInvariance, PTL DEF SellingSpec

(* For any lines and returns: what comes back is its share of the line it  *)
(* was sold by, however the unit was edited in between, and the shelf has  *)
(* what was not sold or came back good (createCustomerOrderReturn,         *)
(* confirmOrderReturn).                                                    *)
THEOREM UnitsAreKept == SellingSpec => []HistoryKeepsItsUnits
<1>1. SellingIInv => HistoryKeepsItsUnits
  <2> SUFFICES ASSUME SellingIInv PROVE HistoryKeepsItsUnits
    OBVIOUS
  <2>1. ASSUME NEW l \in Lines
        PROVE  /\ UnitsOf(Claimed(l)) <= line[l].units
               /\ UnitsOf(Claimed(l)) * line[l].pieces = PiecesOf(Claimed(l)) * line[l].units
    <3> DEFINE f == line[l].factor
               n == line[l].units
               back == UnitsOf(Claimed(l))
    <3>1. PiecesOf(Claimed(l)) = f * back /\ line[l].pieces = n * f /\ f * back <= n * f
      BY ClaimsScale DEF SellingIInv, CountedByTheLine, ClaimsFit
    <3>2. f \in Nat \ {0} /\ n \in Nat /\ back \in Nat
      BY FactorsArePositive, ReturnSums DEF SellingIInv, SellingTypeOK, Claimed
    <3> HIDE DEF f, n, back
    <3>3. back <= n
      BY <3>1, <3>2, MoreTimes
    <3>4. back * (n * f) = (f * back) * n
      BY <3>2
    <3> QED BY <3>1, <3>3, <3>4 DEF f, n, back
  <2> QED BY <2>1 DEF HistoryKeepsItsUnits, SellingIInv, ShelfIsCounted, CameBack
<1> QED BY <1>1, SellingInvariance, PTL

-----------------------------------------------------------------------------
(***************************************************************************)
(* Points: for any purchases, returns, entries by hand and calendar.       *)
(***************************************************************************)

EntryRows == [type : {"EARN", "REDEEM", "ADJUSTMENT", "REFUND", "EXPIRE"}, points : Int,
              of : Purchases \cup SaleReturns \cup {Unsold}, expires : Nat, after : Nat]

\* The entries of a ledger that are such rows, and what they add up to.
Among(s, rows) == {i \in DOMAIN s : s[i] \in rows}
PointsIn(s) == [i \in DOMAIN s |-> s[i].points]
Total(s, rows) == SumFunctionOnSet(PointsIn(s), Among(s, rows))

Grants == {e \in EntryRows : e.points > 0}
Debits == {e \in EntryRows : e.points <= 0}
EarnedBy(p) == {e \in EntryRows : e.type = "EARN" /\ e.of = p}
RefundsOf(x) == {e \in EntryRows : e.type = "REFUND" /\ e.of = x}
RefundsOfAny(X) == {e \in EntryRows : e.type = "REFUND" /\ e.of \in X}
Expiries == {e \in EntryRows : e.type = "EXPIRE"}
LapsedBy(day) == {e \in EntryRows : e.points > 0 /\ e.expires \in 1..day}

\* The account was never in debt.
NeverInDebt(s) == \A k \in 0..Len(s) : SumFunctionOnSet(PointsIn(s), 1..k) >= 0

\* Grants that expire do so in the order in which they were made.
Dated(s, day) ==
  \A i \in DOMAIN s : s[i].points > 0 /\ s[i].expires # 0 =>
    /\ s[i].expires <= day + Life
    /\ \A j \in DOMAIN s : i < j /\ s[j].points > 0 /\ s[j].expires # 0 => s[i].expires <= s[j].expires

AllExpire(s) == \A i \in DOMAIN s : s[i].points > 0 => s[i].expires # 0
Covered(s, day) == AllExpire(s) => -Total(s, Expiries) <= Total(s, LapsedBy(day))

LedgerHolds(s, day) ==
  /\ s \in Seq(EntryRows) /\ NeverInDebt(s) /\ Dated(s, day) /\ Covered(s, day)
  /\ \A i \in DOMAIN s : s[i].type = "EXPIRE" => s[i].points <= 0

LEMMA LedgerFacts ==
  ASSUME NEW s \in Seq(EntryRows)
  PROVE  /\ Len(s) \in Nat /\ DOMAIN s = 1..Len(s) /\ IsFiniteSet(DOMAIN s)
         /\ \A i \in DOMAIN s : s[i] \in EntryRows /\ s[i].points \in Int /\ PointsIn(s)[i] = s[i].points
         /\ \A rows : Among(s, rows) \in SUBSET (DOMAIN s) /\ IsFiniteSet(Among(s, rows)) /\ Total(s, rows) \in Int
         /\ Among(s, EntryRows) = DOMAIN s
<1>1. Len(s) \in Nat /\ DOMAIN s = 1..Len(s) /\ \A i \in DOMAIN s : s[i] \in EntryRows
  OBVIOUS
<1>2. IsFiniteSet(DOMAIN s)
  BY <1>1, FS_Interval
<1>3. \A i \in DOMAIN s : s[i].points \in Int /\ PointsIn(s)[i] = s[i].points
  BY <1>1 DEF EntryRows, PointsIn
<1>4. ASSUME NEW rows PROVE Among(s, rows) \in SUBSET (DOMAIN s) /\ IsFiniteSet(Among(s, rows)) /\ Total(s, rows) \in Int
  <2>1. Among(s, rows) \in SUBSET (DOMAIN s)
    BY DEF Among
  <2>2. IsFiniteSet(Among(s, rows)) /\ \A i \in Among(s, rows) : PointsIn(s)[i] \in Int
    BY <1>2, <1>3, <2>1, FS_Subset
  <2> QED BY <2>1, <2>2, SumType DEF Total
<1> QED BY <1>1, <1>2, <1>3, <1>4 DEF Among

LEMMA NotedIs ==
  ASSUME NEW s \in Seq(EntryRows), NEW e \in EntryRows
  PROVE  /\ Noted(s, e) \in Seq(EntryRows)
         /\ e.points = 0 => Noted(s, e) = s
         /\ e.points # 0 => /\ Len(Noted(s, e)) = Len(s) + 1 /\ DOMAIN Noted(s, e) = DOMAIN s \cup {Len(s) + 1}
                            /\ Len(s) + 1 \notin DOMAIN s
                            /\ Noted(s, e)[Len(s) + 1] = e /\ \A i \in DOMAIN s : Noted(s, e)[i] = s[i]
<1>1. CASE e.points = 0
  BY <1>1 DEF Noted
<1>2. CASE e.points # 0
  <2>1. Noted(s, e) = Append(s, e)
    BY <1>2 DEF Noted
  <2>2. Append(s, e) \in Seq(EntryRows) /\ Len(Append(s, e)) = Len(s) + 1 /\ Append(s, e)[Len(s) + 1] = e
        /\ \A i \in 1..Len(s) : Append(s, e)[i] = s[i]
    OBVIOUS
  <2>3. Len(s) \in Nat /\ DOMAIN s = 1..Len(s) /\ DOMAIN Append(s, e) = 1..(Len(s) + 1)
    OBVIOUS
  <2>4. \A n \in Nat : 1..(n + 1) = 1..n \cup {n + 1} /\ n + 1 \notin 1..n
    OBVIOUS
  <2> QED BY <1>2, <2>1, <2>2, <2>3, <2>4
<1> QED BY <1>1, <1>2

\* Every total changes by the points that are noted.
LEMMA NotedTotal ==
  ASSUME NEW s \in Seq(EntryRows), NEW e \in EntryRows
  PROVE  \A rows : Total(Noted(s, e), rows) = Total(s, rows) + (IF e \in rows THEN e.points ELSE 0)
<1> SUFFICES ASSUME NEW rows
             PROVE  Total(Noted(s, e), rows) = Total(s, rows) + (IF e \in rows THEN e.points ELSE 0)
  OBVIOUS
<1> DEFINE t == Noted(s, e)
           n == Len(s) + 1
           A == Among(s, rows)
<1>0. Total(s, rows) \in Int
  BY LedgerFacts
<1>1. CASE e.points = 0
  <2>1. t = s
    BY <1>1, NotedIs
  <2> HIDE DEF t
  <2>2. Total(t, rows) = Total(s, rows) + (IF e \in rows THEN e.points ELSE 0)
    BY <1>0, <1>1, <2>1
  <2> QED BY <2>2 DEF t
<1>2. CASE e.points # 0
  <2>1. /\ t \in Seq(EntryRows) /\ DOMAIN t = DOMAIN s \cup {n} /\ n \notin DOMAIN s /\ t[n] = e
        /\ \A i \in DOMAIN s : t[i] = s[i]
    BY <1>2, NotedIs
  <2>2. /\ IsFiniteSet(A) /\ A \in SUBSET (DOMAIN s) /\ n \notin A
        /\ \A i \in DOMAIN s : PointsIn(s)[i] \in Int /\ PointsIn(t)[i] = PointsIn(s)[i]
        /\ PointsIn(t)[n] = e.points /\ e.points \in Int
    <3>1. IsFiniteSet(A) /\ A \in SUBSET (DOMAIN s) /\ \A i \in DOMAIN s : s[i].points \in Int /\ PointsIn(s)[i] = s[i].points
      BY LedgerFacts
    <3>2. \A i \in DOMAIN t : PointsIn(t)[i] = t[i].points
      BY DEF PointsIn
    <3>3. e.points \in Int
      BY DEF EntryRows
    <3> QED BY <2>1, <3>1, <3>2, <3>3
  <2>3. Among(t, rows) = IF e \in rows THEN A \cup {n} ELSE A
    BY <2>1 DEF Among
  <2>4. SumFunctionOnSet(PointsIn(t), A) = SumFunctionOnSet(PointsIn(s), A)
    BY <2>2, SumAgree
  <2>5. SumFunctionOnSet(PointsIn(t), A \cup {n}) = SumFunctionOnSet(PointsIn(t), A) + PointsIn(t)[n]
    <3>1. \A i \in A \cup {n} : PointsIn(t)[i] \in Int
      BY <2>2
    <3> HIDE DEF A, t, n
    <3>2. IsFiniteSet(A) /\ n \notin A
      BY <2>2
    <3> QED BY ONLY <3>1, <3>2, SumAdded
  <2> HIDE DEF A, t, n
  <2>6. Total(s, rows) = SumFunctionOnSet(PointsIn(s), A) /\ Total(t, rows) = SumFunctionOnSet(PointsIn(t), Among(t, rows))
    BY DEF Total, A
  <2>7. CASE e \in rows
    BY <2>2, <2>3, <2>4, <2>5, <2>6, <2>7 DEF t
  <2>8. CASE e \notin rows
    BY <1>0, <2>3, <2>4, <2>6, <2>8 DEF t
  <2> QED BY <2>7, <2>8
<1> QED BY <1>1, <1>2

\* Totals of rows that have nothing in common.
LEMMA TotalOfBoth ==
  ASSUME NEW s \in Seq(EntryRows), NEW F, NEW G, F \cap G = {}
  PROVE  Total(s, F \cup G) = Total(s, F) + Total(s, G)
<1> DEFINE A == Among(s, F \cup G)
           B == Among(s, F)
<1>1. IsFiniteSet(A) /\ B \in SUBSET A /\ A \ B = Among(s, G) /\ \A i \in A : PointsIn(s)[i] \in Int
  <2>1. B \in SUBSET A /\ A \ B = Among(s, G)
    BY DEF Among
  <2> QED BY <2>1, LedgerFacts
<1> HIDE DEF A, B
<1>2. SumFunctionOnSet(PointsIn(s), A) = SumFunctionOnSet(PointsIn(s), B) + SumFunctionOnSet(PointsIn(s), A \ B)
  BY <1>1, SumSplit
<1> QED BY <1>1, <1>2 DEF Total, A, B

LEMMA TotalSigns ==
  ASSUME NEW s \in Seq(EntryRows), NEW F
  PROVE  /\ (\A e \in F : e.points >= 0) => Total(s, F) >= 0
         /\ (\A e \in F : e.points <= 0) => Total(s, F) <= 0
         /\ Among(s, F) = {} => Total(s, F) = 0
<1> DEFINE A == Among(s, F)
           f == PointsIn(s)
           z == [i \in A |-> 0]
<1>1. IsFiniteSet(A) /\ \A i \in A : s[i] \in F /\ f[i] = s[i].points /\ f[i] \in Int
  <2>1. \A i \in A : i \in DOMAIN s /\ s[i] \in F
    BY DEF Among
  <2> QED BY <2>1, LedgerFacts
<1>2. SumFunctionOnSet(z, A) = 0 /\ Total(s, F) = SumFunctionOnSet(f, A)
  <2>1. \A i \in A : z[i] = 0
    OBVIOUS
  <2> HIDE DEF z
  <2>2. SumFunctionOnSet(z, A) = 0
    BY <1>1, <2>1, SumOfZeros
  <2> QED BY <2>2 DEF Total
<1>3. ASSUME \A e \in F : e.points >= 0 PROVE Total(s, F) >= 0
  <2>1. \A i \in A : f[i] \in Nat
    BY <1>1, <1>3
  <2> HIDE DEF A, f
  <2>2. SumFunctionOnSet(f, A) \in Nat
    BY <1>1, <2>1, SumNat
  <2> QED BY <1>2, <2>2
<1>4. ASSUME \A e \in F : e.points <= 0 PROVE Total(s, F) <= 0
  <2>1. \A i \in A : f[i] \in Int /\ z[i] \in Int /\ f[i] <= z[i]
    BY <1>1, <1>4
  <2> HIDE DEF A, f, z
  <2>2. SumFunctionOnSet(f, A) <= SumFunctionOnSet(z, A)
    BY <1>1, <2>1, SumAtMost
  <2> QED BY <1>2, <2>2
<1>5. ASSUME Among(s, F) = {} PROVE Total(s, F) = 0
  BY <1>5, SumEmpty DEF Total
<1> QED BY <1>3, <1>4, <1>5

\* An entry that is no expiry, covered by the points of the account.
LEMMA NotedLedger ==
  ASSUME NEW s, NEW e \in EntryRows, NEW day \in Nat, LedgerHolds(s, day), Total(s, EntryRows) + e.points >= 0,
         e.expires \in {0, day + Life}, e.type = "EXPIRE" => e.points <= 0 /\ Covered(Noted(s, e), day)
  PROVE  LedgerHolds(Noted(s, e), day)
<1> DEFINE t == Noted(s, e)
           n == Len(s) + 1
<1>1. s \in Seq(EntryRows) /\ t \in Seq(EntryRows) /\ Life \in Nat
  BY NotedIs, LoyaltyAssumption DEF LedgerHolds
<1>2. CASE e.points = 0
  BY <1>1, <1>2, NotedIs
<1>3. CASE e.points # 0
  <2>1. /\ DOMAIN t = DOMAIN s \cup {n} /\ n \notin DOMAIN s /\ t[n] = e /\ Len(t) = n /\ n \in Nat /\ n \notin 1..Len(s)
        /\ \A i \in DOMAIN s : t[i] = s[i] /\ i \in Nat /\ i < n
        /\ DOMAIN s = 1..Len(s) /\ Len(s) \in Nat
    <3>1. Len(s) \in Nat /\ DOMAIN s = 1..Len(s)
      BY <1>1, LedgerFacts
    <3>2. n \in Nat /\ n \notin 1..Len(s) /\ \A i \in 1..Len(s) : i \in Nat /\ i < n
      BY <3>1
    <3>3. /\ DOMAIN t = DOMAIN s \cup {n} /\ n \notin DOMAIN s /\ t[n] = e /\ Len(t) = n
          /\ \A i \in DOMAIN s : t[i] = s[i]
      BY <1>1, <1>3, NotedIs
    <3> QED BY <3>1, <3>2, <3>3
  <2>2. \A i \in DOMAIN s : PointsIn(t)[i] = PointsIn(s)[i]
    BY <2>1 DEF PointsIn
  <2> HIDE DEF t, n
  <2>3. NeverInDebt(t)
    <3> SUFFICES ASSUME NEW k \in 0..Len(t) PROVE SumFunctionOnSet(PointsIn(t), 1..k) >= 0
      BY DEF NeverInDebt
    <3>1. CASE k \in 0..Len(s)
      <4>1. IsFiniteSet(1..k) /\ \A i \in 1..k : PointsIn(t)[i] = PointsIn(s)[i]
        <5>1. k \in Int /\ 1..k \subseteq 1..Len(s)
          BY <2>1, <3>1
        <5>2. IsFiniteSet(1..k)
          <6>1. IsFiniteSet(DOMAIN s)
            BY <1>1, LedgerFacts
          <6> QED BY <2>1, <5>1, <6>1, FS_Subset
        <5> QED BY <2>1, <2>2, <5>1, <5>2
      <4>2. SumFunctionOnSet(PointsIn(t), 1..k) = SumFunctionOnSet(PointsIn(s), 1..k)
        BY <4>1, SumAgree
      <4> QED BY <3>1, <4>2 DEF LedgerHolds, NeverInDebt
    <3>2. CASE k \notin 0..Len(s)
      <4>1. k = Len(t)
        BY <2>1, <3>2 DEF n
      <4>2. SumFunctionOnSet(PointsIn(t), 1..k) = Total(t, EntryRows)
        <5>1. Among(t, EntryRows) = 1..Len(t)
          BY <1>1, LedgerFacts
        <5> QED BY <4>1, <5>1 DEF Total
      <4>3. Total(t, EntryRows) = Total(s, EntryRows) + e.points
        BY <1>1, NotedTotal DEF t
      <4> QED BY <4>2, <4>3
    <3> QED BY <3>1, <3>2
  <2>4. Dated(t, day)
    <3> SUFFICES ASSUME NEW i \in DOMAIN t, t[i].points > 0, t[i].expires # 0
                 PROVE  /\ t[i].expires <= day + Life
                        /\ \A j \in DOMAIN t : i < j /\ t[j].points > 0 /\ t[j].expires # 0 => t[i].expires <= t[j].expires
      BY DEF Dated
    <3>1. CASE i = n
      <4>1. t[i].expires = day + Life
        BY <2>1, <3>1
      <4>2. \A j \in DOMAIN t : ~(i < j)
        BY <2>1, <3>1
      <4> QED BY <1>1, <4>1, <4>2
    <3>2. CASE i # n
      <4>1. i \in DOMAIN s /\ t[i] = s[i]
        BY <2>1, <3>2
      <4>2. /\ s[i].expires <= day + Life
            /\ \A j \in DOMAIN s : i < j /\ s[j].points > 0 /\ s[j].expires # 0 => s[i].expires <= s[j].expires
        BY <4>1 DEF LedgerHolds, Dated
      <4> QED BY <2>1, <4>1, <4>2
    <3> QED BY <3>1, <3>2
  <2>5. Covered(t, day)
    <3>1. CASE e.type = "EXPIRE"
      BY <3>1 DEF t
    <3>2. CASE e.type # "EXPIRE"
      <4> SUFFICES ASSUME AllExpire(t) PROVE -Total(t, Expiries) <= Total(t, LapsedBy(day))
        BY DEF Covered
      <4>1. AllExpire(s)
        BY <2>1 DEF AllExpire
      <4>2. -Total(s, Expiries) <= Total(s, LapsedBy(day))
        BY <4>1 DEF LedgerHolds, Covered
      <4>3. Total(t, Expiries) = Total(s, Expiries) + 0
        <5>1. e \notin Expiries
          BY <3>2 DEF Expiries
        <5> QED BY <1>1, <5>1, NotedTotal DEF t
      <4>4. Total(t, LapsedBy(day)) = Total(s, LapsedBy(day)) + (IF e \in LapsedBy(day) THEN e.points ELSE 0)
        BY <1>1, NotedTotal DEF t
      <4>5. Total(s, Expiries) \in Int /\ Total(s, LapsedBy(day)) \in Int /\ e.points \in Int
            /\ (e \in LapsedBy(day) => e.points > 0)
        BY <1>1, LedgerFacts DEF LapsedBy, EntryRows
      <4> QED BY <4>2, <4>3, <4>4, <4>5
    <3> QED BY <3>1, <3>2
  <2>6. \A i \in DOMAIN t : t[i].type = "EXPIRE" => t[i].points <= 0
    <3> SUFFICES ASSUME NEW i \in DOMAIN t, t[i].type = "EXPIRE" PROVE t[i].points <= 0
      OBVIOUS
    <3>1. CASE i = n
      BY <2>1, <3>1
    <3>2. CASE i # n
      BY <2>1, <3>2 DEF LedgerHolds
    <3> QED BY <3>1, <3>2
  <2> QED BY <1>1, <2>3, <2>4, <2>5, <2>6 DEF LedgerHolds, t
<1> QED BY <1>2, <1>3

LEMMA NextDayLedger ==
  ASSUME NEW s, NEW day \in Nat, LedgerHolds(s, day) PROVE LedgerHolds(s, day + 1)
<1>1. s \in Seq(EntryRows) /\ Life \in Nat
  BY LoyaltyAssumption DEF LedgerHolds
<1>2. Dated(s, day + 1)
  <2>1. \A i \in DOMAIN s : s[i].expires \in Nat
    BY <1>1, LedgerFacts DEF EntryRows
  <2>2. \A i \in DOMAIN s : s[i].expires <= day + Life => s[i].expires <= day + 1 + Life
    BY <1>1, <2>1
  <2> QED BY <2>2 DEF LedgerHolds, Dated
<1>3. Covered(s, day + 1)
  <2> DEFINE F == LapsedBy(day)
             G == LapsedBy(day + 1) \ LapsedBy(day)
  <2>1. F \cap G = {} /\ F \cup G = LapsedBy(day + 1) /\ \A e \in G : e.points >= 0
    <3>1. \A x \in Nat : x \in 1..day => x \in 1..(day + 1)
      OBVIOUS
    <3>2. F \subseteq LapsedBy(day + 1)
      BY <3>1 DEF LapsedBy
    <3>3. \A e \in G : e.points >= 0
      BY DEF LapsedBy, EntryRows
    <3> QED BY <3>2, <3>3
  <2> HIDE DEF F, G
  <2>2. Total(s, LapsedBy(day + 1)) = Total(s, F) + Total(s, G)
    BY <1>1, <2>1, TotalOfBoth
  <2>3. Total(s, G) >= 0
    BY <1>1, <2>1, TotalSigns
  <2>4. Total(s, F) \in Int /\ Total(s, G) \in Int /\ Total(s, Expiries) \in Int
    BY <1>1, LedgerFacts
  <2>5. AllExpire(s) => -Total(s, Expiries) <= Total(s, F)
    BY DEF LedgerHolds, Covered, F
  <2> QED BY <2>2, <2>3, <2>4, <2>5 DEF Covered
<1> QED BY <1>2, <1>3 DEF LedgerHolds

-----------------------------------------------------------------------------
\* What lapses is what no debit has used up, the oldest first.

LEMMA UpToInduction ==
  ASSUME NEW n \in Nat, NEW Good, 0 \in Good, \A j \in 0..n : j < n /\ j \in Good => j + 1 \in Good
  PROVE  \A j \in 0..n : j \in Good
<1> DEFINE Bad == {j \in 0..n : j \notin Good}
<1> SUFFICES ASSUME Bad # {} PROVE FALSE
  OBVIOUS
<1>1. IsFiniteSet(Bad) /\ Bad \subseteq Int
  <2>1. IsFiniteSet(0..n)
    BY FS_Interval
  <2>2. Bad \in SUBSET (0..n)
    OBVIOUS
  <2>3. IsFiniteSet(Bad)
    BY <2>1, <2>2, FS_Subset
  <2> QED BY <2>3
<1> HIDE DEF Bad
<1>2. PICK m \in Bad : \A j \in Bad : m <= j
  BY <1>1, LeastExists
<1>3. m \in 0..n /\ m \notin Good /\ m # 0
  BY DEF Bad
<1>4. m - 1 \in 0..n /\ m - 1 < n /\ m - 1 \notin Bad /\ (m - 1) + 1 = m
  BY <1>2, <1>3
<1>5. m - 1 \in Good
  BY <1>4 DEF Bad
<1> QED BY <1>3, <1>4, <1>5

LEMMA SumUpTo ==
  ASSUME NEW n \in Nat, NEW f, \A i \in 1..n : f[i] \in Int
  PROVE  \A j \in 0..n : /\ SumFunctionOnSet(f, 1..j) \in Int
                         /\ j = 0 => SumFunctionOnSet(f, 1..j) = 0
                         /\ j < n => SumFunctionOnSet(f, 1..(j + 1)) = SumFunctionOnSet(f, 1..j) + f[j + 1]
<1> SUFFICES ASSUME NEW j \in 0..n
             PROVE  /\ SumFunctionOnSet(f, 1..j) \in Int
                    /\ j = 0 => SumFunctionOnSet(f, 1..j) = 0
                    /\ j < n => SumFunctionOnSet(f, 1..(j + 1)) = SumFunctionOnSet(f, 1..j) + f[j + 1]
  OBVIOUS
<1>1. IsFiniteSet(1..j)
  BY FS_Interval
<1>2. \A i \in 1..j : f[i] \in Int
  OBVIOUS
<1>3. SumFunctionOnSet(f, 1..j) \in Int
  BY <1>1, <1>2, SumType
<1>4. ASSUME j = 0 PROVE SumFunctionOnSet(f, 1..j) = 0
  <2>1. 1..j = {}
    BY <1>4
  <2> QED BY <2>1, SumEmpty
<1>5. ASSUME j < n PROVE SumFunctionOnSet(f, 1..(j + 1)) = SumFunctionOnSet(f, 1..j) + f[j + 1]
  <2> DEFINE S == 1..j
             x == j + 1
  <2>1. 1..(j + 1) = S \cup {x} /\ x \notin S /\ \A i \in S \cup {x} : f[i] \in Int
    BY <1>5
  <2>2. IsFiniteSet(S)
    BY <1>1
  <2> HIDE DEF S, x
  <2>3. SumFunctionOnSet(f, S \cup {x}) = SumFunctionOnSet(f, S) + f[x]
    BY <2>1, <2>2, SumAdded
  <2> QED BY <2>1, <2>3 DEF S, x
<1> QED BY <1>3, <1>4, <1>5

\* What a debit leaves of the buckets.
OfDebit(n, left, d, rest) ==
  /\ rest \in [1..n -> Nat] /\ \A i \in 1..n : rest[i] <= left[i]
  /\ \A j \in 0..n : SumFunctionOnSet(rest, 1..j) = AtLeastZero(SumFunctionOnSet(left, 1..j) - d)

LEMMA Consumed ==
  ASSUME NEW n \in Nat, NEW left \in [1..n -> Nat], NEW d \in Nat
  PROVE  OfDebit(n, left, d, Consume(left, d))
<1> DEFINE c == Consume(left, d)
           S(j) == SumFunctionOnSet(left, 1..j)
<1>1. \A j \in 0..n : S(j) \in Int /\ (j = 0 => S(j) = 0) /\ (j < n => S(j + 1) = S(j) + left[j + 1])
  <2>1. \A i \in 1..n : left[i] \in Int
    OBVIOUS
  <2>2. \A j \in 0..n : /\ SumFunctionOnSet(left, 1..j) \in Int
                        /\ j = 0 => SumFunctionOnSet(left, 1..j) = 0
                        /\ j < n => SumFunctionOnSet(left, 1..(j + 1)) = SumFunctionOnSet(left, 1..j) + left[j + 1]
    BY ONLY n \in Nat, <2>1, SumUpTo
  <2> SUFFICES ASSUME NEW j \in 0..n
               PROVE  S(j) \in Int /\ (j = 0 => S(j) = 0) /\ (j < n => S(j + 1) = S(j) + left[j + 1])
    OBVIOUS
  <2> QED BY ONLY j \in 0..n, <2>2
<1>2. DOMAIN c = 1..n /\ \A i \in 1..n : c[i] = left[i] - Least(left[i], AtLeastZero(d - S(i - 1)))
  BY DEF Consume
<1>3. \A i \in 1..n : c[i] \in Nat /\ c[i] <= left[i]
  <2> SUFFICES ASSUME NEW i \in 1..n PROVE c[i] \in Nat /\ c[i] <= left[i]
    OBVIOUS
  <2> DEFINE u == S(i - 1)
             x == left[i]
  <2>1. u \in Int /\ x \in Nat
    <3>1. i - 1 \in 0..n
      OBVIOUS
    <3> HIDE DEF S
    <3> QED BY <1>1, <3>1
  <2>2. c[i] = x - Least(x, AtLeastZero(d - u))
    BY <1>2
  <2> HIDE DEF c, u, x
  <2>3. c[i] \in Nat /\ c[i] <= x
    BY <2>1, <2>2 DEF Least, AtLeastZero
  <2> QED BY <2>3 DEF x
<1>4. c \in [1..n -> Nat]
  <2>1. c = [i \in 1..n |-> c[i]]
    BY <1>2 DEF Consume
  <2> HIDE DEF c
  <2> QED BY <1>3, <2>1
<1>5. \A j \in 0..n : /\ SumFunctionOnSet(c, 1..j) \in Int
                      /\ j = 0 => SumFunctionOnSet(c, 1..j) = 0
                      /\ j < n => SumFunctionOnSet(c, 1..(j + 1)) = SumFunctionOnSet(c, 1..j) + c[j + 1]
  <2>1. \A i \in 1..n : c[i] \in Int
    BY <1>3
  <2> HIDE DEF c
  <2> QED BY <2>1, SumUpTo
<1> DEFINE Good == {j \in 0..n : SumFunctionOnSet(c, 1..j) = AtLeastZero(S(j) - d)}
<1>6. 0 \in Good
  <2>1. 0 \in 0..n
    OBVIOUS
  <2>2. S(0) = 0 /\ SumFunctionOnSet(c, 1..0) = 0
    <3> HIDE DEF S, c
    <3> QED BY <1>1, <1>5, <2>1
  <2>3. AtLeastZero(0 - d) = 0
    BY DEF AtLeastZero
  <2> HIDE DEF S, c
  <2> QED BY <2>1, <2>2, <2>3
<1>7. ASSUME NEW j \in 0..n, j < n, j \in Good PROVE j + 1 \in Good
  <2> DEFINE u == S(j)
             x == left[j + 1]
             v == SumFunctionOnSet(c, 1..j)
             y == c[j + 1]
  <2>1. j + 1 \in 1..n /\ j + 1 \in 0..n /\ (j + 1) - 1 = j
    BY <1>7
  <2>2. u \in Int /\ x \in Nat /\ S(j + 1) = u + x
    <3> HIDE DEF S
    <3> QED BY <1>1, <1>7, <2>1 DEF S
  <2>3. y = x - Least(x, AtLeastZero(d - u)) /\ SumFunctionOnSet(c, 1..(j + 1)) = v + y
    <3>1. y = x - Least(x, AtLeastZero(d - u))
      <4> HIDE DEF S, c
      <4> QED BY <1>2, <2>1
    <3> HIDE DEF c
    <3> QED BY <1>5, <1>7, <3>1
  <2>4. v = AtLeastZero(u - d)
    BY <1>7
  <2> HIDE DEF u, x, v, y, S, c
  <2>5. v + y = AtLeastZero((u + x) - d)
    BY <2>2, <2>3, <2>4 DEF Least, AtLeastZero
  <2> QED BY <2>1, <2>2, <2>3, <2>5
<1>8. \A j \in 0..n : j \in Good
  <2> HIDE DEF Good
  <2> QED BY ONLY n \in Nat, <1>6, <1>7, UpToInduction
<1> QED BY <1>3, <1>4, <1>8 DEF OfDebit
-----------------------------------------------------------------------------
(* What a debit leaves of the grants before it, as a table over the ledger. *)

NextLeft(s, k, left) ==
  IF s[k].points > 0 THEN [left EXCEPT ![k] = s[k].points] ELSE Consume(left, -s[k].points)
LeftTable(s, T, n) ==
  T = [k \in 0..n |-> IF k = 0 THEN [i \in DOMAIN s |-> 0]
                      ELSE IF s[k].points > 0 THEN [T[k - 1] EXCEPT ![k] = s[k].points]
                      ELSE Consume(T[k - 1], -s[k].points)]

LEMMA TableSteps ==
  ASSUME NEW s, NEW T, NEW n \in Nat
  PROVE  LeftTable(s, T, n) <=> /\ T = [k \in 0..n |-> T[k]] /\ T[0] = [i \in DOMAIN s |-> 0]
                                /\ \A k \in 1..n : T[k] = NextLeft(s, k, T[k - 1])
<1> DEFINE Body(k) == IF k = 0 THEN [i \in DOMAIN s |-> 0] ELSE NextLeft(s, k, T[k - 1])
<1>1. LeftTable(s, T, n) <=> T = [k \in 0..n |-> Body(k)]
  BY DEF LeftTable, NextLeft
<1>2. 0 \in 0..n /\ (\A k \in 1..n : k \in 0..n /\ k # 0) /\ (\A k \in 0..n : k # 0 => k \in 1..n)
  OBVIOUS
<1>3. T = [k \in 0..n |-> Body(k)] <=> T = [k \in 0..n |-> T[k]] /\ \A k \in 0..n : T[k] = Body(k)
  <2> HIDE DEF Body
  <2> QED OBVIOUS
<1>4. Body(0) = [i \in DOMAIN s |-> 0] /\ \A k \in 1..n : Body(k) = NextLeft(s, k, T[k - 1])
  BY <1>2
<1> HIDE DEF Body
<1> QED BY <1>1, <1>2, <1>3, <1>4

LEMMA TableExists == ASSUME NEW s, NEW n \in Nat PROVE \E T : LeftTable(s, T, n)
<1> DEFINE Good == {j \in 0..n : \E T : LeftTable(s, T, j)}
<1>1. 0 \in Good
  <2> DEFINE Z == [k \in 0..0 |-> [i \in DOMAIN s |-> 0]]
  <2>1. Z = [k \in 0..0 |-> Z[k]] /\ Z[0] = [i \in DOMAIN s |-> 0] /\ \A k \in 1..0 : FALSE
    OBVIOUS
  <2> HIDE DEF Z
  <2>2. LeftTable(s, Z, 0)
    BY <2>1, TableSteps
  <2> QED BY <2>2
<1>2. ASSUME NEW j \in 0..n, j < n, j \in Good PROVE j + 1 \in Good
  <2>1. PICK T : LeftTable(s, T, j)
    BY <1>2
  <2>2. T[0] = [i \in DOMAIN s |-> 0] /\ \A k \in 1..j : T[k] = NextLeft(s, k, T[k - 1])
    BY <2>1, TableSteps
  <2> DEFINE U == [k \in 0..(j + 1) |-> IF k = j + 1 THEN NextLeft(s, k, T[j]) ELSE T[k]]
  <2>3. /\ j + 1 \in Nat /\ j + 1 \in 0..n
        /\ \A k \in 0..j : k \in 0..(j + 1) /\ k # j + 1
        /\ \A k \in 1..(j + 1) : k = j + 1 \/ (k \in 1..j /\ k \in 0..j /\ k - 1 \in 0..j)
        /\ (j + 1) - 1 = j /\ j \in 0..j /\ 0 \in 0..j /\ j + 1 \in 0..(j + 1)
    BY <1>2
  <2>4. U = [k \in 0..(j + 1) |-> U[k]] /\ U[j + 1] = NextLeft(s, j + 1, T[j]) /\ \A k \in 0..j : U[k] = T[k]
    BY <2>3
  <2> HIDE DEF U
  <2>5. U[0] = [i \in DOMAIN s |-> 0]
    BY <2>2, <2>3, <2>4
  <2>6. \A k \in 1..(j + 1) : U[k] = NextLeft(s, k, U[k - 1])
    <3> SUFFICES ASSUME NEW k \in 1..(j + 1) PROVE U[k] = NextLeft(s, k, U[k - 1])
      OBVIOUS
    <3>1. CASE k = j + 1
      BY <2>3, <2>4, <3>1
    <3>2. CASE k # j + 1
      BY <2>2, <2>3, <2>4, <3>2
    <3> QED BY <3>1, <3>2
  <2>7. LeftTable(s, U, j + 1)
    BY <2>3, <2>4, <2>5, <2>6, TableSteps
  <2> QED BY <2>3, <2>7
<1>3. \A j \in 0..n : j \in Good
  <2> HIDE DEF Good
  <2> QED BY ONLY n \in Nat, <1>1, <1>2, UpToInduction
<1> QED BY <1>3

\* What the entries gave and what they took.
Given(s) == [i \in DOMAIN s |-> AtLeastZero(s[i].points)]
Taken(s) == [i \in DOMAIN s |-> AtLeastZero(-s[i].points)]

LEMMA GivenLessTaken ==
  ASSUME NEW s \in Seq(EntryRows)
  PROVE  /\ \A i \in 1..Len(s) : /\ Given(s)[i] \in Nat /\ Taken(s)[i] \in Nat
                                 /\ s[i].points > 0 => Given(s)[i] = s[i].points /\ Taken(s)[i] = 0
                                 /\ s[i].points <= 0 => Given(s)[i] = 0 /\ Taken(s)[i] = -s[i].points
         /\ \A k \in 0..Len(s) : SumFunctionOnSet(PointsIn(s), 1..k) =
                                 SumFunctionOnSet(Given(s), 1..k) - SumFunctionOnSet(Taken(s), 1..k)
<1>1. Len(s) \in Nat /\ DOMAIN s = 1..Len(s) /\ \A i \in 1..Len(s) : s[i].points \in Int /\ PointsIn(s)[i] = s[i].points
  BY LedgerFacts
<1>2. \A i \in 1..Len(s) : /\ Given(s)[i] \in Nat /\ Taken(s)[i] \in Nat
                           /\ s[i].points > 0 => Given(s)[i] = s[i].points /\ Taken(s)[i] = 0
                           /\ s[i].points <= 0 => Given(s)[i] = 0 /\ Taken(s)[i] = -s[i].points
  BY <1>1 DEF Given, Taken, AtLeastZero
<1>3. ASSUME NEW k \in 0..Len(s)
      PROVE  SumFunctionOnSet(PointsIn(s), 1..k) = SumFunctionOnSet(Given(s), 1..k) - SumFunctionOnSet(Taken(s), 1..k)
  <2>1. IsFiniteSet(1..k)
    <3>1. k \in Int
      BY <1>1
    <3> QED BY <3>1, FS_Interval
  <2>2. \A i \in 1..k : i \in 1..Len(s)
    BY <1>1
  <2>3. \A i \in 1..k : Given(s)[i] \in Int /\ Taken(s)[i] \in Int /\ PointsIn(s)[i] = Given(s)[i] - Taken(s)[i]
    <3> SUFFICES ASSUME NEW i \in 1..k
                 PROVE  Given(s)[i] \in Int /\ Taken(s)[i] \in Int /\ PointsIn(s)[i] = Given(s)[i] - Taken(s)[i]
      OBVIOUS
    <3> DEFINE x == s[i].points
    <3>1. x \in Int /\ PointsIn(s)[i] = x
      BY <1>1, <2>2
    <3>2. (x > 0 => Given(s)[i] = x /\ Taken(s)[i] = 0) /\ (x <= 0 => Given(s)[i] = 0 /\ Taken(s)[i] = -x)
      BY <1>2, <2>2
    <3> HIDE DEF x
    <3> QED BY <3>1, <3>2
  <2> QED BY <2>1, <2>3, SumMinus
<1> QED BY <1>2, <1>3

\* After k entries, what the first j gave is left as far as all k took less.
Fifo(s, left, k) ==
  /\ left \in [1..Len(s) -> Nat] /\ \A i \in 1..Len(s) : i > k => left[i] = 0
  /\ \A j \in 0..k : SumFunctionOnSet(left, 1..j) =
                     AtLeastZero(SumFunctionOnSet(Given(s), 1..j) - SumFunctionOnSet(Taken(s), 1..k))

LEMMA FifoStart ==
  ASSUME NEW s \in Seq(EntryRows)
  PROVE  Fifo(s, [i \in DOMAIN s |-> 0], 0)
<1>1. Len(s) \in Nat /\ DOMAIN s = 1..Len(s)
  BY LedgerFacts
<1>2. \A j \in 0..0 : j = 0 /\ 1..j = {}
  OBVIOUS
<1>3. \A f : SumFunctionOnSet(f, {}) = 0
  BY SumEmpty
<1>4. AtLeastZero(0 - 0) = 0
  BY DEF AtLeastZero
<1> DEFINE z == [i \in DOMAIN s |-> 0]
<1>5. z \in [1..Len(s) -> Nat] /\ \A i \in 1..Len(s) : z[i] = 0
  BY <1>1
<1> HIDE DEF z
<1>6. Fifo(s, z, 0)
  <2>1. \A j \in 0..0 : SumFunctionOnSet(z, 1..j) = AtLeastZero(SumFunctionOnSet(Given(s), 1..j) - SumFunctionOnSet(Taken(s), 1..0))
    BY <1>2, <1>3, <1>4
  <2> QED BY <1>5, <2>1 DEF Fifo
<1> QED BY <1>6 DEF z

LEMMA FifoStep ==
  ASSUME NEW s \in Seq(EntryRows), NeverInDebt(s), NEW k \in 0..Len(s), k < Len(s), NEW left, Fifo(s, left, k)
  PROVE  Fifo(s, NextLeft(s, k + 1, left), k + 1)
<1> DEFINE n == Len(s)
           m == k + 1
           p == s[m].points
           c == NextLeft(s, m, left)
           L(j) == SumFunctionOnSet(left, 1..j)
           C(j) == SumFunctionOnSet(c, 1..j)
           G(j) == SumFunctionOnSet(Given(s), 1..j)
           D(j) == SumFunctionOnSet(Taken(s), 1..j)
<1>1. n \in Nat /\ DOMAIN s = 1..n /\ k \in Nat /\ m \in 1..n /\ m \in 0..n /\ k \in 0..n /\ m # 0
  BY LedgerFacts
<1>2. p \in Int /\ left \in [1..n -> Nat] /\ (\A i \in 1..n : i > k => left[i] = 0) /\ left[m] = 0
  <2>1. p \in Int
    BY <1>1, LedgerFacts
  <2>2. left \in [1..n -> Nat] /\ \A i \in 1..n : i > k => left[i] = 0
    BY DEF Fifo
  <2> QED BY <1>1, <2>1, <2>2
<1>3. \A j \in 0..n : G(j) \in Int /\ (j < n => G(j + 1) = G(j) + Given(s)[j + 1])
  <2>1. \A i \in 1..n : Given(s)[i] \in Int
    BY GivenLessTaken
  <2> QED BY <1>1, <2>1, SumUpTo
<1>4. \A j \in 0..n : D(j) \in Int /\ (j < n => D(j + 1) = D(j) + Taken(s)[j + 1])
  <2>1. \A i \in 1..n : Taken(s)[i] \in Int
    BY GivenLessTaken
  <2> QED BY <1>1, <2>1, SumUpTo
<1>5. \A j \in 0..n : L(j) \in Int /\ (j < n => L(j + 1) = L(j) + left[j + 1])
  <2>1. \A i \in 1..n : left[i] \in Int
    BY <1>2
  <2> QED BY <1>1, <2>1, SumUpTo
<1>6. \A j \in 0..k : L(j) = AtLeastZero(G(j) - D(k))
  BY DEF Fifo
<1>7. G(k) - D(k) >= 0 /\ k \in 0..k
  <2>1. SumFunctionOnSet(PointsIn(s), 1..k) >= 0
    BY <1>1 DEF NeverInDebt
  <2>2. SumFunctionOnSet(PointsIn(s), 1..k) = G(k) - D(k)
    BY GivenLessTaken
  <2> QED BY <1>1, <2>1, <2>2
<1>8. /\ p > 0 => Given(s)[m] = p /\ Taken(s)[m] = 0
      /\ p <= 0 => Given(s)[m] = 0 /\ Taken(s)[m] = -p
  BY <1>1, GivenLessTaken
<1>9. /\ G(k) \in Int /\ D(k) \in Int /\ G(m) = G(k) + Given(s)[m] /\ D(m) = D(k) + Taken(s)[m]
      /\ L(k) = AtLeastZero(G(k) - D(k)) /\ L(k) \in Int /\ L(m) = L(k) + left[m]
  <2> HIDE DEF G, D, L
  <2> QED BY <1>1, <1>3, <1>4, <1>5, <1>6, <1>7
<1>10. \A j \in 0..m : (j \in 0..k \/ j = m) /\ j \in 0..n
  BY <1>1
<1>11. CASE p > 0
  <2>1. c = [left EXCEPT ![m] = p]
    BY <1>11 DEF NextLeft
  <2>2. c \in [1..n -> Nat] /\ c[m] = p /\ \A i \in 1..n : i # m => c[i] = left[i]
    <3>1. p \in Nat
      BY <1>2, <1>11
    <3> HIDE DEF p, n, m, c
    <3> QED BY <1>1, <1>2, <2>1, <3>1
  <2> HIDE DEF c
  <2>3. \A i \in 1..n : i > m => c[i] = 0
    <3>1. \A i \in 1..n : i > m => i # m /\ i > k
      BY <1>1
    <3> QED BY <1>2, <2>2, <3>1
  <2>4. \A j \in 0..k : C(j) = L(j)
    <3> SUFFICES ASSUME NEW j \in 0..k PROVE C(j) = L(j)
      OBVIOUS
    <3>1. j \in Int /\ \A i \in 1..j : i \in 1..n /\ i # m
      BY <1>1
    <3>2. IsFiniteSet(1..j)
      BY <3>1, FS_Interval
    <3> HIDE DEF n, m
    <3> QED BY <2>2, <3>1, <3>2, SumAgree
  <2>5. \A j \in 0..n : j < n => C(j + 1) = C(j) + c[j + 1]
    <3>1. \A i \in 1..n : c[i] \in Int
      BY <2>2
    <3> QED BY <1>1, <3>1, SumUpTo
  <2>6. C(m) = C(k) + p
    <3> HIDE DEF C
    <3> QED BY <1>1, <2>2, <2>5
  <2> HIDE DEF C, G, D, L
  <2>7. C(m) = AtLeastZero(G(m) - D(m))
    <3>1. C(m) = L(k) + p
      BY <1>7, <2>4, <2>6
    <3>2. G(m) = G(k) + p /\ D(m) = D(k)
      BY <1>8, <1>9, <1>11
    <3> HIDE DEF p, m
    <3> QED BY <1>2, <1>7, <1>9, <1>11, <3>1, <3>2 DEF AtLeastZero
  <2>8. \A j \in 0..k : C(j) = AtLeastZero(G(j) - D(m))
    BY <1>6, <1>8, <1>9, <1>11, <2>4
  <2>9. \A j \in 0..m : C(j) = AtLeastZero(G(j) - D(m))
    BY <1>10, <2>7, <2>8
  <2>10. Fifo(s, c, m)
    BY <2>2, <2>3, <2>9 DEF Fifo, C, G, D
  <2> QED BY <2>10 DEF c
<1>12. CASE p <= 0
  <2> DEFINE d == -p
  <2>1. c = Consume(left, d) /\ d \in Nat
    BY <1>2, <1>12 DEF NextLeft
  <2> HIDE DEF c, d
  <2>2. /\ c \in [1..n -> Nat] /\ \A i \in 1..n : c[i] <= left[i]
        /\ \A j \in 0..n : C(j) = AtLeastZero(L(j) - d)
    <3>1. n \in Nat /\ left \in [1..n -> Nat] /\ d \in Nat
      BY <1>1, <1>2, <2>1
    <3> HIDE DEF n
    <3>2. OfDebit(n, left, d, Consume(left, d))
      BY ONLY <3>1, Consumed
    <3> QED BY <2>1, <3>2 DEF OfDebit
  <2>3. \A i \in 1..n : i > m => c[i] = 0
    <3> SUFFICES ASSUME NEW i \in 1..n, i > m PROVE c[i] = 0
      OBVIOUS
    <3>1. i > k
      BY <1>1
    <3>2. left[i] = 0 /\ c[i] \in Nat /\ c[i] <= left[i]
      BY <1>2, <2>2, <3>1
    <3> QED BY <3>2
  <2> HIDE DEF C, G, D, L
  <2>4. D(m) = D(k) + d /\ G(m) = G(k) /\ L(m) = L(k)
    <3>1. Given(s)[m] = 0 /\ Taken(s)[m] = d
      BY <1>8, <1>12 DEF d
    <3> QED BY <1>2, <1>9, <3>1
  <2>5. \A x, y \in Int : AtLeastZero(AtLeastZero(x - y) - d) = AtLeastZero(x - (y + d))
    BY <2>1 DEF AtLeastZero
  <2>6. \A j \in 0..k : C(j) = AtLeastZero(G(j) - D(m))
    <3> SUFFICES ASSUME NEW j \in 0..k PROVE C(j) = AtLeastZero(G(j) - D(m))
      OBVIOUS
    <3>1. j \in 0..n
      BY <1>1
    <3>2. C(j) = AtLeastZero(L(j) - d) /\ L(j) = AtLeastZero(G(j) - D(k)) /\ G(j) \in Int
      BY <1>3, <1>6, <2>2, <3>1
    <3> QED BY <1>9, <2>4, <2>5, <3>2
  <2>7. C(m) = AtLeastZero(G(m) - D(m))
    <3>1. C(m) = AtLeastZero(L(m) - d)
      BY <1>1, <2>2
    <3> QED BY <1>9, <2>4, <2>5, <3>1
  <2>8. \A j \in 0..m : C(j) = AtLeastZero(G(j) - D(m))
    BY <1>10, <2>6, <2>7
  <2>9. Fifo(s, c, m)
    BY <2>2, <2>3, <2>8 DEF Fifo, C, G, D
  <2> QED BY <2>9 DEF c
<1> QED BY <1>2, <1>11, <1>12

LEMMA FifoHolds ==
  ASSUME NEW s \in Seq(EntryRows), NeverInDebt(s), NEW T, LeftTable(s, T, Len(s))
  PROVE  Fifo(s, T[Len(s)], Len(s))
<1> DEFINE n == Len(s)
           Good == {k \in 0..n : Fifo(s, T[k], k)}
<1>1. n \in Nat /\ 0 \in 0..n /\ n \in 0..n
  BY LedgerFacts
<1>2. T[0] = [i \in DOMAIN s |-> 0] /\ \A k \in 1..n : T[k] = NextLeft(s, k, T[k - 1])
  BY <1>1, TableSteps
<1>3. 0 \in Good
  BY <1>1, <1>2, FifoStart
<1>4. ASSUME NEW k \in 0..n, k < n, k \in Good PROVE k + 1 \in Good
  <2>1. k + 1 \in 1..n /\ k + 1 \in 0..n /\ (k + 1) - 1 = k
    BY <1>1, <1>4
  <2>2. T[k + 1] = NextLeft(s, k + 1, T[k])
    BY <1>2, <2>1
  <2>3. Fifo(s, NextLeft(s, k + 1, T[k]), k + 1)
    BY <1>4, FifoStep
  <2> QED BY <2>1, <2>2, <2>3
<1>5. \A k \in 0..n : k \in Good
  <2> HIDE DEF Good
  <2> QED BY ONLY <1>1, <1>3, <1>4, UpToInduction
<1> QED BY <1>1, <1>5

LEMMA LeftoverIsFifo ==
  ASSUME entries \in Seq(EntryRows), NeverInDebt(entries)
  PROVE  Fifo(entries, Leftover, Len(entries))
<1> DEFINE T == CHOOSE t : LeftTable(entries, t, Len(entries))
<1>1. Len(entries) \in Nat
  BY LedgerFacts
<1>2. LeftTable(entries, T, Len(entries))
  BY <1>1, TableExists
<1>3. Leftover = T[Len(entries)]
  BY DEF Leftover, LeftTable
<1> HIDE DEF T
<1> QED BY <1>2, <1>3, FifoHolds

\* What the lapsed grants have left is covered by what all debits left of them.
LEMMA ExpiryFits ==
  ASSUME NEW s, NEW day \in Nat, LedgerHolds(s, day), AllExpire(s), NEW left, Fifo(s, left, Len(s))
  PROVE  SumFunctionOnSet(left, Among(s, LapsedBy(day))) <= AtLeastZero(Total(s, LapsedBy(day)) + Total(s, Debits))
<1> DEFINE n == Len(s)
           A == Among(s, LapsedBy(day))
           G(j) == SumFunctionOnSet(Given(s), 1..j)
<1>1. /\ s \in Seq(EntryRows) /\ n \in Nat /\ DOMAIN s = 1..n /\ n \in 0..n
      /\ A \in SUBSET (1..n) /\ IsFiniteSet(A) /\ Total(s, LapsedBy(day)) \in Int /\ Total(s, Debits) \in Int
  <2>1. s \in Seq(EntryRows)
    BY DEF LedgerHolds
  <2> QED BY <2>1, LedgerFacts
<1>2. \A i \in 1..n : s[i] \in EntryRows /\ s[i].points \in Int /\ s[i].expires \in Nat /\ PointsIn(s)[i] = s[i].points
  <2>1. \A i \in 1..n : s[i] \in EntryRows /\ s[i].points \in Int /\ PointsIn(s)[i] = s[i].points
    BY <1>1, LedgerFacts
  <2> QED BY <2>1 DEF EntryRows
<1>3. left \in [1..n -> Nat] /\ \A j \in 0..n : SumFunctionOnSet(left, 1..j) = AtLeastZero(G(j) - SumFunctionOnSet(Taken(s), 1..n))
  BY DEF Fifo
<1>4. \A i \in 1..n : /\ Given(s)[i] \in Nat /\ Taken(s)[i] \in Nat
                      /\ s[i].points > 0 => Given(s)[i] = s[i].points /\ Taken(s)[i] = 0
                      /\ s[i].points <= 0 => Given(s)[i] = 0 /\ Taken(s)[i] = -s[i].points
  BY <1>1, GivenLessTaken
<1>5. SumFunctionOnSet(Taken(s), 1..n) = -Total(s, Debits)
  <2> DEFINE B == Among(s, Debits)
             N == 1..n
  <2>1. IsFiniteSet(N) /\ B \in SUBSET N /\ \A i \in N : i \notin B => s[i].points > 0
    <3>1. IsFiniteSet(N)
      BY <1>1, FS_Interval
    <3>2. B \in SUBSET N
      BY <1>1, LedgerFacts
    <3>3. \A i \in N : i \notin B => s[i].points > 0
      BY <1>1, <1>2 DEF Among, Debits
    <3> QED BY <3>1, <3>2, <3>3
  <2>2. \A i \in B : s[i].points <= 0
    BY DEF Among, Debits
  <2>3. (\A i \in N : Taken(s)[i] \in Int) /\ \A i \in N \ B : Taken(s)[i] = 0
    BY <1>4, <2>1
  <2>4. IsFiniteSet(B) /\ \A i \in B : PointsIn(s)[i] \in Int /\ Taken(s)[i] = (-1) * PointsIn(s)[i]
    <3>1. IsFiniteSet(B)
      BY <2>1, FS_Subset
    <3>2. \A i \in B : i \in 1..n /\ s[i].points <= 0
      BY <2>1, <2>2
    <3>3. \A i \in B : PointsIn(s)[i] \in Int /\ Taken(s)[i] = -PointsIn(s)[i]
      BY <1>2, <1>4, <3>2
    <3>4. \A x \in Int : -x = (-1) * x
      OBVIOUS
    <3> QED BY <3>1, <3>3, <3>4
  <2> HIDE DEF N, B
  <2>5. SumFunctionOnSet(Taken(s), N) = SumFunctionOnSet(Taken(s), B)
    BY <2>1, <2>3, SumOfOthers
  <2>6. SumFunctionOnSet(Taken(s), B) = (-1) * SumFunctionOnSet(PointsIn(s), B)
    <3>1. -1 \in Int
      OBVIOUS
    <3> QED BY <2>4, <3>1, SumScaled
  <2>7. SumFunctionOnSet(PointsIn(s), B) = Total(s, Debits)
    BY DEF Total, B
  <2>8. \A x \in Int : (-1) * x = -x
    OBVIOUS
  <2> QED BY <1>1, <2>5, <2>6, <2>7, <2>8 DEF N
<1>6. CASE A = {}
  <2>1. SumFunctionOnSet(left, A) = 0
    BY <1>6, SumEmpty
  <2> HIDE DEF A
  <2>2. \A x \in Int : 0 <= AtLeastZero(x)
    BY DEF AtLeastZero
  <2>3. SumFunctionOnSet(left, A) <= AtLeastZero(Total(s, LapsedBy(day)) + Total(s, Debits))
    BY <1>1, <2>1, <2>2
  <2> QED BY <2>3 DEF A
<1>7. CASE A # {}
  <2>1. PICK m \in A : \A i \in A : m >= i
    <3>1. A \subseteq Int
      BY <1>1
    <3> HIDE DEF A
    <3> QED BY <1>1, <1>7, <3>1, GreatestExists
  <2>2. /\ m \in 1..n /\ m \in 0..n /\ IsFiniteSet(1..m) /\ A \in SUBSET (1..m) /\ \A i \in 1..m : i \in 1..n /\ i <= m
        /\ s[m].points > 0 /\ s[m].expires \in 1..day
    <3>1. m \in 1..n /\ m \in Int /\ \A i \in A : i \in 1..n /\ i <= m
      BY <1>1, <2>1
    <3>2. s[m].points > 0 /\ s[m].expires \in 1..day
      BY <2>1 DEF Among, LapsedBy
    <3>3. IsFiniteSet(1..m)
      BY <3>1, FS_Interval
    <3>4. A \in SUBSET (1..m)
      <4> HIDE DEF A
      <4> QED BY <1>1, <3>1
    <3> QED BY <1>1, <3>1, <3>2, <3>3, <3>4
  <2>3. \A i \in 1..m : s[i].points > 0 => i \in A
    <3> SUFFICES ASSUME NEW i \in 1..m, s[i].points > 0 PROVE i \in A
      OBVIOUS
    <3>1. i \in DOMAIN s /\ m \in DOMAIN s /\ (i = m \/ i < m)
      BY <1>1, <2>2
    <3>2. s[i].expires # 0 /\ s[m].expires # 0 /\ s[i].expires \in Nat /\ s[m].expires <= day
      BY <1>1, <1>2, <2>2, <3>1 DEF AllExpire
    <3>3. s[i].expires <= s[m].expires
      <4>1. CASE i = m
        BY <4>1, <3>2
      <4>2. CASE i < m
        BY <2>2, <3>1, <3>2, <4>2 DEF LedgerHolds, Dated
      <4> QED BY <3>1, <4>1, <4>2
    <3>4. s[i].expires \in 1..day
      <4>1. s[m].expires \in Nat
        BY <1>1, <1>2, <3>1
      <4> QED BY <3>2, <3>3, <4>1
    <3> QED BY <1>1, <1>2, <3>1, <3>4 DEF Among, LapsedBy
  <2>4. G(m) = Total(s, LapsedBy(day))
    <3>1. \A i \in 1..m : Given(s)[i] \in Int
      BY <1>4, <2>2
    <3>2. \A i \in (1..m) \ A : Given(s)[i] = 0
      BY <1>2, <1>4, <2>2, <2>3
    <3>3. \A i \in A : Given(s)[i] = PointsIn(s)[i]
      <4>1. \A i \in A : i \in 1..n /\ s[i].points > 0
        BY <1>1 DEF Among, LapsedBy
      <4> QED BY <1>2, <1>4, <4>1
    <3> HIDE DEF A
    <3>4. SumFunctionOnSet(Given(s), 1..m) = SumFunctionOnSet(Given(s), A)
      BY <2>2, <3>1, <3>2, SumOfOthers
    <3>5. SumFunctionOnSet(Given(s), A) = SumFunctionOnSet(PointsIn(s), A)
      BY <1>1, <3>3, SumAgree
    <3> QED BY <3>4, <3>5 DEF Total, A
  <2>5. SumFunctionOnSet(left, 1..m) = AtLeastZero(Total(s, LapsedBy(day)) + Total(s, Debits))
    <3>1. SumFunctionOnSet(left, 1..m) = AtLeastZero(G(m) - SumFunctionOnSet(Taken(s), 1..n))
      BY <1>3, <2>2
    <3> HIDE DEF G
    <3>2. \A x, y \in Int : x - (-y) = x + y
      OBVIOUS
    <3> QED BY <1>1, <1>5, <2>4, <3>1, <3>2
  <2>6. SumFunctionOnSet(left, A) <= SumFunctionOnSet(left, 1..m)
    <3> DEFINE M == 1..m
    <3>1. IsFiniteSet(M) /\ A \in SUBSET M /\ \A i \in M : left[i] \in Nat
      BY <1>3, <2>2
    <3> HIDE DEF A, M
    <3>2. SumFunctionOnSet(left, M \ A) \in Nat
      <4>1. IsFiniteSet(M \ A)
        BY <3>1, FS_Subset
      <4>2. \A i \in M \ A : left[i] \in Nat
        BY <3>1
      <4> QED BY <4>1, <4>2, SumNat
    <3>3. /\ SumFunctionOnSet(left, A) \in Int
          /\ SumFunctionOnSet(left, M) = SumFunctionOnSet(left, A) + SumFunctionOnSet(left, M \ A)
      <4>1. \A i \in M : left[i] \in Int
        BY <3>1
      <4> QED BY <3>1, <4>1, SumSplit
    <3>4. SumFunctionOnSet(left, A) <= SumFunctionOnSet(left, M)
      BY <3>2, <3>3
    <3> QED BY <3>4 DEF M
  <2> QED BY <2>5, <2>6
<1> QED BY <1>6, <1>7

\* An expiry of no more than that, as the worker notes it.
LEMMA ExpiryCovered ==
  ASSUME NEW s, NEW day \in Nat, LedgerHolds(s, day), NEW left, Fifo(s, left, Len(s)),
         NEW e \in EntryRows, e.type = "EXPIRE", e.points < 0,
         -e.points <= SumFunctionOnSet(left, Among(s, LapsedBy(day)))
  PROVE  Covered(Noted(s, e), day)
<1> DEFINE t == Noted(s, e)
           L == Total(s, LapsedBy(day))
           X == Expiries \cap Debits
           Y == Debits \ Expiries
           a == SumFunctionOnSet(left, Among(s, LapsedBy(day)))
<1>1. s \in Seq(EntryRows)
  BY DEF LedgerHolds
<1> SUFFICES ASSUME AllExpire(t) PROVE -Total(t, Expiries) <= Total(t, LapsedBy(day))
  BY DEF Covered
<1>2. AllExpire(s)
  <2>1. \A i \in DOMAIN s : i \in DOMAIN t /\ t[i] = s[i]
    BY <1>1, NotedIs
  <2> HIDE DEF t
  <2> QED BY <2>1 DEF AllExpire
<1>3. a <= AtLeastZero(L + Total(s, Debits))
  BY <1>2, ExpiryFits
<1>4. L \in Int /\ Total(s, Debits) \in Int /\ Total(s, Expiries) \in Int /\ Total(s, Y) \in Int /\ Total(s, X) \in Int
  BY <1>1, LedgerFacts
<1>5. Total(s, Debits) = Total(s, X) + Total(s, Y)
  <2>1. X \cap Y = {} /\ X \cup Y = Debits
    OBVIOUS
  <2> HIDE DEF X, Y
  <2> QED BY <1>1, <2>1, TotalOfBoth
<1>6. Total(s, Expiries) = Total(s, X)
  <2>1. \A i \in DOMAIN s : s[i] \in Expiries <=> s[i] \in X
    BY <1>1, LedgerFacts DEF LedgerHolds, Expiries, Debits
  <2>2. Among(s, Expiries) = Among(s, X)
    BY <2>1 DEF Among
  <2> QED BY <2>2 DEF Total
<1>7. Total(s, Y) <= 0
  <2>1. \A f \in Y : f.points <= 0
    BY DEF Debits
  <2> HIDE DEF Y
  <2> QED BY <1>1, <2>1, TotalSigns
<1>8. Total(t, Expiries) = Total(s, Expiries) + e.points
  <2>1. e \in Expiries
    BY DEF Expiries
  <2> QED BY <1>1, <2>1, NotedTotal
<1>9. Total(t, LapsedBy(day)) = L + 0
  <2>1. e \notin LapsedBy(day)
    BY DEF LapsedBy, EntryRows
  <2> QED BY <1>1, <2>1, NotedTotal
<1>10. e.points \in Int /\ a \in Int
  <2>1. e.points \in Int
    BY DEF EntryRows
  <2>2. IsFiniteSet(Among(s, LapsedBy(day))) /\ Among(s, LapsedBy(day)) \in SUBSET (1..Len(s))
    BY <1>1, LedgerFacts
  <2>3. left \in [1..Len(s) -> Nat]
    BY DEF Fifo
  <2>4. \A i \in Among(s, LapsedBy(day)) : left[i] \in Int
    BY <2>2, <2>3
  <2> QED BY <2>1, <2>2, <2>4, SumType
<1> HIDE DEF t, L, X, Y, a
<1>11. -e.points <= a
  BY DEF a
<1>12. a <= L + Total(s, Debits)
  <2>1. a > 0 /\ L + Total(s, Debits) \in Int
    BY <1>4, <1>10, <1>11
  <2> QED BY <1>3, <1>10, <2>1 DEF AtLeastZero
<1> QED BY <1>4, <1>5, <1>6, <1>7, <1>8, <1>9, <1>10, <1>11, <1>12
-----------------------------------------------------------------------------
(* The invariant of the account, its ledger and the returns of its sales.  *)

Bought(p) == p \in DOMAIN bill /\ bill[p] # Unsold

\* The account is what its ledger says, on a day.
AccountIs(acc, s, day) ==
  /\ acc \in [points : Nat, lifetime : Nat] /\ LedgerHolds(s, day)
  /\ acc.points = Total(s, EntryRows) /\ acc.lifetime = Total(s, Grants)

ParcelsCovered == \A p \in Parcels : Total(entries, EarnedBy(p)) + Total(entries, RefundsOf(p)) >= 0

TicketsEarned ==
  \A t \in Tickets : Total(entries, EarnedBy(t)) = IF Bought(t) THEN Worth(bill[t]) ELSE 0

ReturnsOfSales ==
  \A r \in SaleReturns : sreturn[r].status # "NONE" =>
    sreturn[r].ticket \in Tickets /\ Bought(sreturn[r].ticket) /\ sreturn[r].quantity >= 1

RefundsFit ==
  \A r \in SaleReturns :
    Total(entries, RefundsOf(r)) >= IF sreturn[r].status = "COMPLETED" THEN -Worth(sreturn[r].amount) ELSE 0

\* What n units and their parts, each rounded by at most a half, are worth at most.
WithinParts(value, units, total, sold) == 2 * sold * value <= 2 * total * units + sold * units

Asked(t) == {r \in SaleReturns : sreturn[r].ticket = t /\ sreturn[r].status = "ASKED"}

PartsFit(t) ==
  /\ UnitsBack(t) <= Sold[t]
  /\ UnitsBack(t) = Sold[t] => ValueBack(t) = bill[t]
  /\ UnitsBack(t) < Sold[t] => WithinParts(ValueBack(t), UnitsBack(t), bill[t], Sold[t])
  /\ \A r \in Asked(t) : /\ UnitsBack(t) + sreturn[r].quantity <= Sold[t]
                         /\ sreturn[r].amount = RefundOf(t, sreturn[r].quantity)
                         /\ Asked(t) = {r}

SalesFit == \A t \in Tickets \ overlapped : Bought(t) => PartsFit(t)

PointsIInv ==
  /\ PointsTypeOK /\ AccountIs(account, entries, today)
  /\ ParcelsCovered /\ TicketsEarned /\ ReturnsOfSales /\ RefundsFit /\ SalesFit

-----------------------------------------------------------------------------
(* The steps, by what they write.                                          *)

LEMMA AccountTakes ==
  ASSUME NEW acc, NEW s, NEW day \in Nat, AccountIs(acc, s, day), NEW e \in EntryRows, acc.points + e.points >= 0,
         e.expires \in {0, day + Life}, e.type = "EXPIRE" => e.points <= 0 /\ Covered(Noted(s, e), day)
  PROVE  AccountIs([points |-> acc.points + e.points, lifetime |-> acc.lifetime + AtLeastZero(e.points)], Noted(s, e), day)
<1> DEFINE a == [points |-> acc.points + e.points, lifetime |-> acc.lifetime + AtLeastZero(e.points)]
<1>1. /\ s \in Seq(EntryRows) /\ LedgerHolds(s, day) /\ acc.points \in Nat /\ acc.lifetime \in Nat /\ e.points \in Int
      /\ acc.points = Total(s, EntryRows) /\ acc.lifetime = Total(s, Grants)
  BY DEF AccountIs, LedgerHolds, EntryRows
<1>2. a.points = acc.points + e.points /\ a.lifetime = acc.lifetime + AtLeastZero(e.points) /\ a \in [points : Nat, lifetime : Nat]
  BY <1>1 DEF AtLeastZero
<1> HIDE DEF a
<1>3. LedgerHolds(Noted(s, e), day)
  BY <1>1, NotedLedger
<1>4. Total(Noted(s, e), EntryRows) = Total(s, EntryRows) + e.points
  BY <1>1, NotedTotal
<1>5. Total(Noted(s, e), Grants) = Total(s, Grants) + AtLeastZero(e.points)
  <2>1. Total(Noted(s, e), Grants) = Total(s, Grants) + (IF e \in Grants THEN e.points ELSE 0)
    BY <1>1, NotedTotal
  <2>2. (IF e \in Grants THEN e.points ELSE 0) = AtLeastZero(e.points)
    BY <1>1 DEF Grants, AtLeastZero
  <2> QED BY <2>1, <2>2
<1>6. AccountIs(a, Noted(s, e), day)
  BY <1>1, <1>2, <1>3, <1>4, <1>5 DEF AccountIs
<1> QED BY <1>6 DEF a

\* What an entry changes of what was earned and refunded.
Effects(s, e, t) ==
  \A x : /\ Total(s, EarnedBy(x)) \in Int /\ Total(s, RefundsOf(x)) \in Int
         /\ Total(t, EarnedBy(x)) = Total(s, EarnedBy(x)) + (IF e.type = "EARN" /\ e.of = x THEN e.points ELSE 0)
         /\ Total(t, RefundsOf(x)) = Total(s, RefundsOf(x)) + (IF e.type = "REFUND" /\ e.of = x THEN e.points ELSE 0)

LEMMA EntryEffects ==
  ASSUME NEW s \in Seq(EntryRows), NEW e \in EntryRows
  PROVE  Effects(s, e, Noted(s, e))
<1> SUFFICES ASSUME NEW x
             PROVE  /\ Total(s, EarnedBy(x)) \in Int /\ Total(s, RefundsOf(x)) \in Int
                    /\ Total(Noted(s, e), EarnedBy(x)) =
                         Total(s, EarnedBy(x)) + (IF e.type = "EARN" /\ e.of = x THEN e.points ELSE 0)
                    /\ Total(Noted(s, e), RefundsOf(x)) =
                         Total(s, RefundsOf(x)) + (IF e.type = "REFUND" /\ e.of = x THEN e.points ELSE 0)
  BY DEF Effects
<1>1. Total(s, EarnedBy(x)) \in Int /\ Total(s, RefundsOf(x)) \in Int
  BY LedgerFacts
<1>2. e \in EarnedBy(x) <=> e.type = "EARN" /\ e.of = x
  BY DEF EarnedBy
<1>3. e \in RefundsOf(x) <=> e.type = "REFUND" /\ e.of = x
  BY DEF RefundsOf
<1> QED BY <1>1, <1>2, <1>3, NotedTotal

\* A step that notes one entry.
LEMMA EntryStep ==
  ASSUME PointsIInv, NEW e \in EntryRows, account.points + e.points >= 0, e.expires \in {0, today + Life},
         e.type = "EXPIRE" => e.points <= 0 /\ Covered(entries', today), entries' = Noted(entries, e), today' = today,
         account' = [points |-> account.points + e.points, lifetime |-> account.lifetime + AtLeastZero(e.points)]
  PROVE  AccountIs(account, entries, today)' /\ Effects(entries, e, entries')
<1>1. AccountIs(account, entries, today) /\ today \in Nat
  BY LoyaltyAssumption DEF PointsIInv, PointsTypeOK
<1>2. entries \in Seq(EntryRows)
  BY <1>1 DEF AccountIs, LedgerHolds
<1> QED BY <1>1, <1>2, AccountTakes, EntryEffects

LEMMA DebitStep ==
  ASSUME PointsIInv, NEW type \in {"REFUND", "EXPIRE"}, NEW n \in Nat, n <= account.points,
         NEW of \in Purchases \cup SaleReturns \cup {Unsold}, Debited(type, n, of), today' = today,
         type = "EXPIRE" => Covered(entries', today)
  PROVE  /\ AccountIs(account, entries, today)'
         /\ Effects(entries, Entry(type, -n, of, 0, account.points - n), entries')
         /\ Entry(type, -n, of, 0, account.points - n) \in EntryRows
<1> DEFINE e == Entry(type, -n, of, 0, account.points - n)
<1>1. account \in [points : Nat, lifetime : Nat] /\ today \in Nat /\ Life \in Nat
  BY LoyaltyAssumption DEF PointsIInv, PointsTypeOK
<1>2. e \in EntryRows /\ e.type = type /\ e.points = -n /\ e.of = of /\ e.expires = 0
  <2>1. -n \in Int /\ account.points - n \in Nat /\ 0 \in Nat /\ type \in {"EARN", "REDEEM", "ADJUSTMENT", "REFUND", "EXPIRE"}
    BY <1>1
  <2> QED BY <2>1 DEF Entry, EntryRows
<1>3. entries' = Noted(entries, e)
  BY DEF Debited, Entered
<1> HIDE DEF e
<1>4. account' = [points |-> account.points + e.points, lifetime |-> account.lifetime + AtLeastZero(e.points)]
  <2>1. account' = [points |-> account.points - n, lifetime |-> account.lifetime]
    BY <1>1 DEF Debited
  <2>2. account.points - n = account.points + e.points /\ account.lifetime = account.lifetime + AtLeastZero(e.points)
    BY <1>1, <1>2 DEF AtLeastZero
  <2> QED BY <2>1, <2>2
<1>5. account.points + e.points >= 0 /\ e.expires \in {0, today + Life} /\ (e.type = "EXPIRE" => e.points <= 0 /\ Covered(entries', today))
  BY <1>1, <1>2
<1>6. AccountIs(account, entries, today)' /\ Effects(entries, e, entries')
  BY <1>2, <1>3, <1>4, <1>5, EntryStep
<1> QED BY <1>2, <1>6 DEF e

\* What the module adds up, in these terms.
LEMMA PointsAre ==
  ASSUME entries \in Seq(EntryRows)
  PROVE  /\ \A x : Earned(x) = Total(entries, EarnedBy(x)) /\ PointsOf(OfType("REFUND", x)) = Total(entries, RefundsOf(x))
         /\ PointsOf(DOMAIN entries) = Total(entries, EntryRows)
         /\ PointsOf({i \in DOMAIN entries : entries[i].points > 0}) = Total(entries, Grants)
         /\ PointsOf({i \in DOMAIN entries : entries[i].type = "EXPIRE"}) = Total(entries, Expiries)
         /\ PointsOf({i \in DOMAIN entries : Lapsed(i)}) = Total(entries, LapsedBy(today))
         /\ \A X : PointsOf({i \in DOMAIN entries : \E r \in X : i \in OfType("REFUND", r)}) = Total(entries, RefundsOfAny(X))
<1>1. \A i \in DOMAIN entries : entries[i] \in EntryRows
  BY LedgerFacts
<1>2. \A F : PointsOf(Among(entries, F)) = Total(entries, F)
  BY DEF PointsOf, Moved, Total, PointsIn
<1>3. \A x : OfType("EARN", x) = Among(entries, EarnedBy(x)) /\ OfType("REFUND", x) = Among(entries, RefundsOf(x))
  BY <1>1 DEF OfType, Among, EarnedBy, RefundsOf
<1>4. /\ DOMAIN entries = Among(entries, EntryRows)
      /\ {i \in DOMAIN entries : entries[i].points > 0} = Among(entries, Grants)
      /\ {i \in DOMAIN entries : entries[i].type = "EXPIRE"} = Among(entries, Expiries)
      /\ {i \in DOMAIN entries : Lapsed(i)} = Among(entries, LapsedBy(today))
  BY <1>1 DEF Among, Grants, Expiries, LapsedBy, Lapsed
<1>5. \A X : {i \in DOMAIN entries : \E r \in X : i \in OfType("REFUND", r)} = Among(entries, RefundsOfAny(X))
  BY <1>1 DEF OfType, Among, RefundsOfAny
<1>6. \A x : Earned(x) = PointsOf(OfType("EARN", x))
  BY DEF Earned
<1> QED BY <1>2, <1>3, <1>4, <1>5, <1>6

\* The parts of the invariant that look at entries and bills.
EntriesFit == ParcelsCovered /\ TicketsEarned /\ RefundsFit

\* What sales know of their returns: whatever keeps it keeps their parts.
SameReturns(t) ==
  /\ UnitsBack(t)' = UnitsBack(t) /\ ValueBack(t)' = ValueBack(t) /\ Asked(t)' = Asked(t)
  /\ \A r \in Asked(t) : sreturn'[r].quantity = sreturn[r].quantity /\ sreturn'[r].amount = sreturn[r].amount

LEMMA PartsStay ==
  ASSUME NEW t, SameReturns(t), bill'[t] = bill[t], PartsFit(t) PROVE PartsFit(t)'
<1>1. \A q : RefundOf(t, q)' = RefundOf(t, q)
  BY DEF RefundOf, SameReturns
<1> QED BY <1>1 DEF PartsFit, SameReturns

\* Steps that move no return to or from the ones that count.
SameView ==
  \A r \in SaleReturns :
    /\ sreturn'[r].ticket = sreturn[r].ticket /\ sreturn'[r].quantity = sreturn[r].quantity
    /\ sreturn'[r].amount = sreturn[r].amount
    /\ sreturn'[r].status = "ASKED" <=> sreturn[r].status = "ASKED"
    /\ sreturn'[r].status \in {"REQUESTED", "COMPLETED"} <=> sreturn[r].status \in {"REQUESTED", "COMPLETED"}

LEMMA ViewIsSame == SameView => \A t : SameReturns(t)
<1> SUFFICES ASSUME SameView, NEW t PROVE SameReturns(t)
  OBVIOUS
<1>1. Quantity' = Quantity /\ Amount' = Amount
  BY DEF SameView, Quantity, Amount
<1>2. Standing(t)' = Standing(t) /\ Asked(t)' = Asked(t)
  BY DEF SameView, Standing, Asked
<1>3. \A r \in Asked(t) : sreturn'[r].quantity = sreturn[r].quantity /\ sreturn'[r].amount = sreturn[r].amount
  BY DEF SameView, Asked
<1> QED BY <1>1, <1>2, <1>3 DEF SameReturns, UnitsBack, ValueBack

LEMMA PartsUnchanged ==
  ASSUME PointsIInv, overlapped' = overlapped, \A t \in Tickets : Bought(t)' => Bought(t) /\ bill'[t] = bill[t], SameView
  PROVE  SalesFit'
BY ViewIsSame, PartsStay DEF SalesFit, PointsIInv

LEMMA ReturnsUnchanged ==
  ASSUME PointsIInv, \A p : Bought(p) => Bought(p)',
         \A r \in SaleReturns : /\ sreturn'[r].ticket = sreturn[r].ticket /\ sreturn'[r].quantity = sreturn[r].quantity
                                /\ sreturn'[r].status # "NONE" => sreturn[r].status # "NONE"
  PROVE  ReturnsOfSales'
BY DEF PointsIInv, ReturnsOfSales

\* Entries that earn nothing and refund nothing leave the rest as it was.
LEMMA EntriesUnchanged ==
  ASSUME PointsIInv, NEW e \in EntryRows, e.type \notin {"EARN", "REFUND"}, Effects(entries, e, entries'),
         bill' = bill, sreturn' = sreturn
  PROVE  EntriesFit'
<1>1. \A x : Total(entries', EarnedBy(x)) = Total(entries, EarnedBy(x)) /\ Total(entries', RefundsOf(x)) = Total(entries, RefundsOf(x))
  BY DEF Effects
<1> QED BY <1>1 DEF PointsIInv, EntriesFit, ParcelsCovered, TicketsEarned, RefundsFit, Bought

\* The types, once those of what a step writes are known.
ReturnRows == [status : {"NONE", "ASKED", "REQUESTED", "COMPLETED"}, ticket : Tickets \cup {Unsold},
               quantity : Nat, amount : Nat, inspection : {"NONE", "OPEN", "PASSED", "REJECTED"}]

LEMMA TypesFollow ==
  ASSUME PointsIInv, AccountIs(account, entries, today)', today' \in 0..LastToday,
         DOMAIN bill' \in Baskets, \A p \in DOMAIN bill' : bill'[p] \in Nat \cup {Unsold},
         sreturn' \in [SaleReturns -> ReturnRows],
         overlapped' \subseteq Tickets, giveBacks' \in [Parcels -> Nat]
  PROVE  PointsTypeOK'
BY DEF PointsTypeOK, AccountIs, LedgerHolds, EntryRows, ReturnRows

LEMMA NextDayKeeps == ASSUME PointsIInv, DayPasses PROVE PointsIInv'
<1>1. today \in Nat /\ today' = today + 1 /\ today < LastToday /\ today' \in 0..LastToday
  BY LoyaltyAssumption DEF PointsIInv, PointsTypeOK, DayPasses
<1>2. UNCHANGED <<bill, account, entries, sreturn, overlapped, giveBacks>>
  BY DEF DayPasses, returnVars
<1>3. AccountIs(account, entries, today)'
  BY <1>1, <1>2, NextDayLedger DEF PointsIInv, AccountIs
<1>4. PointsTypeOK'
  BY <1>1, <1>2 DEF PointsIInv, PointsTypeOK
<1>5. SalesFit'
  BY <1>2, PartsUnchanged DEF Bought, SameView
<1>6. ReturnsOfSales' /\ EntriesFit'
  BY <1>2 DEF PointsIInv, ReturnsOfSales, EntriesFit, ParcelsCovered, TicketsEarned, RefundsFit, Bought
<1> QED BY <1>3, <1>4, <1>5, <1>6 DEF PointsIInv, EntriesFit

LEMMA ExpireKeeps == ASSUME PointsIInv, ExpirePoints PROVE PointsIInv'
<1> DEFINE A == {i \in DOMAIN entries : Lapsed(i)}
           n == Least(SumFunctionOnSet(Leftover, A), account.points)
<1>1. n > 0 /\ Debited("EXPIRE", n, Unsold) /\ UNCHANGED <<today, bill, sreturn, overlapped, giveBacks>>
  BY DEF ExpirePoints, returnVars
<1>2. PointsTypeOK /\ LedgerHolds(entries, today) /\ entries \in Seq(EntryRows) /\ account.points \in Nat /\ account.lifetime \in Nat
      /\ today \in Nat
  BY LoyaltyAssumption DEF PointsIInv, PointsTypeOK, AccountIs, LedgerHolds
<1>3. A = Among(entries, LapsedBy(today))
  <2>1. \A i \in DOMAIN entries : entries[i] \in EntryRows
    BY <1>2, LedgerFacts
  <2> QED BY <2>1 DEF Among, LapsedBy, Lapsed
<1>4. Fifo(entries, Leftover, Len(entries))
  BY <1>2, LeftoverIsFifo DEF LedgerHolds
<1>5. SumFunctionOnSet(Leftover, A) \in Int
  <2>1. Leftover \in [1..Len(entries) -> Nat]
    BY <1>4 DEF Fifo
  <2>2. IsFiniteSet(A) /\ A \in SUBSET (1..Len(entries))
    BY <1>2, <1>3, LedgerFacts
  <2>3. \A i \in A : Leftover[i] \in Int
    BY <2>1, <2>2
  <2> HIDE DEF A
  <2> QED BY <2>2, <2>3, SumType
<1>6. n \in Nat /\ n <= account.points /\ n <= SumFunctionOnSet(Leftover, Among(entries, LapsedBy(today)))
  <2> HIDE DEF A
  <2> QED BY <1>1, <1>2, <1>3, <1>5 DEF Least
<1> DEFINE e == Entry("EXPIRE", -n, Unsold, 0, account.points - n)
<1> HIDE DEF n
<1>7. e \in EntryRows /\ e.type = "EXPIRE" /\ e.points = -n /\ entries' = Noted(entries, e)
  <2>1. account.points - n \in Nat /\ -n \in Int
    BY <1>2, <1>6
  <2> QED BY <1>1, <2>1 DEF Entry, EntryRows, Debited, Entered
<1>8. Covered(Noted(entries, e), today)
  <2>1. e.points < 0 /\ -e.points <= SumFunctionOnSet(Leftover, Among(entries, LapsedBy(today)))
    BY <1>1, <1>6, <1>7
  <2> HIDE DEF e
  <2> QED BY <1>2, <1>4, <1>7, <2>1, ExpiryCovered
<1>9. AccountIs(account, entries, today)' /\ Effects(entries, e, entries')
  <2>1. Covered(entries', today)
    BY <1>7, <1>8
  <2> QED BY <1>1, <1>6, <2>1, DebitStep
<1> HIDE DEF e
<1>10. EntriesFit'
  <2>1. e.type \notin {"EARN", "REFUND"}
    BY <1>7
  <2> QED BY <1>1, <1>7, <1>9, <2>1, EntriesUnchanged
<1>11. PointsTypeOK'
  <2>1. today' \in 0..LastToday /\ DOMAIN bill' \in Baskets /\ \A p \in DOMAIN bill' : bill'[p] \in Nat \cup {Unsold}
    BY <1>1, <1>2 DEF PointsTypeOK
  <2> QED BY <1>1, <1>2, <1>9, <2>1, TypesFollow DEF PointsTypeOK, ReturnRows
<1>12. SalesFit' /\ ReturnsOfSales'
  BY <1>1, PartsUnchanged, ReturnsUnchanged DEF Bought, SameView
<1> QED BY <1>9, <1>10, <1>11, <1>12 DEF PointsIInv, EntriesFit

LEMMA HandKeeps == ASSUME PointsIInv, NEW n \in Manual, EnterByHand(n) PROVE PointsIInv'
<1> DEFINE e == Entry("ADJUSTMENT", n, Unsold, 0, account.points + n)
<1>1. /\ account.points + n >= 0 /\ entries' = Noted(entries, e)
      /\ account' = [points |-> account.points + n, lifetime |-> account.lifetime + AtLeastZero(n)]
      /\ UNCHANGED <<today, bill, sreturn, overlapped, giveBacks>>
  BY DEF EnterByHand, Entered, returnVars
<1>2. PointsTypeOK /\ account.points \in Nat /\ n \in Int
  BY LoyaltyAssumption DEF PointsIInv, PointsTypeOK
<1>3. e \in EntryRows /\ e.type = "ADJUSTMENT" /\ e.points = n /\ e.expires = 0
  <2>1. account.points + n \in Nat
    BY <1>1, <1>2
  <2> QED BY <1>2, <2>1 DEF Entry, EntryRows
<1> HIDE DEF e
<1>4. AccountIs(account, entries, today)' /\ Effects(entries, e, entries')
  <2>1. account.points + e.points >= 0 /\ e.expires \in {0, today + Life} /\ e.type # "EXPIRE"
    BY <1>1, <1>3
  <2>2. account' = [points |-> account.points + e.points, lifetime |-> account.lifetime + AtLeastZero(e.points)]
    BY <1>1, <1>3
  <2> QED BY <1>1, <1>3, <2>1, <2>2, EntryStep
<1>5. EntriesFit'
  BY <1>1, <1>3, <1>4, EntriesUnchanged
<1>6. PointsTypeOK'
  <2>1. today' \in 0..LastToday /\ DOMAIN bill' \in Baskets /\ \A p \in DOMAIN bill' : bill'[p] \in Nat \cup {Unsold}
    BY <1>1, <1>2 DEF PointsTypeOK
  <2> QED BY <1>1, <1>2, <1>4, <2>1, TypesFollow DEF PointsTypeOK, ReturnRows
<1>7. SalesFit' /\ ReturnsOfSales'
  BY <1>1, PartsUnchanged, ReturnsUnchanged DEF Bought, SameView
<1> QED BY <1>4, <1>5, <1>6, <1>7 DEF PointsIInv, EntriesFit

LEMMA DivBounds ==
  ASSUME NEW x \in Nat, NEW y \in Nat \ {0}
  PROVE  x \div y \in Nat /\ y * (x \div y) <= x /\ x < y * (x \div y) + y
OBVIOUS

LEMMA WorthIs == \A amount \in Nat : Worth(amount) \in Nat /\ Rate * Worth(amount) <= amount /\ amount < Rate * Worth(amount) + Rate
BY DivBounds, LoyaltyAssumption DEF Worth

LEMMA DeliverKeeps ==
  ASSUME PointsIInv, NEW p \in DOMAIN bill \cap Parcels, DeliverParcel(p) PROVE PointsIInv'
<1> DEFINE n == Worth(Price[p])
           x == IF Life = 0 THEN 0 ELSE today + Life
           e == Entry("EARN", n, p, x, account.points + n)
<1>1. PointsTypeOK /\ account.points \in Nat /\ account.lifetime \in Nat /\ today \in Nat /\ Life \in Nat /\ Price[p] \in Nat
      /\ p \in Purchases /\ p \notin Tickets /\ p \notin SaleReturns
  BY LoyaltyAssumption DEF PointsIInv, PointsTypeOK, Purchases
<1>2. n \in Nat
  BY <1>1, WorthIs
<1>3. /\ bill[p] = Unsold /\ bill' = [bill EXCEPT ![p] = Price[p]] /\ entries' = Noted(entries, e)
      /\ account' = [points |-> account.points + n, lifetime |-> account.lifetime + n]
      /\ UNCHANGED <<today, sreturn, overlapped, giveBacks>>
  BY DEF DeliverParcel, Entered, returnVars
<1> HIDE DEF n
<1>4. e \in EntryRows /\ e.type = "EARN" /\ e.points = n /\ e.of = p /\ e.expires \in {0, today + Life}
  <2>1. account.points + n \in Nat /\ x \in Nat /\ x \in {0, today + Life}
    BY <1>1, <1>2
  <2> HIDE DEF x
  <2> QED BY <1>1, <1>2, <2>1 DEF Entry, EntryRows
<1> HIDE DEF e
<1>5. AccountIs(account, entries, today)' /\ Effects(entries, e, entries')
  <2>1. account.points + e.points >= 0 /\ e.type # "EXPIRE"
    BY <1>1, <1>2, <1>4
  <2>2. account' = [points |-> account.points + e.points, lifetime |-> account.lifetime + AtLeastZero(e.points)]
    <3>1. AtLeastZero(n) = n
      BY <1>2 DEF AtLeastZero
    <3> QED BY <1>3, <1>4, <3>1
  <2> QED BY <1>3, <1>4, <2>1, <2>2, EntryStep
<1>6. /\ DOMAIN bill' = DOMAIN bill /\ bill'[p] = Price[p] /\ \A q : q # p => (q \in DOMAIN bill => bill'[q] = bill[q])
  BY <1>1, <1>3 DEF PointsTypeOK
<1>7. \A q : Bought(q) => Bought(q)' /\ q # p
  BY <1>3, <1>6 DEF Bought
<1>8. \A t \in Tickets : (Bought(t)' <=> Bought(t)) /\ (Bought(t) => bill'[t] = bill[t])
  BY <1>1, <1>6 DEF Bought
<1>9. EntriesFit'
  <2>1. \A y : /\ Total(entries, EarnedBy(y)) \in Int /\ Total(entries, RefundsOf(y)) \in Int
               /\ Total(entries', EarnedBy(y)) = Total(entries, EarnedBy(y)) + (IF y = p THEN n ELSE 0)
               /\ Total(entries', RefundsOf(y)) = Total(entries, RefundsOf(y))
    BY <1>4, <1>5 DEF Effects
  <2>2. ParcelsCovered'
    <3> SUFFICES ASSUME NEW y \in Parcels PROVE Total(entries', EarnedBy(y)) + Total(entries', RefundsOf(y)) >= 0
      BY DEF ParcelsCovered
    <3>1. Total(entries, EarnedBy(y)) + Total(entries, RefundsOf(y)) >= 0
      BY DEF PointsIInv, ParcelsCovered
    <3> QED BY <1>2, <2>1, <3>1
  <2>3. TicketsEarned'
    <3> SUFFICES ASSUME NEW t \in Tickets
                 PROVE  Total(entries', EarnedBy(t)) = IF Bought(t)' THEN Worth(bill'[t]) ELSE 0
      BY DEF TicketsEarned, Worth
    <3>1. Total(entries, EarnedBy(t)) = IF Bought(t) THEN Worth(bill[t]) ELSE 0
      BY DEF PointsIInv, TicketsEarned
    <3>2. Total(entries', EarnedBy(t)) = Total(entries, EarnedBy(t))
      BY <1>1, <2>1
    <3> QED BY <1>8, <3>1, <3>2
  <2>4. RefundsFit'
    BY <1>3, <2>1 DEF PointsIInv, RefundsFit
  <2> QED BY <2>2, <2>3, <2>4 DEF EntriesFit
<1>10. PointsTypeOK'
  <2>1. today' \in 0..LastToday /\ DOMAIN bill' \in Baskets /\ \A q \in DOMAIN bill' : bill'[q] \in Nat \cup {Unsold}
    BY <1>1, <1>3, <1>6 DEF PointsTypeOK
  <2> QED BY <1>1, <1>3, <1>5, <2>1, TypesFollow DEF PointsTypeOK, ReturnRows
<1>11. SalesFit' /\ ReturnsOfSales'
  BY <1>3, <1>7, <1>8, PartsUnchanged, ReturnsUnchanged DEF SameView
<1> QED BY <1>5, <1>9, <1>10, <1>11 DEF PointsIInv, EntriesFit

LEMMA ParcelReturnKeeps ==
  ASSUME PointsIInv, NEW p \in DOMAIN bill \cap Parcels, NEW amount \in 1..Price[p], ConfirmParcelReturn(p, amount)
  PROVE  PointsIInv'
<1> DEFINE n == Least(Worth(amount), Least(Revocable(p), account.points))
           e == Entry("REFUND", -n, p, 0, account.points - n)
           E == Total(entries, EarnedBy(p))
           R == Total(entries, RefundsOf(p))
<1>1. PointsTypeOK /\ account.points \in Nat /\ today \in Nat /\ amount \in Nat
      /\ p \in Purchases /\ p \notin Tickets /\ p \notin SaleReturns
  BY LoyaltyAssumption DEF PointsIInv, PointsTypeOK, Purchases
<1>2. Debited("REFUND", n, p) /\ giveBacks' = [giveBacks EXCEPT ![p] = @ + amount] /\ UNCHANGED <<today, bill, sreturn, overlapped>>
  BY DEF ConfirmParcelReturn
<1>3. Revocable(p) = AtLeastZero(E + R) /\ E \in Int /\ R \in Int /\ E + R >= 0
  <2>1. entries \in Seq(EntryRows)
    BY DEF PointsIInv, AccountIs, LedgerHolds
  <2>2. Earned(p) = E /\ PointsOf(OfType("REFUND", p)) = R
    BY <2>1, PointsAre
  <2> QED BY <2>1, <2>2, LedgerFacts DEF Revocable, PointsIInv, ParcelsCovered
<1>4. n \in Nat /\ n <= account.points /\ n <= E + R
  <2>1. Worth(amount) \in Nat
    BY <1>1, WorthIs
  <2> HIDE DEF E, R
  <2> QED BY <1>1, <1>3, <2>1 DEF Least, AtLeastZero
<1> HIDE DEF n
<1>5. AccountIs(account, entries, today)' /\ Effects(entries, e, entries') /\ e.type = "REFUND" /\ e.of = p /\ e.points = -n
  <2>1. e.type = "REFUND" /\ e.of = p /\ e.points = -n
    BY DEF Entry
  <2> QED BY <1>1, <1>2, <1>4, <2>1, DebitStep
<1> HIDE DEF e
<1>6. EntriesFit'
  <2>1. \A y : /\ Total(entries, EarnedBy(y)) \in Int /\ Total(entries, RefundsOf(y)) \in Int
               /\ Total(entries', EarnedBy(y)) = Total(entries, EarnedBy(y))
               /\ Total(entries', RefundsOf(y)) = Total(entries, RefundsOf(y)) + (IF y = p THEN -n ELSE 0)
    BY <1>5 DEF Effects
  <2>2. ParcelsCovered'
    <3> SUFFICES ASSUME NEW y \in Parcels PROVE Total(entries', EarnedBy(y)) + Total(entries', RefundsOf(y)) >= 0
      BY DEF ParcelsCovered
    <3>1. Total(entries, EarnedBy(y)) + Total(entries, RefundsOf(y)) >= 0
      BY DEF PointsIInv, ParcelsCovered
    <3> QED BY <1>4, <2>1, <3>1
  <2>3. TicketsEarned'
    BY <1>2, <2>1 DEF PointsIInv, TicketsEarned, Bought
  <2>4. RefundsFit'
    <3>1. \A r \in SaleReturns : r # p
      BY <1>1
    <3>2. \A r \in SaleReturns : Total(entries', RefundsOf(r)) = Total(entries, RefundsOf(r))
      BY <2>1, <3>1
    <3> QED BY <1>2, <3>2 DEF PointsIInv, RefundsFit
  <2> QED BY <2>2, <2>3, <2>4 DEF EntriesFit
<1>7. PointsTypeOK'
  <2>1. today' \in 0..LastToday /\ DOMAIN bill' \in Baskets /\ \A q \in DOMAIN bill' : bill'[q] \in Nat \cup {Unsold}
    BY <1>1, <1>2 DEF PointsTypeOK
  <2>2. giveBacks' \in [Parcels -> Nat]
    <3>1. giveBacks \in [Parcels -> Nat]
      BY <1>1 DEF PointsTypeOK
    <3> QED BY <1>1, <1>2, <3>1
  <2> QED BY <1>1, <1>2, <1>5, <2>1, <2>2, TypesFollow DEF PointsTypeOK, ReturnRows
<1>8. SalesFit' /\ ReturnsOfSales'
  BY <1>2, PartsUnchanged, ReturnsUnchanged DEF Bought, SameView
<1> QED BY <1>5, <1>6, <1>7, <1>8 DEF PointsIInv, EntriesFit

LEMMA SellKeepsPoints ==
  ASSUME PointsIInv, NEW t \in DOMAIN bill \cap Tickets, NEW redeem \in 0..account.points, SellTicket(t, redeem)
  PROVE  PointsIInv'
<1> DEFINE total == Price[t] - redeem
           n == Worth(total)
           kept == IF redeem > 0 THEN account.points - redeem ELSE 0
           e == Entry("REDEEM", -redeem, t, 0, kept)
           f == Entry("EARN", n, t, 0, kept + n)
           s == Noted(entries, e)
           a == [points |-> account.points + e.points, lifetime |-> account.lifetime + AtLeastZero(e.points)]
<1>1. /\ PointsTypeOK /\ account \in [points : Nat, lifetime : Nat] /\ account.points \in Nat /\ account.lifetime \in Nat
      /\ today \in Nat /\ Life \in Nat /\ Price[t] \in Nat
      /\ t \in Purchases /\ t \notin Parcels /\ t \notin SaleReturns /\ redeem \in Nat /\ redeem <= account.points
  <2>1. PointsTypeOK /\ account \in [points : Nat, lifetime : Nat] /\ today \in Nat
    BY LoyaltyAssumption DEF PointsIInv, PointsTypeOK
  <2> QED BY <2>1, LoyaltyAssumption DEF Purchases
<1>2. /\ bill[t] = Unsold /\ redeem <= Price[t] /\ bill' = [bill EXCEPT ![t] = total]
      /\ account' = [points |-> account.points - redeem + n, lifetime |-> account.lifetime + n]
      /\ entries' = Noted(s, f) /\ UNCHANGED <<today, sreturn, overlapped, giveBacks>>
  BY DEF SellTicket, returnVars
<1>3. total \in Nat /\ n \in Nat /\ kept \in Nat
  <2>1. total \in Nat /\ kept \in Nat
    BY <1>1, <1>2
  <2> HIDE DEF total
  <2> QED BY <2>1, WorthIs
<1> HIDE DEF total, n, kept
<1>4. e \in EntryRows /\ e.type = "REDEEM" /\ e.points = -redeem /\ e.expires = 0
  <2>1. -redeem \in Int
    BY <1>1
  <2> QED BY <1>1, <1>3, <2>1 DEF Entry, EntryRows
<1>5. f \in EntryRows /\ f.type = "EARN" /\ f.points = n /\ f.expires = 0 /\ f.of = t
  <2>1. kept + n \in Nat
    BY <1>3
  <2> QED BY <1>1, <1>3, <2>1 DEF Entry, EntryRows
<1> HIDE DEF e, f
<1>6. AccountIs(account, entries, today) /\ entries \in Seq(EntryRows)
  BY DEF PointsIInv, AccountIs, LedgerHolds
<1>7. AccountIs(a, s, today) /\ Effects(entries, e, s)
  <2>1. account.points + e.points >= 0 /\ e.expires \in {0, today + Life} /\ e.type # "EXPIRE"
    BY <1>1, <1>4
  <2> QED BY <1>1, <1>4, <1>6, <2>1, AccountTakes, EntryEffects
<1>8. a.points = account.points - redeem /\ a.lifetime = account.lifetime
  <2>1. AtLeastZero(e.points) = 0
    BY <1>1, <1>4 DEF AtLeastZero
  <2> QED BY <1>1, <1>4, <2>1
<1> HIDE DEF a, s
<1>9. AccountIs(account, entries, today)' /\ Effects(s, f, entries')
  <2>1. a.points + f.points >= 0 /\ f.expires \in {0, today + Life} /\ f.type # "EXPIRE"
    BY <1>1, <1>3, <1>5, <1>8
  <2>2. s \in Seq(EntryRows)
    BY <1>7 DEF AccountIs, LedgerHolds
  <2> DEFINE b == [points |-> a.points + f.points, lifetime |-> a.lifetime + AtLeastZero(f.points)]
  <2>3. AccountIs(b, Noted(s, f), today)
    BY <1>1, <1>5, <1>7, <2>1, AccountTakes
  <2>4. account' = b
    <3>1. AtLeastZero(f.points) = n
      BY <1>3, <1>5 DEF AtLeastZero
    <3> QED BY <1>2, <1>5, <1>8, <3>1
  <2> HIDE DEF b
  <2> QED BY <1>2, <1>5, <2>2, <2>3, <2>4, EntryEffects
<1>10. DOMAIN bill' = DOMAIN bill /\ bill'[t] = total /\ \A q : q # t => (q \in DOMAIN bill => bill'[q] = bill[q])
  BY <1>1, <1>2 DEF PointsTypeOK
<1>11. ~Bought(t) /\ Bought(t)' /\ \A q : q # t => (Bought(q)' <=> Bought(q)) /\ (Bought(q) => bill'[q] = bill[q])
  <2>1. total # Unsold
    BY <1>3, LoyaltyAssumption
  <2> QED BY <1>2, <1>10, <2>1 DEF Bought
<1>12. EntriesFit'
  <2>1. \A y : /\ Total(entries, EarnedBy(y)) \in Int /\ Total(entries, RefundsOf(y)) \in Int
               /\ Total(entries', EarnedBy(y)) = Total(entries, EarnedBy(y)) + (IF y = t THEN n ELSE 0)
               /\ Total(entries', RefundsOf(y)) = Total(entries, RefundsOf(y))
    <3>1. \A y : /\ Total(entries, EarnedBy(y)) \in Int /\ Total(entries, RefundsOf(y)) \in Int
                 /\ Total(s, EarnedBy(y)) = Total(entries, EarnedBy(y)) /\ Total(s, RefundsOf(y)) = Total(entries, RefundsOf(y))
      BY <1>4, <1>7 DEF Effects
    <3>2. \A y : /\ Total(entries', EarnedBy(y)) = Total(s, EarnedBy(y)) + (IF y = t THEN n ELSE 0)
                 /\ Total(s, RefundsOf(y)) \in Int /\ Total(entries', RefundsOf(y)) = Total(s, RefundsOf(y)) + 0
      BY <1>5, <1>9 DEF Effects
    <3> QED BY <3>1, <3>2
  <2>2. ParcelsCovered'
    <3>1. \A y \in Parcels : y # t
      BY <1>1
    <3>2. \A y \in Parcels : Total(entries', EarnedBy(y)) = Total(entries, EarnedBy(y))
      BY <2>1, <3>1
    <3> QED BY <2>1, <3>2 DEF PointsIInv, ParcelsCovered
  <2>3. TicketsEarned'
    <3> SUFFICES ASSUME NEW u \in Tickets
                 PROVE  Total(entries', EarnedBy(u)) = IF Bought(u)' THEN Worth(bill'[u]) ELSE 0
      BY DEF TicketsEarned, Worth
    <3>1. Total(entries, EarnedBy(u)) = IF Bought(u) THEN Worth(bill[u]) ELSE 0
      BY DEF PointsIInv, TicketsEarned
    <3>2. CASE u = t
      BY <1>3, <1>10, <1>11, <2>1, <3>1, <3>2 DEF n
    <3>3. CASE u # t
      BY <1>11, <2>1, <3>1, <3>3
    <3> QED BY <3>2, <3>3
  <2>4. RefundsFit'
    BY <1>2, <2>1 DEF PointsIInv, RefundsFit
  <2> QED BY <2>2, <2>3, <2>4 DEF EntriesFit
<1>13. PointsTypeOK'
  <2>1. today' \in 0..LastToday /\ DOMAIN bill' \in Baskets
    BY <1>1, <1>2, <1>10 DEF PointsTypeOK
  <2>2. \A q \in DOMAIN bill' : bill'[q] \in Nat \cup {Unsold}
    BY <1>1, <1>3, <1>10 DEF PointsTypeOK
  <2> QED BY <1>1, <1>2, <1>9, <2>1, <2>2, TypesFollow DEF PointsTypeOK, ReturnRows
<1>14. SalesFit'
  <2>1. SameView
    BY <1>2 DEF SameView
  <2>2. \A r \in SaleReturns : sreturn[r].status # "NONE" => sreturn[r].ticket # t
    BY <1>11 DEF PointsIInv, ReturnsOfSales
  <2>3. Standing(t) = {} /\ Asked(t) = {}
    BY <2>2 DEF Standing, Asked
  <2>4. UnitsBack(t)' = 0 /\ ValueBack(t)' = 0 /\ Asked(t)' = {}
    <3>1. Standing(t)' = {} /\ Asked(t)' = {}
      BY <2>1, <2>3 DEF SameView, Standing, Asked
    <3> QED BY <3>1, SumEmpty DEF UnitsBack, ValueBack
  <2>5. Sold[t] \in Nat \ {0}
    BY LoyaltyAssumption
  <2>6. PartsFit(t)'
    <3>1. 0 < Sold[t] /\ 0 # Sold[t] /\ WithinParts(0, 0, total, Sold[t])
      BY <1>3, <2>5 DEF WithinParts
    <3> QED BY <1>10, <2>4, <2>5, <3>1 DEF PartsFit
  <2> SUFFICES ASSUME NEW u \in Tickets \ overlapped', Bought(u)', u # t PROVE PartsFit(u)'
    BY <2>6 DEF SalesFit
  <2>7. PartsFit(u) /\ bill'[u] = bill[u]
    BY <1>2, <1>11 DEF PointsIInv, SalesFit
  <2> QED BY <2>1, <2>7, ViewIsSame, PartsStay
<1>15. ReturnsOfSales'
  <2>1. \A q : Bought(q) => Bought(q)'
    BY <1>11
  <2> QED BY <1>2, <2>1, ReturnsUnchanged
<1> QED BY <1>9, <1>12, <1>13, <1>14, <1>15 DEF PointsIInv, EntriesFit

-----------------------------------------------------------------------------
(* The steps of a sale return.                                             *)

LEMMA RowsOfReturns ==
  ASSUME PointsIInv
  PROVE  /\ sreturn \in [SaleReturns -> ReturnRows] /\ PointsTypeOK /\ today \in Nat
         /\ \A r \in SaleReturns : sreturn[r].status \in {"NONE", "ASKED", "REQUESTED", "COMPLETED"}
                                   /\ sreturn[r].quantity \in Nat /\ sreturn[r].amount \in Nat
         /\ \A t : IsFiniteSet(Standing(t)) /\ UnitsBack(t) \in Nat /\ ValueBack(t) \in Nat
<1>1. sreturn \in [SaleReturns -> ReturnRows] /\ PointsTypeOK /\ today \in Nat
  BY LoyaltyAssumption DEF PointsIInv, PointsTypeOK, ReturnRows
<1>2. \A r \in SaleReturns : sreturn[r].status \in {"NONE", "ASKED", "REQUESTED", "COMPLETED"}
                             /\ sreturn[r].quantity \in Nat /\ sreturn[r].amount \in Nat
  BY <1>1 DEF ReturnRows
<1>3. ASSUME NEW t PROVE IsFiniteSet(Standing(t)) /\ UnitsBack(t) \in Nat /\ ValueBack(t) \in Nat
  <2>1. Standing(t) \in SUBSET SaleReturns
    BY DEF Standing
  <2>2. IsFiniteSet(Standing(t))
    BY <2>1, FS_Subset, LoyaltyAssumption
  <2>3. \A r \in Standing(t) : Quantity[r] \in Nat /\ Amount[r] \in Nat
    BY <1>2, <2>1 DEF Quantity, Amount
  <2> QED BY <2>2, <2>3, SumNat DEF UnitsBack, ValueBack
<1> QED BY <1>1, <1>2, <1>3

\* A step that notes nothing.
LEMMA AccountStays ==
  ASSUME PointsIInv, UNCHANGED <<today, bill, account, entries, giveBacks>>, overlapped' \subseteq Tickets,
         sreturn' \in [SaleReturns -> ReturnRows],
         \A r \in SaleReturns : sreturn'[r].status = "COMPLETED" => sreturn[r].status = "COMPLETED" /\ sreturn'[r].amount = sreturn[r].amount,
         \A r \in SaleReturns : sreturn[r].status = "COMPLETED" => sreturn'[r].status = "COMPLETED",
         ReturnsOfSales', SalesFit'
  PROVE  PointsIInv'
<1>1. AccountIs(account, entries, today)'
  BY DEF PointsIInv
<1>2. PointsTypeOK'
  BY DEF PointsIInv, PointsTypeOK, ReturnRows
<1>3. ParcelsCovered' /\ TicketsEarned'
  BY DEF PointsIInv, ParcelsCovered, TicketsEarned, Bought
<1>4. RefundsFit'
  BY DEF PointsIInv, RefundsFit, Worth
<1> QED BY <1>1, <1>2, <1>3, <1>4 DEF PointsIInv

LEMMA InspectionKeeps ==
  ASSUME PointsIInv, NEW r \in SaleReturns, NEW v \in {"NONE", "OPEN", "PASSED", "REJECTED"},
         sreturn' = [sreturn EXCEPT ![r].inspection = v],
         UNCHANGED <<today, bill, account, entries, overlapped, giveBacks>>
  PROVE  PointsIInv'
<1>1. sreturn \in [SaleReturns -> ReturnRows]
  BY RowsOfReturns
<1>2. sreturn' \in [SaleReturns -> ReturnRows] /\ \A q \in SaleReturns : sreturn'[q].status = sreturn[q].status
        /\ sreturn'[q].ticket = sreturn[q].ticket /\ sreturn'[q].quantity = sreturn[q].quantity /\ sreturn'[q].amount = sreturn[q].amount
  BY <1>1 DEF ReturnRows
<1>3. SalesFit' /\ ReturnsOfSales'
  BY <1>2, PartsUnchanged, ReturnsUnchanged DEF Bought, SameView
<1>4. overlapped' \subseteq Tickets
  BY DEF PointsIInv, PointsTypeOK
<1> QED BY <1>2, <1>3, <1>4, AccountStays

LEMMA ConfirmKeeps ==
  ASSUME PointsIInv, NEW r \in SaleReturns, ConfirmSaleReturn(r) PROVE PointsIInv'
<1> DEFINE n == Least(Worth(sreturn[r].amount), account.points)
           e == Entry("REFUND", -n, r, 0, account.points - n)
<1>1. /\ sreturn[r].status = "REQUESTED" /\ sreturn' = [sreturn EXCEPT ![r].status = "COMPLETED"]
      /\ Debited("REFUND", n, r) /\ UNCHANGED <<today, bill, overlapped, giveBacks>>
  BY DEF ConfirmSaleReturn
<1>2. /\ PointsTypeOK /\ account.points \in Nat /\ today \in Nat /\ sreturn \in [SaleReturns -> ReturnRows]
      /\ sreturn[r].amount \in Nat /\ r \notin Parcels /\ r \notin Tickets
  <2>1. account.points \in Nat
    BY DEF PointsIInv, PointsTypeOK
  <2> QED BY <2>1, RowsOfReturns, LoyaltyAssumption
<1>3. n \in Nat /\ n <= account.points /\ n <= Worth(sreturn[r].amount) /\ Worth(sreturn[r].amount) \in Nat
  <2>1. Worth(sreturn[r].amount) \in Nat
    BY <1>2, WorthIs
  <2> QED BY <1>2, <2>1 DEF Least
<1> HIDE DEF n
<1>4. AccountIs(account, entries, today)' /\ Effects(entries, e, entries') /\ e.type = "REFUND" /\ e.of = r /\ e.points = -n
  <2>1. e.type = "REFUND" /\ e.of = r /\ e.points = -n
    BY DEF Entry
  <2> QED BY <1>1, <1>2, <1>3, <2>1, DebitStep
<1> HIDE DEF e
<1>5. /\ sreturn' \in [SaleReturns -> ReturnRows] /\ sreturn'[r].status = "COMPLETED"
      /\ \A q \in SaleReturns : /\ q # r => sreturn'[q].status = sreturn[q].status
                                /\ sreturn'[q].ticket = sreturn[q].ticket /\ sreturn'[q].quantity = sreturn[q].quantity
                                /\ sreturn'[q].amount = sreturn[q].amount
  BY <1>1, <1>2 DEF ReturnRows
<1>6. SalesFit' /\ ReturnsOfSales'
  BY <1>1, <1>5, PartsUnchanged, ReturnsUnchanged DEF Bought, SameView
<1>7. EntriesFit'
  <2>1. \A y : /\ Total(entries, EarnedBy(y)) \in Int /\ Total(entries, RefundsOf(y)) \in Int
               /\ Total(entries', EarnedBy(y)) = Total(entries, EarnedBy(y))
               /\ Total(entries', RefundsOf(y)) = Total(entries, RefundsOf(y)) + (IF y = r THEN -n ELSE 0)
    BY <1>4 DEF Effects
  <2>2. ParcelsCovered'
    <3>1. \A y \in Parcels : y # r
      BY <1>2
    <3>2. \A y \in Parcels : Total(entries', RefundsOf(y)) = Total(entries, RefundsOf(y))
      BY <2>1, <3>1
    <3> QED BY <2>1, <3>2 DEF PointsIInv, ParcelsCovered
  <2>3. TicketsEarned'
    BY <1>1, <2>1 DEF PointsIInv, TicketsEarned, Bought
  <2>4. RefundsFit'
    <3> SUFFICES ASSUME NEW q \in SaleReturns
                 PROVE  Total(entries', RefundsOf(q)) >= IF sreturn'[q].status = "COMPLETED" THEN -Worth(sreturn'[q].amount) ELSE 0
      BY DEF RefundsFit, Worth
    <3>1. Total(entries, RefundsOf(q)) >= IF sreturn[q].status = "COMPLETED" THEN -Worth(sreturn[q].amount) ELSE 0
      BY DEF PointsIInv, RefundsFit
    <3>2. CASE q = r
      <4>1. Total(entries, RefundsOf(r)) >= 0 /\ Total(entries, RefundsOf(r)) \in Int
        BY <1>1, <2>1, <3>1, <3>2
      <4>2. Total(entries', RefundsOf(r)) = Total(entries, RefundsOf(r)) - n
        BY <1>3, <2>1
      <4>3. sreturn'[r].amount = sreturn[r].amount /\ sreturn'[r].status = "COMPLETED"
        BY <1>5
      <4>4. Total(entries', RefundsOf(r)) >= -Worth(sreturn[r].amount)
        <5> HIDE DEF n
        <5> QED BY <1>3, <4>1, <4>2
      <4> QED BY <3>2, <4>3, <4>4
    <3>3. CASE q # r
      <4>1. Total(entries', RefundsOf(q)) = Total(entries, RefundsOf(q))
        BY <2>1, <3>3
      <4> QED BY <1>5, <3>1, <3>3, <4>1
    <3> QED BY <3>2, <3>3
  <2> QED BY <2>2, <2>3, <2>4 DEF EntriesFit
<1>8. PointsTypeOK'
  <2>1. today' \in 0..LastToday /\ DOMAIN bill' \in Baskets /\ \A q \in DOMAIN bill' : bill'[q] \in Nat \cup {Unsold}
    BY <1>1, <1>2 DEF PointsTypeOK
  <2> QED BY <1>1, <1>2, <1>4, <1>5, <2>1, TypesFollow DEF PointsTypeOK
<1> QED BY <1>4, <1>6, <1>7, <1>8 DEF PointsIInv, EntriesFit

\* A part that is rounded adds at most a half for each of its units.
LEMMA PartAdded ==
  ASSUME NEW b \in Nat, NEW S \in Nat \ {0}, NEW u \in Nat, NEW v \in Nat, NEW q \in Nat \ {0}, WithinParts(v, u, b, S)
  PROVE  /\ (2 * b * q + S) \div (2 * S) \in Nat
         /\ WithinParts(v + (2 * b * q + S) \div (2 * S), u + q, b, S)
<1> DEFINE x == 2 * b * q + S
           y == 2 * S
           m == x \div y
<1>1. x \in Nat /\ y \in Nat \ {0}
  <2>1. b * q \in Nat
    OBVIOUS
  <2>2. 2 * b * q = 2 * (b * q)
    OBVIOUS
  <2> QED BY <2>1, <2>2
<1>2. m \in Nat /\ y * m <= x
  <2> HIDE DEF x, y
  <2> QED BY <1>1, DivBounds
<1>3. 2 * S * (v + m) <= 2 * b * (u + q) + S * (u + q)
  <2> HIDE DEF m
  <2>1. /\ b * u \in Nat /\ b * q \in Nat /\ S * u \in Nat /\ S * q \in Nat /\ S * v \in Nat /\ S * m \in Nat /\ S <= S * q
    <3>1. \A i, j \in Nat : i * j \in Nat
      OBVIOUS
    <3>2. S <= S * q
      <4>1. S * q = S + S * (q - 1)
        OBVIOUS
      <4>2. S * (q - 1) \in Nat
        <5>1. q - 1 \in Nat /\ S \in Nat
          OBVIOUS
        <5> QED BY ONLY <3>1, <5>1
      <4> HIDE DEF m
      <4> QED BY <4>1, <4>2
    <3> QED BY <1>2, <3>1, <3>2
  <2>2. /\ 2 * S * (v + m) = 2 * (S * v) + 2 * (S * m) /\ 2 * b * (u + q) = 2 * (b * u) + 2 * (b * q)
        /\ S * (u + q) = S * u + S * q
    BY <1>2
  <2>3. 2 * S * v = 2 * (S * v) /\ 2 * b * u = 2 * (b * u) /\ 2 * b * q = 2 * (b * q) /\ y * m = 2 * (S * m)
    BY <1>2
  <2>4. 2 * (S * v) <= 2 * (b * u) + S * u
    BY <2>3 DEF WithinParts
  <2>5. 2 * (S * m) <= 2 * (b * q) + S
    BY <1>2, <2>3
  <2> DEFINE bu == b * u
             bq == b * q
             su == S * u
             sq == S * q
             sv == S * v
             sm == S * m
  <2>6. bu \in Nat /\ bq \in Nat /\ su \in Nat /\ sq \in Nat /\ sv \in Nat /\ sm \in Nat /\ S <= sq
    BY <2>1
  <2>7. 2 * sv <= 2 * bu + su /\ 2 * sm <= 2 * bq + S
    BY <2>4, <2>5
  <2>8. 2 * S * (v + m) = 2 * sv + 2 * sm /\ 2 * b * (u + q) = 2 * bu + 2 * bq /\ S * (u + q) = su + sq
    BY <2>2
  <2> HIDE DEF bu, bq, su, sq, sv, sm
  <2>9. 2 * sv + 2 * sm <= (2 * bu + 2 * bq) + (su + sq)
    BY <2>6, <2>7
  <2> QED BY <2>8, <2>9
<1> QED BY <1>2, <1>3 DEF WithinParts

LEMMA CreateKeeps ==
  ASSUME PointsIInv, NEW r \in SaleReturns, CreateSaleReturn(r), NEW t, t = sreturn[r].ticket PROVE PointsIInv'
<1> DEFINE u == UnitsBack(t)
           v == ValueBack(t)
           q == sreturn[r].quantity
           m == sreturn[r].amount
<1>1. /\ sreturn[r].status = "ASKED" /\ sreturn' = [sreturn EXCEPT ![r].status = "REQUESTED"]
      /\ UNCHANGED <<today, bill, account, entries, overlapped, giveBacks>>
  BY DEF CreateSaleReturn
<1>2. /\ sreturn \in [SaleReturns -> ReturnRows] /\ q \in Nat /\ m \in Nat /\ u \in Nat /\ v \in Nat
      /\ \A x : IsFiniteSet(Standing(x))
  BY RowsOfReturns
<1>3. /\ sreturn' \in [SaleReturns -> ReturnRows] /\ sreturn'[r].status = "REQUESTED"
      /\ \A p \in SaleReturns : /\ p # r => sreturn'[p].status = sreturn[p].status
                                /\ sreturn'[p].ticket = sreturn[p].ticket /\ sreturn'[p].quantity = sreturn[p].quantity
                                /\ sreturn'[p].amount = sreturn[p].amount
  BY <1>1, <1>2 DEF ReturnRows
<1>4. Quantity' = Quantity /\ Amount' = Amount
  BY <1>3 DEF Quantity, Amount
<1>5. \A x : x # t => Standing(x)' = Standing(x) /\ Asked(x)' = Asked(x)
  BY <1>3 DEF Standing, Asked
<1>6. Standing(t)' = Standing(t) \cup {r} /\ r \notin Standing(t) /\ Asked(t)' = Asked(t) \ {r} /\ r \in Asked(t)
  BY <1>1, <1>3 DEF Standing, Asked
<1>7. UnitsBack(t)' = u + q /\ ValueBack(t)' = v + m
  <2> DEFINE T == Standing(t)
  <2>1. (\A x \in T \cup {r} : Quantity[x] \in Int) /\ (\A x \in T \cup {r} : Amount[x] \in Int) /\ Quantity[r] = q /\ Amount[r] = m
    <3>1. \A x \in T \cup {r} : x \in SaleReturns
      BY DEF Standing
    <3> QED BY <3>1, RowsOfReturns DEF Quantity, Amount
  <2>2. IsFiniteSet(T) /\ r \notin T
    BY <1>2, <1>6
  <2> HIDE DEF T, q, m
  <2>3. SumFunctionOnSet(Quantity, T \cup {r}) = SumFunctionOnSet(Quantity, T) + Quantity[r]
    BY <2>1, <2>2, SumAdded
  <2>4. SumFunctionOnSet(Amount, T \cup {r}) = SumFunctionOnSet(Amount, T) + Amount[r]
    BY <2>1, <2>2, SumAdded
  <2> QED BY <1>4, <1>6, <2>1, <2>3, <2>4 DEF UnitsBack, ValueBack, T
<1>8. t \in Tickets /\ Bought(t) /\ q >= 1
  BY <1>1 DEF PointsIInv, ReturnsOfSales
<1>9. SalesFit'
  <2> SUFFICES ASSUME NEW x \in Tickets \ overlapped, Bought(x) PROVE PartsFit(x)'
    BY <1>1 DEF SalesFit, Bought
  <2>1. PartsFit(x) /\ bill'[x] = bill[x] /\ bill[x] \in Nat /\ Sold[x] \in Nat \ {0}
    <3>1. bill[x] \in Nat
      BY DEF PointsIInv, PointsTypeOK, Bought
    <3> QED BY <1>1, <3>1, LoyaltyAssumption DEF PointsIInv, SalesFit
  <2>2. CASE x # t
    <3>1. \A p \in Asked(x) : p \in SaleReturns
      BY DEF Asked
    <3>2. SameReturns(x)
      BY <1>3, <1>4, <1>5, <2>2, <3>1 DEF SameReturns, UnitsBack, ValueBack
    <3> QED BY <2>1, <3>2, PartsStay
  <2>3. CASE x = t
    <3> DEFINE b == bill[t]
               S == Sold[t]
    <3>1. u + q <= S /\ m = RefundOf(t, q) /\ Asked(t) = {r} /\ (u < S => WithinParts(v, u, b, S))
      BY <1>6, <2>1, <2>3 DEF PartsFit
    <3>2. Asked(t)' = {}
      BY <1>6, <3>1
    <3>3. b \in Nat /\ S \in Nat \ {0} /\ bill'[t] = b
      BY <2>1, <2>3
    <3>4. u + q = S => v + m = b
      <4>1. u + q = S => m = b - v
        BY <3>1 DEF RefundOf
      <4> HIDE DEF u, q, S, b, v, m
      <4> QED BY <1>2, <3>3, <4>1
    <3>5. u + q < S => WithinParts(v + m, u + q, b, S)
      <4> SUFFICES ASSUME u + q < S PROVE WithinParts(v + m, u + q, b, S)
        OBVIOUS
      <4> HIDE DEF u, q, S, b, v
      <4>1. u < S /\ q \in Nat \ {0} /\ u + q # S
        BY <1>2, <1>8, <3>3
      <4>2. m = (2 * b * q + S) \div (2 * S)
        BY <3>1, <4>1 DEF RefundOf, b, S, u
      <4>3. WithinParts(v + (2 * b * q + S) \div (2 * S), u + q, b, S)
        BY <1>2, <3>1, <3>3, <4>1, PartAdded
      <4> HIDE DEF m
      <4> QED BY <4>2, <4>3
    <3> HIDE DEF u, q, b, v, m
    <3>6. PartsFit(t)'
      BY <1>7, <3>1, <3>2, <3>3, <3>4, <3>5 DEF PartsFit
    <3> QED BY <2>3, <3>6
  <2> QED BY <2>2, <2>3
<1>10. ReturnsOfSales'
  BY <1>1, <1>3, ReturnsUnchanged DEF Bought
<1>11. overlapped' \subseteq Tickets
  BY <1>1 DEF PointsIInv, PointsTypeOK
<1> QED BY <1>1, <1>3, <1>9, <1>10, <1>11, AccountStays

LEMMA AskKeepsPoints ==
  ASSUME PointsIInv, NEW r \in SaleReturns, NEW t \in DOMAIN bill \cap Tickets, NEW q \in 1..Sold[t], AskSaleReturn(r, t, q)
  PROVE  PointsIInv'
<1> DEFINE row == [status |-> "ASKED", ticket |-> t, quantity |-> q, amount |-> RefundOf(t, q), inspection |-> "NONE"]
<1>1. /\ sreturn[r].status = "NONE" /\ bill[t] # Unsold /\ UnitsBack(t) + q <= Sold[t] /\ RefundOf(t, q) >= 0
      /\ sreturn' = [sreturn EXCEPT ![r] = row] /\ UNCHANGED <<today, bill, account, entries, giveBacks>>
      /\ overlapped' = overlapped \cup {x \in {t} : \E p \in SaleReturns : sreturn[p].ticket = x /\ sreturn[p].status = "ASKED"}
  BY DEF AskSaleReturn
<1>2. /\ sreturn \in [SaleReturns -> ReturnRows] /\ PointsTypeOK /\ UnitsBack(t) \in Nat /\ ValueBack(t) \in Nat
      /\ Sold[t] \in Nat \ {0} /\ bill[t] \in Nat /\ q \in Nat \ {0}
  <2>1. bill[t] \in Nat
    BY <1>1 DEF PointsIInv, PointsTypeOK
  <2> QED BY <2>1, RowsOfReturns, LoyaltyAssumption
<1>3. RefundOf(t, q) \in Nat
  <2>1. RefundOf(t, q) \in Int
    <3>1. bill[t] - ValueBack(t) \in Int
      BY <1>2
    <3>2. (2 * bill[t] * q + Sold[t]) \div (2 * Sold[t]) \in Int
      <4>1. 2 * bill[t] * q + Sold[t] \in Nat
        <5>1. bill[t] * q \in Nat
          BY <1>2
        <5>2. 2 * bill[t] * q = 2 * (bill[t] * q)
          BY <1>2
        <5> QED BY <1>2, <5>1, <5>2
      <4>2. 2 * Sold[t] \in Nat \ {0}
        BY <1>2
      <4> QED BY <4>1, <4>2, DivBounds
    <3> QED BY <3>1, <3>2 DEF RefundOf
  <2> QED BY <1>1, <2>1
<1>4. row \in ReturnRows /\ row.status = "ASKED" /\ row.ticket = t /\ row.quantity = q /\ row.amount = RefundOf(t, q)
  BY <1>2, <1>3 DEF ReturnRows
<1> HIDE DEF row
<1>5. sreturn' \in [SaleReturns -> ReturnRows] /\ sreturn'[r] = row /\ \A p \in SaleReturns : p # r => sreturn'[p] = sreturn[p]
  BY <1>1, <1>2, <1>4
<1>6. \A x : /\ Standing(x)' = Standing(x) /\ r \notin Standing(x) /\ Standing(x) \subseteq SaleReturns
             /\ r \notin Asked(x) /\ Asked(x) \subseteq SaleReturns /\ (x # t => Asked(x)' = Asked(x))
  BY <1>1, <1>4, <1>5 DEF Standing, Asked
<1>7. Asked(t)' = Asked(t) \cup {r}
  BY <1>1, <1>4, <1>5 DEF Asked
<1>8. ASSUME NEW x PROVE UnitsBack(x)' = UnitsBack(x) /\ ValueBack(x)' = ValueBack(x)
  <2>1. IsFiniteSet(Standing(x))
    BY RowsOfReturns
  <2>2. \A p \in Standing(x) : Quantity'[p] = Quantity[p] /\ Amount'[p] = Amount[p]
    BY <1>5, <1>6 DEF Quantity, Amount
  <2>3. SumFunctionOnSet(Quantity', Standing(x)) = SumFunctionOnSet(Quantity, Standing(x))
    BY <2>1, <2>2, SumAgree
  <2>4. SumFunctionOnSet(Amount', Standing(x)) = SumFunctionOnSet(Amount, Standing(x))
    BY <2>1, <2>2, SumAgree
  <2> QED BY <1>6, <2>3, <2>4 DEF UnitsBack, ValueBack
<1>9. SalesFit'
  <2> SUFFICES ASSUME NEW x \in Tickets \ overlapped', Bought(x) PROVE PartsFit(x)'
    BY <1>1 DEF SalesFit, Bought
  <2>1. x \notin overlapped /\ PartsFit(x) /\ bill'[x] = bill[x]
    BY <1>1 DEF PointsIInv, SalesFit
  <2>2. CASE x # t
    <3>1. SameReturns(x)
      BY <1>5, <1>6, <1>8, <2>2 DEF SameReturns
    <3> QED BY <2>1, <3>1, PartsStay
  <2>3. CASE x = t
    <3>1. Asked(t) = {}
      BY <1>1, <2>3 DEF Asked
    <3>2. Asked(t)' = {r} /\ sreturn'[r].quantity = q /\ sreturn'[r].amount = RefundOf(t, q)
      BY <1>4, <1>5, <1>7, <3>1
    <3>3. UnitsBack(t)' = UnitsBack(t) /\ ValueBack(t)' = ValueBack(t) /\ bill'[t] = bill[t]
      BY <1>8, <2>1, <2>3
    <3>4. RefundOf(t, q)' = RefundOf(t, q)
      BY <3>3 DEF RefundOf
    <3> QED BY <1>1, <2>1, <2>3, <3>2, <3>3, <3>4 DEF PartsFit
  <2> QED BY <2>2, <2>3
<1>10. ReturnsOfSales'
  <2>1. Bought(t) /\ \A p : Bought(p)' <=> Bought(p)
    BY <1>1 DEF Bought
  <2> SUFFICES ASSUME NEW p \in SaleReturns, sreturn'[p].status # "NONE"
               PROVE  sreturn'[p].ticket \in Tickets /\ Bought(sreturn[p].ticket)' /\ sreturn'[p].quantity >= 1
    BY DEF ReturnsOfSales, Bought
  <2>2. CASE p = r
    BY <1>2, <1>4, <1>5, <2>1, <2>2
  <2>3. CASE p # r
    BY <1>5, <2>1, <2>3 DEF PointsIInv, ReturnsOfSales
  <2> QED BY <2>2, <2>3
<1>11. overlapped' \subseteq Tickets
  BY <1>1, <1>2 DEF PointsTypeOK
<1>12. /\ \A p \in SaleReturns : sreturn'[p].status = "COMPLETED" => sreturn[p].status = "COMPLETED" /\ sreturn'[p].amount = sreturn[p].amount
       /\ \A p \in SaleReturns : sreturn[p].status = "COMPLETED" => sreturn'[p].status = "COMPLETED"
  BY <1>1, <1>4, <1>5
<1> QED BY <1>1, <1>5, <1>9, <1>10, <1>11, <1>12, AccountStays

-----------------------------------------------------------------------------
(* What the invariant says of the points.                                  *)

LEMMA Cancelled == ASSUME NEW k \in Nat \ {0}, NEW i \in Int, NEW j \in Int, k * i < k * j PROVE i < j
<1> SUFFICES ASSUME j <= i PROVE FALSE
  OBVIOUS
<1>1. i - j \in Nat /\ k \in Nat
  OBVIOUS
<1>2. \A x, y \in Nat : x * y \in Nat
  OBVIOUS
<1>3. k * (i - j) \in Nat
  BY ONLY <1>1, <1>2
<1>4. k * i = k * j + k * (i - j) /\ k * j \in Int /\ k * i \in Int
  OBVIOUS
<1> QED BY <1>3, <1>4

\* The parts of a bill that bears their rounding are worth no more than it is.
LEMMA AmplePartsFit ==
  ASSUME NEW b \in Nat, NEW S \in Nat \ {0}, NEW u \in Nat, NEW v \in Nat, u < S, WithinParts(v, u, b, S), 2 * b >= S * (S - 1)
  PROVE  v <= b
<1> DEFINE w == S - 1 - u
<1>1. w \in Nat /\ S = w + u + 1
  OBVIOUS
<1>2. \A x, y \in Nat : x * y \in Nat
  OBVIOUS
<1>3. b * w \in Nat /\ S * w \in Nat /\ b * u \in Nat /\ S * u \in Nat /\ S * v \in Nat /\ S * b \in Nat
  <2> HIDE DEF w
  <2>1. S \in Nat
    OBVIOUS
  <2> QED BY ONLY <1>1, <1>2, <2>1, b \in Nat, u \in Nat, v \in Nat
<1>4. S * (S - 1) = S * w + S * u
  <2>1. S - 1 = w + u
    OBVIOUS
  <2> HIDE DEF w
  <2>2. S * (w + u) = S * w + S * u
    BY <1>1
  <2> QED BY <2>1, <2>2
<1>5. S * b = b * w + b * u + b
  <2> HIDE DEF w
  <2>1. (w + u + 1) * b = b * w + b * u + b
    BY <1>1
  <2> QED BY <1>1, <2>1
<1>6. 2 * (S * v) <= 2 * (b * u) + S * u
  <2>1. 2 * S * v = 2 * (S * v) /\ 2 * b * u = 2 * (b * u)
    OBVIOUS
  <2> QED BY <2>1 DEF WithinParts
<1> DEFINE bw == b * w
           sw == S * w
           bu == b * u
           su == S * u
           sv == S * v
           sb == S * b
<1>7. bw \in Nat /\ sw \in Nat /\ bu \in Nat /\ su \in Nat /\ sv \in Nat /\ sb \in Nat
  BY <1>3
<1>8. 2 * b >= sw + su /\ sb = bw + bu + b /\ 2 * sv <= 2 * bu + su
  BY <1>4, <1>5, <1>6
<1>9. sv < S * (b + 1)
  <2>1. S * (b + 1) = sb + S
    OBVIOUS
  <2> HIDE DEF bw, sw, bu, su, sv, sb, w
  <2>2. sv <= sb
    BY <1>7, <1>8
  <2> QED BY <1>7, <2>1, <2>2
<1>10. S * v < S * (b + 1)
  BY <1>9
<1> HIDE DEF bw, sw, bu, su, sv, sb, w
<1>11. v < b + 1
  <2>1. b + 1 \in Int /\ v \in Int
    OBVIOUS
  <2> QED BY <1>10, <2>1, Cancelled
<1> QED BY <1>11

WorthOfReturn == [r \in SaleReturns |-> Worth(sreturn[r].amount)]

LEMMA RefundsOfMany ==
  ASSUME PointsIInv, NEW X \in SUBSET SaleReturns
  PROVE  Total(entries, RefundsOfAny(X)) >= -SumFunctionOnSet(WorthOfReturn, X)
<1> DEFINE R(T) == Total(entries, RefundsOfAny(T))
           W(T) == SumFunctionOnSet(WorthOfReturn, T)
           Good == {T \in SUBSET SaleReturns : R(T) >= -W(T)}
<1>1. entries \in Seq(EntryRows) /\ IsFiniteSet(SaleReturns)
  BY LoyaltyAssumption DEF PointsIInv, AccountIs, LedgerHolds
<1>2. \A r \in SaleReturns : WorthOfReturn[r] \in Nat /\ Total(entries, RefundsOf(r)) >= -WorthOfReturn[r]
                             /\ Total(entries, RefundsOf(r)) \in Int
  <2> SUFFICES ASSUME NEW r \in SaleReturns
               PROVE  WorthOfReturn[r] \in Nat /\ Total(entries, RefundsOf(r)) >= -WorthOfReturn[r]
                      /\ Total(entries, RefundsOf(r)) \in Int
    OBVIOUS
  <2>1. Worth(sreturn[r].amount) \in Nat /\ WorthOfReturn[r] = Worth(sreturn[r].amount)
    BY RowsOfReturns, WorthIs DEF WorthOfReturn
  <2>2. Total(entries, RefundsOf(r)) \in Int
    BY <1>1, LedgerFacts
  <2>3. Total(entries, RefundsOf(r)) >= IF sreturn[r].status = "COMPLETED" THEN -Worth(sreturn[r].amount) ELSE 0
    BY DEF PointsIInv, RefundsFit
  <2> QED BY <2>1, <2>2, <2>3
<1>3. {} \in Good
  <2>1. Among(entries, RefundsOfAny({})) = {}
    BY DEF Among, RefundsOfAny
  <2>2. R({}) = 0
    BY <2>1, SumEmpty DEF Total
  <2>3. W({}) = 0
    BY SumEmpty
  <2> QED BY <2>2, <2>3
<1>4. ASSUME NEW T \in SUBSET SaleReturns, T # {}, \A x \in T : T \ {x} \in Good PROVE T \in Good
  <2>1. PICK c \in T : TRUE
    BY <1>4
  <2> DEFINE Q == T \ {c}
  <2>2. RefundsOfAny(T) = RefundsOfAny(Q) \cup RefundsOf(c) /\ RefundsOfAny(Q) \cap RefundsOf(c) = {}
    BY <2>1 DEF RefundsOfAny, RefundsOf
  <2>3. R(T) = R(Q) + Total(entries, RefundsOf(c)) /\ R(Q) \in Int
    <3> HIDE DEF Q
    <3> QED BY <1>1, <2>2, TotalOfBoth, LedgerFacts
  <2>4. W(T) = WorthOfReturn[c] + W(Q) /\ W(Q) \in Int
    <3>1. IsFiniteSet(T) /\ IsFiniteSet(Q) /\ Q \in SUBSET SaleReturns
      BY <1>1, FS_Subset
    <3>2. (\A x \in T : WorthOfReturn[x] \in Int) /\ \A x \in Q : WorthOfReturn[x] \in Int
      BY <1>2
    <3> QED BY <2>1, <3>1, <3>2, SumRemove, SumType
  <2>5. R(Q) >= -W(Q)
    BY <1>4, <2>1
  <2>6. c \in SaleReturns
    BY <2>1
  <2> HIDE DEF R, W, Q
  <2>7. R(T) >= -W(T)
    BY <1>2, <2>3, <2>4, <2>5, <2>6
  <2> QED BY <2>7
<1>5. \A T \in SUBSET SaleReturns : T \in Good
  <2> HIDE DEF Good
  <2> QED BY <1>1, <1>3, <1>4, SubsetInduction
<1> QED BY <1>5

LEMMA WorthOfParts ==
  ASSUME PointsIInv, NEW t, NEW b \in Nat, ValueBack(t) <= b
  PROVE  SumFunctionOnSet(WorthOfReturn, Standing(t)) <= Worth(b)
<1> DEFINE X == Standing(t)
           g == [r \in X |-> Rate * WorthOfReturn[r]]
           W == SumFunctionOnSet(WorthOfReturn, X)
<1>1. IsFiniteSet(X) /\ X \in SUBSET SaleReturns /\ ValueBack(t) \in Nat /\ Rate \in Nat \ {0} /\ Rate \in Int
  <2>1. X \in SUBSET SaleReturns
    BY DEF Standing
  <2> QED BY <2>1, RowsOfReturns, LoyaltyAssumption
<1>2. \A r \in X : WorthOfReturn[r] \in Int /\ Amount[r] \in Int /\ Rate * WorthOfReturn[r] <= Amount[r]
  <2> SUFFICES ASSUME NEW r \in X
               PROVE  WorthOfReturn[r] \in Int /\ Amount[r] \in Int /\ Rate * WorthOfReturn[r] <= Amount[r]
    OBVIOUS
  <2>1. r \in SaleReturns /\ sreturn[r].amount \in Nat
    BY <1>1, RowsOfReturns
  <2> QED BY <2>1, WorthIs DEF WorthOfReturn, Amount
<1>3. \A r \in X : g[r] = Rate * WorthOfReturn[r] /\ g[r] \in Int
  BY <1>1, <1>2
<1> HIDE DEF g, X
<1>4. SumFunctionOnSet(g, X) = Rate * W
  BY <1>1, <1>2, <1>3, SumScaled
<1>5. SumFunctionOnSet(g, X) <= SumFunctionOnSet(Amount, X)
  BY <1>1, <1>2, <1>3, SumAtMost
<1>6. SumFunctionOnSet(Amount, X) = ValueBack(t)
  BY DEF ValueBack, X
<1>7. W \in Int
  BY <1>1, <1>2, SumType
<1> HIDE DEF W
<1>8. Worth(b) \in Nat /\ b < Rate * Worth(b) + Rate
  BY WorthIs
<1>9. Rate * W < Rate * (Worth(b) + 1)
  <2>1. Rate * W \in Int /\ Rate * Worth(b) \in Int /\ Rate * (Worth(b) + 1) = Rate * Worth(b) + Rate
    BY <1>1, <1>7, <1>8
  <2>2. Rate * W <= b
    BY <1>1, <1>4, <1>5, <1>6, <2>1
  <2> QED BY <1>1, <1>8, <2>1, <2>2
<1>10. W < Worth(b) + 1
  <2>1. Worth(b) + 1 \in Int
    BY <1>8
  <2> QED BY <1>1, <1>7, <1>9, <2>1, Cancelled
<1>11. W <= Worth(b)
  BY <1>7, <1>8, <1>10
<1> QED BY <1>11 DEF W, X

LEMMA PointsFollow == PointsIInv => PointsAreTrue
<1> SUFFICES ASSUME PointsIInv PROVE PointsAreTrue
  OBVIOUS
<1>1. /\ entries \in Seq(EntryRows) /\ AccountIs(account, entries, today) /\ account.points \in Nat
      /\ Covered(entries, today)
  BY DEF PointsIInv, AccountIs, LedgerHolds
<1>2. LedgerAddsUp
  BY <1>1, PointsAre DEF AccountIs, LedgerAddsUp
<1>3. OnlyLapsedExpire
  BY <1>1, PointsAre DEF Covered, AllExpire, OnlyLapsedExpire
<1>4. \A p \in Parcels : Earned(p) + PointsOf(OfType("REFUND", p)) >= 0
  BY <1>1, PointsAre DEF PointsIInv, ParcelsCovered
<1>5. ASSUME NEW t \in (DOMAIN bill \cap Tickets) \ overlapped, bill[t] # Unsold
      PROVE  /\ UnitsBack(t) <= Sold[t]
             /\ UnitsBack(t) = Sold[t] => ValueBack(t) = bill[t]
             /\ AmpleBill(t) =>
                  /\ ValueBack(t) <= bill[t]
                  /\ Earned(t) + PointsOf({i \in DOMAIN entries : \E r \in Standing(t) : i \in OfType("REFUND", r)}) >= 0
  <2>1. PartsFit(t) /\ Bought(t)
    BY <1>5 DEF PointsIInv, SalesFit, Bought
  <2>2. bill[t] \in Nat /\ Sold[t] \in Nat \ {0} /\ UnitsBack(t) \in Nat /\ ValueBack(t) \in Nat /\ Standing(t) \in SUBSET SaleReturns
    <3>1. bill[t] \in Nat
      BY <1>5 DEF PointsIInv, PointsTypeOK
    <3> QED BY <1>5, <3>1, RowsOfReturns, LoyaltyAssumption DEF Standing
  <2>3. ASSUME AmpleBill(t) PROVE ValueBack(t) <= bill[t]
    <3>1. CASE UnitsBack(t) = Sold[t]
      BY <2>1, <2>2, <3>1 DEF PartsFit
    <3>2. CASE UnitsBack(t) < Sold[t]
      <4>1. WithinParts(ValueBack(t), UnitsBack(t), bill[t], Sold[t]) /\ 2 * bill[t] >= Sold[t] * (Sold[t] - 1)
        BY <2>1, <2>3, <3>2 DEF PartsFit, AmpleBill
      <4> QED BY <2>2, <3>2, <4>1, AmplePartsFit
    <3> QED BY <2>1, <2>2, <3>1, <3>2 DEF PartsFit
  <2>4. ASSUME AmpleBill(t)
        PROVE  Earned(t) + PointsOf({i \in DOMAIN entries : \E r \in Standing(t) : i \in OfType("REFUND", r)}) >= 0
    <3> DEFINE E == Total(entries, EarnedBy(t))
               R == Total(entries, RefundsOfAny(Standing(t)))
               W == SumFunctionOnSet(WorthOfReturn, Standing(t))
    <3>1. Earned(t) = E /\ PointsOf({i \in DOMAIN entries : \E r \in Standing(t) : i \in OfType("REFUND", r)}) = R
      BY <1>1, PointsAre
    <3>2. E = Worth(bill[t]) /\ E \in Int /\ R \in Int
      BY <1>1, <1>5, <2>1, LedgerFacts DEF PointsIInv, TicketsEarned
    <3>3. R >= -W
      BY <2>2, RefundsOfMany
    <3>4. W <= Worth(bill[t])
      BY <2>2, <2>3, <2>4, WorthOfParts
    <3>5. W \in Int
      <4>1. \A r \in Standing(t) : WorthOfReturn[r] \in Int
        BY <2>2, RowsOfReturns, WorthIs DEF WorthOfReturn
      <4> QED BY <4>1, RowsOfReturns, SumType
    <3> HIDE DEF E, R, W
    <3>6. E + R >= 0
      BY <3>2, <3>3, <3>4, <3>5
    <3> QED BY <3>1, <3>6
  <2> QED BY <2>1, <2>3, <2>4 DEF PartsFit
<1>6. ReturnsAreCovered
  BY <1>4, <1>5 DEF ReturnsAreCovered
<1> QED BY <1>2, <1>3, <1>6 DEF PointsAreTrue

LEMMA PointsStart == PointsInit => PointsIInv
<1> SUFFICES ASSUME PointsInit PROVE PointsIInv
  OBVIOUS
<1>1. /\ today = 0 /\ DOMAIN bill \in Baskets /\ (\A p \in DOMAIN bill : bill[p] = Unsold)
      /\ account = [points |-> 0, lifetime |-> 0] /\ entries = <<>>
      /\ sreturn = [r \in SaleReturns |-> NoSaleReturn] /\ overlapped = {} /\ giveBacks = [p \in Parcels |-> 0]
  BY DEF PointsInit
<1>2. entries \in Seq(EntryRows) /\ Len(entries) = 0 /\ DOMAIN entries = {} /\ LastToday \in Nat /\ Life \in Nat
  BY <1>1, LoyaltyAssumption
<1>3. \A F : Total(entries, F) = 0
  <2>1. \A F : Among(entries, F) = {}
    BY <1>2 DEF Among
  <2> QED BY <2>1, SumEmpty DEF Total
<1>4. PointsTypeOK
  <2>1. sreturn \in [SaleReturns -> ReturnRows]
    BY <1>1 DEF ReturnRows, NoSaleReturn
  <2>2. giveBacks \in [Parcels -> Nat] /\ today \in 0..LastToday /\ account \in [points : Nat, lifetime : Nat]
    BY <1>1, <1>2
  <2> QED BY <1>1, <1>2, <2>1, <2>2 DEF PointsTypeOK, ReturnRows, EntryRows
<1>5. AccountIs(account, entries, today)
  <2>1. NeverInDebt(entries)
    <3>1. \A k \in 0..0 : 1..k = {}
      OBVIOUS
    <3> QED BY <1>2, <3>1, SumEmpty DEF NeverInDebt
  <2>2. Dated(entries, today) /\ Covered(entries, today)
    BY <1>2, <1>3 DEF Dated, Covered
  <2>3. LedgerHolds(entries, today)
    BY <1>2, <2>1, <2>2 DEF LedgerHolds
  <2> QED BY <1>1, <1>3, <2>3 DEF AccountIs
<1>6. \A p : ~Bought(p)
  BY <1>1 DEF Bought
<1>7. \A r \in SaleReturns : sreturn[r].status = "NONE"
  BY <1>1 DEF NoSaleReturn
<1> QED BY <1>3, <1>4, <1>5, <1>6, <1>7 DEF PointsIInv, ParcelsCovered, TicketsEarned, ReturnsOfSales, RefundsFit, SalesFit

LEMMA PointsStep == PointsIInv /\ [PointsNext]_pointVars => PointsIInv'
<1> SUFFICES ASSUME PointsIInv, [PointsNext]_pointVars PROVE PointsIInv'
  OBVIOUS
<1>1. CASE UNCHANGED pointVars
  <2>1. UNCHANGED <<today, bill, account, entries, sreturn, overlapped, giveBacks>>
    BY <1>1 DEF pointVars
  <2>2. SalesFit' /\ ReturnsOfSales'
    BY <2>1, PartsUnchanged, ReturnsUnchanged DEF Bought, SameView
  <2>3. PointsTypeOK' /\ AccountIs(account, entries, today)'
    BY <2>1 DEF PointsIInv, PointsTypeOK
  <2>4. ParcelsCovered' /\ TicketsEarned' /\ RefundsFit'
    BY <2>1 DEF PointsIInv, ParcelsCovered, TicketsEarned, RefundsFit, Bought
  <2> QED BY <2>2, <2>3, <2>4 DEF PointsIInv
<1>2. ASSUME NEW t \in DOMAIN bill \cap Tickets, NEW redeem \in 0..account.points, SellTicket(t, redeem) PROVE PointsIInv'
  BY <1>2, SellKeepsPoints
<1>3. ASSUME NEW p \in DOMAIN bill \cap Parcels, DeliverParcel(p) PROVE PointsIInv'
  BY <1>3, DeliverKeeps
<1>4. ASSUME NEW p \in DOMAIN bill \cap Parcels, NEW amount \in 1..Price[p], ConfirmParcelReturn(p, amount) PROVE PointsIInv'
  BY <1>4, ParcelReturnKeeps
<1>5. ASSUME NEW n \in Manual, EnterByHand(n) PROVE PointsIInv'
  BY <1>5, HandKeeps
<1>6. ASSUME NEW r \in SaleReturns, NEW t \in DOMAIN bill \cap Tickets, NEW q \in 1..Sold[t], AskSaleReturn(r, t, q) PROVE PointsIInv'
  BY <1>6, AskKeepsPoints
<1>7. ASSUME NEW r \in SaleReturns, CreateSaleReturn(r) PROVE PointsIInv'
  BY <1>7, CreateKeeps
<1>8. ASSUME NEW r \in SaleReturns, LinkInspection(r) PROVE PointsIInv'
  BY <1>8, InspectionKeeps DEF LinkInspection
<1>9. ASSUME NEW r \in SaleReturns, NEW verdict \in {"PASSED", "REJECTED"}, InspectReturn(r, verdict) PROVE PointsIInv'
  BY <1>9, InspectionKeeps DEF InspectReturn
<1>10. ASSUME NEW r \in SaleReturns, ConfirmSaleReturn(r) PROVE PointsIInv'
  BY <1>10, ConfirmKeeps
<1>11. CASE ExpirePoints
  BY <1>11, ExpireKeeps
<1>12. CASE DayPasses
  BY <1>12, NextDayKeeps
<1> QED BY <1>1, <1>2, <1>3, <1>4, <1>5, <1>6, <1>7, <1>8, <1>9, <1>10, <1>11, <1>12 DEF PointsNext

(* For any purchases, redemptions, entries by hand, sale and order returns   *)
(* and any calendar: the account is the sum of its ledger and never in debt, *)
(* returns take back no more than was earned and sold, and only grants whose *)
(* day has come lapse (sales.service.ts create, orders.service.ts deliver,   *)
(* returns.service.ts, processLoyaltyExpiries of the worker).                *)
THEOREM PointsCorrect == PointsSpec => []PointsAreTrue
<1>1. PointsSpec => []PointsIInv
  BY PointsStart, PointsStep, PTL DEF PointsSpec
<1> QED BY <1>1, PointsFollow, PTL

-----------------------------------------------------------------------------
(* The composition.                                                        *)

\* The callbacks of some orders, and the storefront's other turns, keep CInv.
LEMMA TurnKeepsCallbacks ==
  ASSUME CInv, [StorefrontNext]_storefrontVars PROVE CInv'
<1>1. CASE UNCHANGED callbackVars
  BY <1>1 DEF callbackVars, CInv, CallbacksTypeOK, NoCall, StepsTell, OneHandles, EventsTell
<1>2. CASE CallbackStep
  BY <1>2, CallbacksStepCInv DEF CallbacksNext
<1> QED BY <1>1, <1>2 DEF StorefrontNext, storefrontVars, OrdersTurn, CallbacksTurn, PointsTurn, UnitsTurn

\* Every turn is a step of the orders, or leaves them alone.
LEMMA TurnOrders ==
  ASSUME CInv, [StorefrontNext]_storefrontVars PROVE [Next]_vars
<1>1. CASE UNCHANGED vars
  BY <1>1
<1>2. CASE Next
  BY <1>2
<1>3. CASE CallbackStep
  BY <1>3, StepImplements DEF CallbacksNext
<1>4. ASSUME OtherStock \/ \E o \in Called : ShopStep(o), UNCHANGED callbackVars PROVE [Next]_vars
  <2>1. Called \subseteq Orders
    BY CallbacksAssumption DEF Called
  <2>2. Shop
    BY <1>4, <2>1 DEF Shop
  <2> QED BY <2>2, StepImplements DEF CallbacksNext
<1> QED BY <1>1, <1>2, <1>3, <1>4 DEF StorefrontNext, storefrontVars, OrdersTurn, CallbacksTurn, PointsTurn, UnitsTurn

(* The storefront as it is checked, with its callbacks taken apart, the      *)
(* customer's points and the units: each of its behaviours is one of the     *)
(* orders (orders.service.ts and the worker), one of the points (sales,      *)
(* returns, expiry) and one of the units, and keeps what the callbacks need. *)
THEOREM StorefrontIsEach == StorefrontSpec => Spec /\ []CInv /\ PointsSpec /\ SellingSpec
<1>1. StorefrontInit => Init /\ CInv /\ PointsInit /\ SellingInit
  BY CallbacksInitCInv DEF StorefrontInit
<1>2. CInv /\ [StorefrontNext]_storefrontVars => CInv'
  BY TurnKeepsCallbacks
<1>3. CInv /\ [StorefrontNext]_storefrontVars => [Next]_vars
  BY TurnOrders
<1>4. [StorefrontNext]_storefrontVars => [PointsNext]_pointVars
  BY DEF StorefrontNext, storefrontVars, OrdersTurn, CallbacksTurn, PointsTurn, UnitsTurn
<1>5. [StorefrontNext]_storefrontVars => [SellingNext]_sellingVars
  BY DEF StorefrontNext, storefrontVars, OrdersTurn, CallbacksTurn, PointsTurn, UnitsTurn
<1> QED BY <1>1, <1>2, <1>3, <1>4, <1>5, PTL DEF StorefrontSpec, Spec, PointsSpec, SellingSpec

(* So the composed storefront keeps what each part promises, for every set  *)
(* of orders, events, purchases, returns, units and lines.                  *)
THEOREM StorefrontKeepsItsPromises ==
  StorefrontSpec =>
    /\ [](/\ StockFollowsOrders /\ MoneyFollowsOrders /\ ShipmentFollowsOrder
          /\ CallbacksAreTrue /\ PointsAreTrue /\ CopiesFollowTheirUnits /\ HistoryKeepsItsUnits)
    /\ PaidOrderIsKept
<1>1. CInv => CallbacksAreTrue
  BY DEF CInv, EventsTell, OneHandles, Handling, CallbacksAreTrue
<1> QED BY <1>1, StorefrontIsEach, StockCorrect, MoneyCorrect, ShipmentCorrect, PaidKept,
        PointsCorrect, CopiesCorrect, UnitsAreKept, PTL
=============================================================================
