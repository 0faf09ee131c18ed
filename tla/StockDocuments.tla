--------------------------- MODULE StockDocuments ---------------------------
(***************************************************************************)
(* Stock transfers between warehouses and stock opnames (counts) of        *)
(* AdvancedInventoryService, with the journal entries they post.  Shipping,*)
(* receiving and completing are serializable transactions; approving and   *)
(* counting look at the status before their transaction and write without  *)
(* looking again.  One product at a constant unit cost of one, so that a   *)
(* ledger balance is a number of units; locations, batches and serials are *)
(* left to WarehouseStock and OutboundInspection.                          *)
(***************************************************************************)
EXTENDS Integers, FiniteSets, Functions

CONSTANTS
  Warehouses,
  Transfers, From, To, Quantity,  \* StockTransfer: its two warehouses, its item
  Opnames, Counted,               \* StockOpname: the warehouse it counts
  Sessions,    \* requests that may be between their check and their write
  Opening,     \* units in each warehouse at the start
  MaxStock,    \* bound on what is counted in, or brought into, one warehouse
  MaxLines,    \* bound on the lines of one receipt that name the item
  MaxTrades    \* bound on receipts and sales by other documents

ASSUME StockDocumentsAssumption ==
  /\ From \in [Transfers -> Warehouses] /\ To \in [Transfers -> Warehouses]
  /\ \A t \in Transfers : From[t] # To[t]
  /\ Quantity \in [Transfers -> Nat \ {0}]
  /\ Counted \in [Opnames -> Warehouses]
  /\ Opening \in [Warehouses -> Nat]
  /\ MaxStock \in Nat /\ MaxLines \in Nat /\ MaxTrades \in Nat
  /\ IsFiniteSet(Warehouses) /\ IsFiniteSet(Transfers) /\ IsFiniteSet(Opnames)
  /\ Transfers \cap Opnames = {}

VARIABLES
  onHand,     \* inventory.quantity, all of it available
  transfer,   \* the StockTransfer with its item
  opname,     \* the StockOpname with its item
  checked,    \* the document each request has found in the right status
  books,      \* balances of 1301 (inventory) and 1302 (in transit)
  posted,     \* idempotency keys of the accounting events
  traded,     \* units other documents have brought into each warehouse
  disturbed   \* documents that a step has taken back behind a posted one

documentVars == <<onHand, transfer, opname, checked, books, posted, traded, disturbed>>

NoDocument == "none"
Uncounted == -1
InTransit == {"SHIPPED", "PARTIALLY_RECEIVED"}
NoTransfer == [status |-> "NONE", shipped |-> 0, received |-> 0]
NoOpname == [status |-> "NONE", system |-> 0, counted |-> Uncounted]

StockDocumentsTypeOK ==
  /\ onHand \in [Warehouses -> Nat]
  /\ transfer \in [Transfers -> [status : {"NONE", "REQUESTED", "APPROVED", "RECEIVED"} \cup InTransit,
                                 shipped : Nat, received : Nat]]
  /\ opname \in [Opnames -> [status : {"NONE", "COUNTING", "WAITING_APPROVAL", "COMPLETED"},
                             system : Nat, counted : Nat \cup {Uncounted}]]
  /\ checked \in [Sessions -> Transfers \cup Opnames \cup {NoDocument}]
  /\ books \in [inventory : Int, transit : Int]
  /\ traded \in [Warehouses -> Int]
  /\ disturbed \subseteq Transfers \cup Opnames

UnitsIn(ws, f) == SumFunctionOnSet(f, ws)

DocumentsInit ==
  /\ onHand = Opening
  /\ transfer = [t \in Transfers |-> NoTransfer]
  /\ opname = [o \in Opnames |-> NoOpname]
  /\ checked = [r \in Sessions |-> NoDocument]
  /\ books = [inventory |-> UnitsIn(Warehouses, Opening), transit |-> 0]
  /\ posted = {} /\ disturbed = {}
  /\ traded = [w \in Warehouses |-> 0]

-----------------------------------------------------------------------------
\* postOperationalEvent: an event whose key exists is returned as it is.
Post(key, inventory, transit) ==
  IF key \in posted \/ (inventory = 0 /\ transit = 0)
    THEN UNCHANGED <<books, posted>>
    ELSE /\ books' = [inventory |-> books.inventory + inventory, transit |-> books.transit + transit]
         /\ posted' = posted \cup {key}

MoveGoods(w, units) == onHand' = [onHand EXCEPT ![w] = @ + units]

Check(r, document) ==
  /\ checked[r] = NoDocument
  /\ checked' = [checked EXCEPT ![r] = document]
  /\ UNCHANGED <<onHand, transfer, opname, books, posted, traded, disturbed>>

-----------------------------------------------------------------------------
(* Transfers *)

RequestTransfer(t) ==
  /\ transfer[t].status = "NONE"
  /\ transfer' = [transfer EXCEPT ![t].status = "REQUESTED"]
  /\ UNCHANGED <<onHand, opname, checked, books, posted, traded, disturbed>>

CheckApproval(r, t) == transfer[t].status = "REQUESTED" /\ Check(r, t)

\* The status is written whatever it has become.
ApproveTransfer(r, t) ==
  /\ checked[r] = t
  /\ transfer' = [transfer EXCEPT ![t].status = "APPROVED"]
  /\ disturbed' = IF transfer[t].shipped > 0 THEN disturbed \cup {t} ELSE disturbed
  /\ checked' = [checked EXCEPT ![r] = NoDocument]
  /\ UNCHANGED <<onHand, opname, books, posted, traded>>

\* Faulty variant: the source's stock is not looked at again.
ShipTransferUnstocked(t) ==
  /\ transfer[t].status = "APPROVED"
  /\ MoveGoods(From[t], -Quantity[t])
  /\ transfer' = [transfer EXCEPT ![t].status = "SHIPPED", ![t].shipped = Quantity[t]]
  /\ Post(<<"shipped", t>>, -Quantity[t], Quantity[t])
  /\ UNCHANGED <<opname, checked, traded, disturbed>>

ShipTransfer(t) ==
  /\ transfer[t].status = "APPROVED"
  /\ onHand[From[t]] >= Quantity[t]
  /\ MoveGoods(From[t], -Quantity[t])
  /\ transfer' = [transfer EXCEPT ![t].status = "SHIPPED", ![t].shipped = Quantity[t]]
  /\ Post(<<"shipped", t>>, -Quantity[t], Quantity[t])
  /\ UNCHANGED <<opname, checked, traded, disturbed>>

\* A receipt is numbered by what has been received with it.  Faulty variant:
\* one number for all receipts.
ReceiptKeyOnce(t, received) == <<"received", t>>
ReceiptKey(t, received) == <<"received", t, received>>

\* Every line is compared with what was in transit before the request.
ReceiveTransfer(t, lines) ==
  LET quantity == SumFunction(lines)
      received == transfer[t].received + quantity
  IN  /\ transfer[t].status \in InTransit
      /\ \A i \in DOMAIN lines : lines[i] <= transfer[t].shipped - transfer[t].received
      /\ MoveGoods(To[t], quantity)
      /\ transfer' = [transfer EXCEPT ![t].received = received,
                        ![t].status = IF received >= transfer[t].shipped THEN "RECEIVED"
                                      ELSE "PARTIALLY_RECEIVED"]
      /\ Post(ReceiptKey(t, received), quantity, -quantity)
      /\ UNCHANGED <<opname, checked, traded, disturbed>>

-----------------------------------------------------------------------------
(* Opnames *)

\* Counting starts from the quantity of the moment.
CreateOpname(o) ==
  /\ opname[o].status = "NONE"
  /\ opname' = [opname EXCEPT ![o].status = "COUNTING", ![o].system = onHand[Counted[o]]]
  /\ UNCHANGED <<onHand, transfer, checked, books, posted, traded, disturbed>>

CheckCount(r, o) == opname[o].status = "COUNTING" /\ Check(r, o)

CountOpname(r, o, counted) ==
  /\ checked[r] = o
  /\ opname' = [opname EXCEPT ![o].counted = counted]
  /\ disturbed' = IF opname[o].status = "COMPLETED" THEN disturbed \cup {o} ELSE disturbed
  /\ checked' = [checked EXCEPT ![r] = NoDocument]
  /\ UNCHANGED <<onHand, transfer, books, posted, traded>>

\* All items are counted; the status is not looked at.
SubmitOpname(o) ==
  /\ opname[o].counted # Uncounted
  /\ opname' = [opname EXCEPT ![o].status = "WAITING_APPROVAL"]
  /\ disturbed' = IF opname[o].status = "COMPLETED" THEN disturbed \cup {o} ELSE disturbed
  /\ UNCHANGED <<onHand, transfer, checked, books, posted, traded>>

\* The difference found by counting, not the counted quantity, is applied to
\* what is there by now.
Adjustment(o) == opname[o].counted - opname[o].system

CompleteOpname(o) ==
  LET difference == Adjustment(o)
  IN  /\ opname[o].status = "WAITING_APPROVAL"
      /\ onHand[Counted[o]] + difference \in 0..MaxStock
      /\ MoveGoods(Counted[o], difference)
      /\ Post(<<"opname", o>>, difference, 0)
      /\ opname' = [opname EXCEPT ![o].status = "COMPLETED"]
      /\ UNCHANGED <<transfer, checked, traded, disturbed>>

-----------------------------------------------------------------------------
\* Goods receipts, sales and returns move and post the same product meanwhile.
Trade(w, units) ==
  /\ UnitsIn({v \in Warehouses : traded[v] > 0}, traded) - UnitsIn({v \in Warehouses : traded[v] < 0}, traded)
       < MaxTrades
  /\ onHand[w] + units \in 0..MaxStock
  /\ MoveGoods(w, units)
  /\ traded' = [traded EXCEPT ![w] = @ + units]
  /\ books' = [books EXCEPT !.inventory = @ + units]
  /\ UNCHANGED <<transfer, opname, checked, posted, disturbed>>

Lines == UNION {[1..n -> 0..MaxStock] : n \in 1..MaxLines}

DocumentsNext ==
  \/ \E t \in Transfers : \/ RequestTransfer(t) \/ ShipTransfer(t)
                          \/ \E lines \in Lines : ReceiveTransfer(t, lines)
                          \/ \E r \in Sessions : CheckApproval(r, t) \/ ApproveTransfer(r, t)
  \/ \E o \in Opnames : \/ CreateOpname(o) \/ SubmitOpname(o) \/ CompleteOpname(o)
                        \/ \E r \in Sessions : \/ CheckCount(r, o)
                                               \/ \E counted \in 0..MaxStock : CountOpname(r, o, counted)
  \/ \E w \in Warehouses, units \in {-1, 1} : Trade(w, units)

DocumentsSpec == DocumentsInit /\ [][DocumentsNext]_documentVars

-----------------------------------------------------------------------------
Sent == [t \in Transfers |-> transfer[t].shipped]
Arrived == [t \in Transfers |-> transfer[t].received]
OnTheRoad == [t \in Transfers |-> transfer[t].shipped - transfer[t].received]
OpnameEffect == [o \in Opnames |-> IF opname[o].status = "COMPLETED" THEN Adjustment(o) ELSE 0]

(* The documents account for every unit: a warehouse holds what it opened  *)
(* with and traded, less what its transfers shipped, plus what reached it, *)
(* plus the difference of each completed count, whatever moved between the *)
(* count and its completion.  Only a document that was taken back behind a *)
(* posted step escapes.                                                    *)
DocumentsExplainStock ==
  disturbed = {} => \A w \in Warehouses :
    onHand[w] = Opening[w] + traded[w]
                - SumFunctionOnSet(Sent, {t \in Transfers : From[t] = w})
                + SumFunctionOnSet(Arrived, {t \in Transfers : To[t] = w})
                + SumFunctionOnSet(OpnameEffect, {o \in Opnames : Counted[o] = w})

(* 1301 is what the warehouses hold and 1302 what is under way, although   *)
(* every event is posted under a key that suppresses repetitions           *)
(* (shipTransfer, receiveTransfer, completeOpname, postOperationalEvent).  *)
LedgerFollowsGoods ==
  disturbed = {} =>
    /\ books.inventory = UnitsIn(Warehouses, onHand)
    /\ books.transit = SumFunction(OnTheRoad)

(* A count is posted once: stock and ledger are adjusted together.         *)
CountPostsOnce ==
  (disturbed \cap Transfers = {}) => books.inventory = UnitsIn(Warehouses, onHand)
=============================================================================
