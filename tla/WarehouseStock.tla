--------------------------- MODULE WarehouseStock ---------------------------
(***************************************************************************)
(* LocationStock driven by its callers: every source (an order) reserves   *)
(* once and then ships, cancels or expires, while sales, receipts,         *)
(* transfers, counts and condition changes move the same stock.  Orders    *)
(* placed before locations existed hold their units on the aggregate only. *)
(***************************************************************************)
EXTENDS LocationStock

VARIABLE phase   \* of each source: "new", "holding" or "done"

warehouseVars == <<stock, phase>>

Holding == {src \in Sources : phase[src] = "holding"}

WarehouseTypeOK == stock \in StockType /\ phase \in [Sources -> {"new", "holding", "done"}]

WarehouseInit ==
  /\ StockInit
  /\ phase = [src \in Sources |-> IF src \in LegacySources THEN "holding" ELSE "new"]

Place(src) ==
  /\ phase[src] = "new" /\ Reserve(src, Need[src])
  /\ phase' = [phase EXCEPT ![src] = "holding"]

Leave(src) ==
  /\ phase[src] = "holding"
  /\ Release(src, Need[src]) \/ ReleaseExpired(src, Need[src]) \/ Consume(src, Need[src])
  /\ phase' = [phase EXCEPT ![src] = "done"]

Units == 1 .. MaxOnHand

Move ==
  /\ \E q \in Units :
       \/ TakeAvailable(q)
       \/ \E loc \in Locations : Deposit(loc, q) \/ AdjustDown(loc, q)
                                 \/ Downgrade(loc, q) \/ Restore(loc, q)
       \/ \E from, to \in Locations : Relocate(from, to, q)
  /\ UNCHANGED phase

WarehouseNext == Move \/ \E src \in Sources : Place(src) \/ Leave(src)

WarehouseSpec == WarehouseInit /\ [][WarehouseNext]_warehouseVars

-----------------------------------------------------------------------------
(* location-inventory.ts:26: once balances exist, the aggregate equals the *)
(* sum of the locations and the conditions account for every unit, so that *)
(* no later operation is refused with a DRIFT error.                       *)
NoDrift == Consistent(stock) /\ Consistent(Prepared(stock))

(* The reserved column is exactly what unfinished sources hold: a release, *)
(* an expiry or a shipment returns a source's units once, and no other     *)
(* operation touches them.                                                 *)
ReservedIsHeld ==
  stock.aggregate.reserved = SumFunctionOnSet(Need, Holding)

(* Whatever was sold, moved, counted or downgraded in between, a source    *)
(* that holds a reservation, with reservation rows or without (legacy),    *)
(* can be shipped: no check of consumeLocationReservations fails.          *)
HoldersCanShip ==
  LET s == Prepared(stock) IN
  \A src \in Holding :
    \E alloc \in HeldAt(s, src, Need[src]) :
      \A l \in Locations : alloc[l] <= s.balance[l].reserved /\ alloc[l] <= s.sellable[l]

(* The units a legacy order may take never include units reserved by a     *)
(* reservation row of another order (reserved >= take + tracked, line 191).*)
RowsAreBacked ==
  \A l \in Locations :
    Total([src \in Sources |-> stock.reservation[src][l]]) <= stock.balance[l].reserved

(* The copies of one stock agree, and what was promised can be shipped.    *)
RowsAgree == NoDrift /\ ReservedIsHeld /\ RowsAreBacked /\ HoldersCanShip

-----------------------------------------------------------------------------
Ledger == INSTANCE StockLedger WITH
  onHand   <- stock.aggregate.quantity,
  held     <- [src \in Sources |-> IF phase[src] = "holding" THEN Need[src] ELSE 0],
  setAside <- Total(stock.unsellable)

(* The rows, columns and conditions together implement the ledger: only    *)
(* free units are promised or issued, and a held unit leaves once.         *)
LedgerSpec == Ledger!LedgerSpec
=============================================================================
