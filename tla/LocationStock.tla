---------------------------- MODULE LocationStock ----------------------------
(***************************************************************************)
(* The stock of one product in one warehouse: the aggregate Inventory row, *)
(* its per-location balances, the AVAILABLE condition rows and the         *)
(* reservations (apps/api/src/common/location-inventory.ts), together with *)
(* the aggregate update every caller makes in the same transaction.        *)
(*                                                                         *)
(* Every caller runs in one serializable transaction and an exception      *)
(* rolls all of it back, so an operation is one action, and a throw is a   *)
(* disabled action.  The order of rows with equal rank (updatedAt) is      *)
(* left open: any greedy allocation may be the one the query returns.      *)
(***************************************************************************)
EXTENDS Integers, FiniteSets, Functions

CONSTANTS
  Locations,        \* warehouse locations
  DefaultLocation,  \* the one flagged isDefault
  Sources,          \* reservation sources (orders)
  Need,             \* units each source reserves
  LegacySources,    \* sources that reserved before location balances existed
  OpeningStock,     \* units on hand before the first location-aware mutation
  MaxOnHand         \* bound on receipts

ASSUME LocationStockAssumption ==
  /\ DefaultLocation \in Locations
  /\ IsFiniteSet(Locations) /\ IsFiniteSet(Sources)
  /\ Need \in [Sources -> Nat \ {0}]
  /\ LegacySources \subseteq Sources
  /\ OpeningStock \in Nat /\ MaxOnHand \in Nat
  /\ OpeningStock >= SumFunctionOnSet(Need, LegacySources)

VARIABLE stock

(***************************************************************************)
(* An amount row: Inventory and InventoryLocationBalance have the same     *)
(* three columns.  quantity - reserved - available is stock in a condition *)
(* other than AVAILABLE.                                                   *)
(***************************************************************************)
Amounts == [quantity : Nat, reserved : Nat, available : Nat]
Nothing == [quantity |-> 0, reserved |-> 0, available |-> 0]

StockType ==
  [ aggregate   : Amounts,
    rows        : SUBSET Locations,                \* locations with a balance row
    balance     : [Locations -> Amounts],
    classified  : BOOLEAN,                         \* some condition row exists
    sellable    : [Locations -> Nat],              \* condition AVAILABLE
    unsellable  : [Locations -> Nat],              \* every other condition
    reservation : [Sources -> [Locations -> Nat]] ]\* ACTIVE reservations

Total(f) == SumFunction(f)
Column(s, c) == [l \in Locations |-> s.balance[l][c]]
Reserved(s, src) == Total(s.reservation[src])

StockInit ==
  stock = LET held == SumFunctionOnSet(Need, LegacySources) IN
    [ aggregate   |-> [quantity |-> OpeningStock, reserved |-> held,
                       available |-> OpeningStock - held],
      rows        |-> {},
      balance     |-> [l \in Locations |-> Nothing],
      classified  |-> FALSE,
      sellable    |-> [l \in Locations |-> 0],
      unsellable  |-> [l \in Locations |-> 0],
      reservation |-> [src \in Sources |-> [l \in Locations |-> 0]] ]

-----------------------------------------------------------------------------
\* prepareLocationInventory: the first mutation moves the aggregate to the
\* default location; later ones throw LOCATION_INVENTORY_DRIFT on a mismatch.
Located(s) ==
  IF s.rows # {} THEN s
  ELSE [s EXCEPT !.rows = {DefaultLocation}, !.balance[DefaultLocation] = s.aggregate]

LocationsAgree(s) ==
  s.rows # {} =>
    \A c \in {"quantity", "reserved", "available"} : Total(Column(s, c)) = s.aggregate[c]

\* prepareConditionInventory: the first call classifies all stock as AVAILABLE;
\* later ones throw INVENTORY_CONDITION_*_DRIFT on a mismatch.
Classified(s) ==
  IF s.classified THEN s
  ELSE [s EXCEPT !.classified = \E l \in s.rows : s.balance[l].quantity > 0,
                 !.sellable = Column(s, "quantity")]

ConditionsAgree(s) ==
  s.classified =>
    \A l \in s.rows :
      /\ s.sellable[l] + s.unsellable[l] = s.balance[l].quantity
      /\ s.sellable[l] = s.balance[l].reserved + s.balance[l].available

Prepared(s) == Classified(Located(s))
Consistent(s) == LocationsAgree(s) /\ ConditionsAgree(s)

\* Rows are taken in order, each one fully before the next is touched.
Greedy(alloc, free, q) ==
  /\ Total(alloc) = q
  /\ \A l \in Locations : alloc[l] <= free[l]
  /\ \A k, l \in Locations :
       0 < alloc[k] /\ alloc[k] < free[k] /\ 0 < alloc[l] /\ alloc[l] < free[l] => k = l

\* orderedAvailableBalances puts the default location first.
DefaultFirst(alloc, free) ==
  (\E l \in Locations \ {DefaultLocation} : alloc[l] > 0)
    => alloc[DefaultLocation] = free[DefaultLocation]

Allocations(q) == [Locations -> 0 .. q]

Shift(amounts, dq, dr, da) ==
  [quantity |-> amounts.quantity + dq, reserved |-> amounts.reserved + dr,
   available |-> amounts.available + da]

\* One transaction's effect on the balances: alloc[l] units at each l, with the
\* given sign on each column, and the same on the aggregate.
Moved(s, alloc, q, dq, dr, da) ==
  [s EXCEPT !.aggregate = Shift(@, dq * q, dr * q, da * q),
            !.balance = [l \in Locations |->
                           Shift(@[l], dq * alloc[l], dr * alloc[l], da * alloc[l])]]

-----------------------------------------------------------------------------
\* reserveLocationStock and the aggregate reservation of OrdersService.create.
Reserve(src, q) ==
  LET s == Prepared(stock) free == Column(s, "available") IN
  /\ Consistent(s)
  /\ stock.aggregate.available >= q
  /\ Reserved(stock, src) = 0
  /\ \E alloc \in Allocations(q) :
       /\ Greedy(alloc, free, q) /\ DefaultFirst(alloc, free)
       /\ stock' = [Moved(s, alloc, q, 0, 1, -1) EXCEPT !.reservation[src] = alloc]

\* Faulty variant: units of tracked reservations count as legacy.
LegacyReservedAll(s) == [l \in Locations |-> s.balance[l].reserved]

\* What a location has reserved beyond its ACTIVE reservation rows.
LegacyReserved(s) ==
  [l \in Locations |->
     LET tracked == Total([src \in Sources |-> s.reservation[src][l]])
     IN  IF s.balance[l].reserved > tracked THEN s.balance[l].reserved - tracked ELSE 0]

\* The reservation rows of a source, or the legacy reserved stock when it has none.
HeldAt(s, src, q) ==
  IF Reserved(s, src) > 0
  THEN {alloc \in {s.reservation[src]} : Total(alloc) = q}
  ELSE {alloc \in Allocations(q) : Greedy(alloc, LegacyReserved(s), q)}

\* releaseLocationReservations and the aggregate release of OrdersService.cancel;
\* only the legacy path materialises and checks the location rows.
Release(src, q) ==
  LET s == IF Reserved(stock, src) > 0 THEN stock ELSE Located(stock) IN
  /\ Reserved(stock, src) = 0 => LocationsAgree(s)
  /\ stock.aggregate.reserved >= q
  /\ \E alloc \in HeldAt(s, src, q) :
       /\ \A l \in Locations : alloc[l] <= s.balance[l].reserved
       /\ stock' = [Moved(s, alloc, q, 0, -1, 1)
                      EXCEPT !.reservation[src] = [l \in Locations |-> 0]]

\* Faulty variant: without location rows nothing is returned.
ReleaseExpiredRowless(src, q) ==
  /\ stock.aggregate.reserved >= q
  /\ IF stock.rows = {}
     THEN UNCHANGED stock
     ELSE \E alloc \in HeldAt(stock, src, q) :
            stock' = [Moved(stock, alloc, q, 0, -1, 1)
                        EXCEPT !.reservation[src] = [l \in Locations |-> 0]]

\* The expiry worker releases by its own code: it never materialises rows, and
\* with none it only returns the aggregate reservation.
ReleaseExpired(src, q) ==
  /\ stock.aggregate.reserved >= q
  /\ IF stock.rows = {}
     THEN stock' = [stock EXCEPT !.aggregate = Shift(@, 0, -q, q)]
     ELSE \E alloc \in HeldAt(stock, src, q) :
            /\ \A l \in Locations : alloc[l] <= stock.balance[l].reserved
            /\ stock' = [Moved(stock, alloc, q, 0, -1, 1)
                           EXCEPT !.reservation[src] = [l \in Locations |-> 0]]

\* consumeLocationReservations and the aggregate decrement of OrdersService.ship.
Consume(src, q) ==
  LET s == Prepared(stock) IN
  /\ Consistent(s)
  /\ stock.aggregate.quantity >= q /\ stock.aggregate.reserved >= q
  /\ \E alloc \in HeldAt(s, src, q) :
       /\ \A l \in Locations : /\ alloc[l] <= s.balance[l].reserved
                               /\ alloc[l] <= s.sellable[l]
       /\ stock' = [Moved(s, alloc, q, -1, -1, 0)
                      EXCEPT !.reservation[src] = [l \in Locations |-> 0],
                             !.sellable = [l \in Locations |-> @[l] - alloc[l]]]

\* Faulty variant: sells what is on hand instead of what is available.
TakeOnHand(q) ==
  LET s == Prepared(stock) free == Column(s, "quantity") IN
  /\ Consistent(s)
  /\ stock.aggregate.quantity >= q
  /\ \E alloc \in Allocations(q) :
       /\ Greedy(alloc, free, q) /\ DefaultFirst(alloc, free)
       /\ stock' = [Moved(s, alloc, q, -1, 0, -1)
                      EXCEPT !.sellable = [l \in Locations |-> @[l] - alloc[l]]]

\* consumeAvailableLocationStock and the caller's decrement: POS sales, transfers
\* out, purchase returns, maintenance parts, warehouse-wide negative opname.
TakeAvailable(q) ==
  LET s == Prepared(stock) free == Column(s, "available") IN
  /\ Consistent(s)
  /\ stock.aggregate.available >= q
  /\ \E alloc \in Allocations(q) :
       /\ Greedy(alloc, free, q) /\ DefaultFirst(alloc, free)
       /\ \A l \in Locations : alloc[l] <= s.sellable[l]
       /\ stock' = [Moved(s, alloc, q, -1, 0, -1)
                      EXCEPT !.sellable = [l \in Locations |-> @[l] - alloc[l]]]

\* Faulty variant: the condition row is not incremented.
DepositUnclassified(loc, q) ==
  LET s == Prepared(stock)
      alloc == [l \in Locations |-> IF l = loc THEN q ELSE 0] IN
  /\ Consistent(s)
  /\ stock.aggregate.quantity + q <= MaxOnHand
  /\ stock' = [Moved(s, alloc, q, 1, 0, 1) EXCEPT !.rows = @ \cup {loc}]

\* depositLocationStock and the caller's increment: goods receipts, returns,
\* transfers in, positive opname.
Deposit(loc, q) ==
  LET s == Prepared(stock)
      alloc == [l \in Locations |-> IF l = loc THEN q ELSE 0] IN
  /\ Consistent(s)
  /\ stock.aggregate.quantity + q <= MaxOnHand
  /\ stock' = [Moved(s, alloc, q, 1, 0, 1)
                 EXCEPT !.rows = @ \cup {loc}, !.classified = TRUE,
                        !.sellable[loc] = @ + q]

\* The negative branch of adjustLocationStock, called by completeOpname for a
\* location: it prepares the location rows but not the condition rows.
AdjustDown(loc, q) ==
  LET s == Located(stock)
      alloc == [l \in Locations |-> IF l = loc THEN q ELSE 0] IN
  /\ LocationsAgree(s)
  /\ s.balance[loc].available >= q /\ s.sellable[loc] >= q
  /\ stock' = [Moved(s, alloc, q, -1, 0, -1) EXCEPT !.sellable[loc] = @ - q]

\* relocateLocationStock: the aggregate does not change.
Relocate(from, to, q) ==
  LET s == Prepared(stock) IN
  /\ from # to
  /\ Consistent(s)
  /\ s.balance[from].available >= q /\ s.sellable[from] >= q
  /\ stock' = [s EXCEPT !.rows = @ \cup {to}, !.classified = TRUE,
                        !.balance[from] = Shift(@, -q, 0, -q),
                        !.balance[to] = Shift(@, q, 0, q),
                        !.sellable[from] = @ - q, !.sellable[to] = @ + q]

\* Faulty variant: only the warehouse's free stock is checked, not the location's.
DowngradeReserved(loc, q) ==
  LET s == Prepared(stock)
      alloc == [l \in Locations |-> IF l = loc THEN q ELSE 0] IN
  /\ Consistent(s)
  /\ s.sellable[loc] >= q /\ s.aggregate.available >= q
  /\ stock' = [Moved(s, alloc, q, 0, 0, -1)
                 EXCEPT !.sellable[loc] = @ - q, !.unsellable[loc] = @ + q]

\* moveCondition out of AVAILABLE: only stock free of reservations may move.
Downgrade(loc, q) ==
  LET s == Prepared(stock)
      alloc == [l \in Locations |-> IF l = loc THEN q ELSE 0] IN
  /\ Consistent(s)
  /\ s.sellable[loc] >= q /\ s.balance[loc].available >= q
  /\ s.aggregate.available >= q
  /\ stock' = [Moved(s, alloc, q, 0, 0, -1)
                 EXCEPT !.sellable[loc] = @ - q, !.unsellable[loc] = @ + q]

\* moveCondition back into AVAILABLE.
Restore(loc, q) ==
  LET s == Prepared(stock)
      alloc == [l \in Locations |-> IF l = loc THEN q ELSE 0] IN
  /\ Consistent(s)
  /\ s.unsellable[loc] >= q
  /\ stock' = [Moved(s, alloc, q, 0, 0, 1)
                 EXCEPT !.sellable[loc] = @ + q, !.unsellable[loc] = @ - q]
=============================================================================
