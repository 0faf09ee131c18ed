# Toko360: formal models of the shop, its back office and its worker

Toko360 is a retail suite: a NestJS/Prisma API over PostgreSQL (`apps/api`), a
worker that polls the same database (`apps/worker/src/index.ts`), and web
clients. There is no message broker and no shared memory: everything that can
go wrong between two actors goes wrong in database rows. Handlers run in
serializable transactions retried three times (`serializableTx`), in plain
read-committed transactions, or as bare statements, and which of the three a
handler uses decides how many steps it is here:

- a serializable transaction is one action (its exceptions roll everything
  back, so a `throw` is a disabled action);
- a handler that reads outside the transaction in which it writes is two
  actions, with what it read kept in between;
- a handler made of several bare statements is an action per statement, and its
  process may die between any two;
- the worker's claims, effects and acknowledgements are an action each, and a
  worker may die between any two.

## Inventory

State, operations and interactions of each part, what makes it correct, and
the module that has it. `PROJECT.json` has the status of every component; the
hazards there point at the lines where each thing bites.

| Part | State | Operations | Correct when | Module |
|---|---|---|---|---|
| Location inventory (`common/location-inventory.ts`) | `Inventory`, location and condition balances, `InventoryReservation` | reserve, release, consume, take, deposit, adjust, relocate, change condition | the four tables agree, only free units are promised, a promise can be kept | LocationStock, WarehouseStock, StockLedger |
| Storefront orders (`orders`) | `Order`, `Payment`, `Shipment`, postings | create, select and confirm payment, authorise invoice, pack, ship, deliver, cancel; the worker's expiry | stock, money, shipment and status never part company | Orders |
| Payment callbacks (`payments`) | `PaymentProviderEvent` | provider callback, several at once, repeated | an event is recorded once, applied once, and the record tells the truth | PaymentCallbacks |
| Loyalty (`sales`, `orders`, `returns`, worker) | `LoyaltyAccount`, `LoyaltyTransaction`, `SaleReturn` | earn, redeem, correct, take back, expire; return a sale | the account is its ledger, nothing is taken back twice, only what lapsed expires | LoyaltyPoints |
| Selling units (`master-data`, `common/transaction-uom.ts`, `returns`) | `ProductUnit`, `ProductBarcode`, the units and factor of a line, `OrderReturn` | create, update, deactivate a unit; write a barcode; sell by unit or barcode, return | a barcode follows its unit, returns bring back the pieces of the units they take | SellingUnits |
| Outbound inspection (`operations-control`) | inspections, evidence, `InventorySerial` | add evidence (scan), complete, approve | serials scanned for a shipment are the ones it sells | OutboundInspection |
| POS (`sales`, `apps/pos`) | sales, shifts, `OfflineTransaction`, receipts, the terminal's queue | sale, shift, queue, replay | an offline sale is applied once, in order, in an open shift | PointOfSale |
| Procurement and approvals | `PurchaseRequest`, `ApprovalRequest`, orders, receipts | submit, decide, delegate, expire, convert; receive, inspect, confirm, reject | nothing is bought unapproved or twice, nothing received beyond the order | PurchaseRequests, GoodsReceipts |
| Transfers and opname (`advanced-inventory`) | `StockTransfer`, `StockOpname`, postings | approve, ship, receive; count, submit, complete | goods in transit are conserved, the journal follows the goods | StockDocuments |
| Fleet (`fleet`, gate passes) | trips, stops, manifest, vehicles, shipments | create, load, dispatch, stop, close, refuel | one trip per vehicle and shipment, cash and goods accounted for | Deliveries |
| Returns and finance (`returns`, `finance-operations`) | `OrderReturn`, `PurchaseReturn`, `OperationalFinanceTransaction` | request, inspect, reject, confirm; draft, approve, cancel, post | what is open is settled once, by money or by return | Settlement |
| Books (`extensions`, `accounting-core`) | fiscal periods, close controls, journal, bank statements, reconciliations | open, soft close, close, reopen; post; import, match, unmatch | a closed period is not posted to, a bank line answers for one journal line | Books |
| Payroll, attendance, leave | runs, results, liabilities; events, records, corrections, leave, locks | calculate, approve, post, pay, adjust; punch, correct, lock | each is paid what the last posted calculation says; the locked day is the true one | Payroll, Attendance |
| Assets | assets, depreciation runs, work orders | acquire, depreciate, assign, transfer, maintain, dispose | accounts 1401 and 1491 are the sum of the assets, a month is charged once | Assets |
| Automation queue (worker, `platform`) | `AutomationJob` | materialise, claim, execute, retry, cancel, replay | an effect happens once, and every job ends | AutomationJobs |
| Outbox and webhooks (worker, `platform`) | `EventOutbox`, `WebhookDelivery` | publish, dispatch, post, retry, replay | every event reaches every endpoint, or is visibly FAILED | EventDelivery |
| Notifications, scheduled reports (worker) | `Notification`, `ReportSchedule`, `ReportJob` | send, requeue, cancel, replay; materialise, build | sent once; each occurrence has its job | Notifications, ReportSchedules |
| Numbering (`common/numbering.ts`) | `NumberSequence` | next number | no number twice, no gap after a rollback | DocumentNumbers |
| Master data, customers, promotions, auth, devices, analytics | rows of their own | create, read, update, delete | | not modelled |

How they interact: `orders` calls the stock helpers, numbering and accounting
inside its own transaction and writes outbox rows; the worker expires orders
and points, dispatches the outbox, makes automation jobs from its events, posts
webhooks, sends notifications and builds reports, one step after another in
`tick` (`index.ts:925`), each step in batches, oldest first; the back office
cancels and replays the worker's rows by HTTP while the worker has them in
hand; `pack` and `ship` read what the warehouse wrote through
`operations-control`; trips move shipments the order handlers move too;
`finance-operations` and `returns` change the payment and status of orders that
were shipped; everything that posts asks whether its period is open.

The hard behaviours are therefore: handlers that compete for a row (customer,
provider, worker, warehouse); checks made outside the writing transaction;
handlers that are several transactions and stop in the middle; leases that a
live worker can outlive; calls and answers that are lost, repeated or late;
operators that repair a row somebody is working on; and documents that are
corrected, cancelled and repeated in an order nobody tested.

## Modules

Every module declares its parameters as constants with a named assumption,
has one type invariant, one action per operation, and states its properties
at the end. "Faulty variant" operators beside an action are plausible bugs in
it: replaced by one, the action breaks the property the variant belongs to.

Seven specifications are checked. Five of them compose several components by a
variable `part` that says which one a behaviour is about:

| Specification | Components |
|---|---|
| `Storefront` | Orders, PaymentCallbacks (which EXTENDS Orders), LoyaltyPoints, SellingUnits |
| `ShopFloor` | OutboundInspection, PointOfSale |
| `SupplyChain` | PurchaseRequests, GoodsReceipts, StockDocuments, Deliveries, WarehouseStock over LocationStock |
| `Finance` | Settlement, Books |
| `BackOffice` | Payroll, Attendance, Assets, DocumentNumbers |
| `WorkerQueues` | AutomationJobs, Notifications, ReportSchedules |
| `EventDelivery` | itself |

`part` is a partial-order argument, not an abstraction of convenience: parts
put together this way write no row in common, or share only transactions that
are atomic in both (the delivery of an order moves order and points), so that
every interleaving of two of them has the same rows as one after the other.
Where handlers of two components do write the same rows, they are in one module
(the order handlers on the shipments of a trip in `Deliveries`, finance and
returns in `Settlement`, leave and payroll's lock in `Attendance`) or one
EXTENDS the other.

### LocationStock, WarehouseStock, StockLedger

`LocationStock` models one product in one warehouse. `stock` is a record of the
four tables: the aggregate row, the location balances, the condition rows
(`sellable`, `unsellable`) and the reservation rows by source.
`prepareLocationInventory` and `prepareConditionInventory` are the operators
`Located`, `Classified` and `Prepared`; each helper is one action that starts
from the prepared rows and ends with the aggregate update every caller makes in
the same transaction. Ties in `updatedAt` order are left open: `Greedy` admits
every allocation that empties one row before it touches the next.
`ReleaseExpired` is the worker's own copy of the release, which does not
prepare the condition rows.

`WarehouseStock` drives it: each source reserves, then ships, cancels or
expires; sales, receipts, counts, relocation and condition moves interleave.
A legacy source holds units on the aggregate only, from before locations
existed. `RowsAgree` has four parts: the tables never drift, what is reserved is
exactly what unfinished sources hold, rows back the aggregate, and every holder
can still ship.

`StockLedger` is the abstract specification: units on hand, units held per
source, units set aside; only free units (`Unheld`) are promised or issued. The
run checks that `WarehouseStock` implements it under the mapping at the end of
the module, and `Orders` uses it as its stock.

### Orders, PaymentCallbacks, LoyaltyPoints, SellingUnits

`Orders`: one action per handler of `orders.service.ts`, plus `Expire` (worker),
`SettleReceivable` (finance posting), `FullReturn` (returns), `ApproveInspection`
(warehouse) and `OtherStock` (counter sales, receipts). Each order has its
status, its payment (method, status, reference), its shipment and inspection
status, the units it holds, and whether its prepayment and its fulfilment were
posted. QRIS, TRANSFER and CARD are one method, `ELECTRONIC`; prices and items
are `Need`, units of one product. Lateness is the action `Lapse`: the clock
passing `expiresAt`.

`PaymentCallbacks` takes the provider's callback apart: look up, record, apply,
mark. `applied` counts how often an event reached its order. Only applying is a
serializable transaction; calls overlap, repeat and die anywhere. `Shop` is
what `Orders` does without the provider. A late repetition that reached the
order a second time could decline a payment the customer has chosen anew since:
this is why `CallbacksAreTrue` asks for at most one application.

`LoyaltyPoints` is one customer's account. `entries` is the ledger, oldest
first; `Leftover` is the worker's first-in first-out matching, a table of what
each grant has left after so many entries.
A sale return is asked for (quantities and money already returned are read),
created and given its inspection by statements of their own; `overlapped`
remembers sales of which two returns were asked for at once, the only ones for
which quantity and money may be exceeded (see below). `PointsAreTrue` says that
the account is the sum of its ledger and not in debt; that returns take back
no more units than were sold and, unless the bill is too small to bear the
rounding of its parts (`AmpleBill`), no more money and points either; and that no
more expires than was granted until days that have come.

`SellingUnits` is one product, its packages and their barcodes. Editing a barcode
reads in one request and writes in the next statement, so `AskBarcode` and
`WriteBarcode` are two actions with what was read kept by the `clerk`; selling,
asking for a return and confirming it are serializable. `Conversion` is
`resolveSellingUnitLine`: an active unit converts by its own factor, a linked
barcode by its unit's, any other barcode by the copy it carries. A copy goes
stale when the request that writes it had read rows that were changed since:
such barcodes are `outdated`, until a request that read the present rows writes
them or the next edit of their active unit reaches them.
`CopiesFollowTheirUnits` says that every other linked barcode has the code and
factor of an active unit, through edits, relinking and deactivation in any order;
`HistoryKeepsItsUnits` that returns bring back the pieces of the units they take,
however the unit was edited since the sale, and that shelf and lines balance.

### OutboundInspection, PointOfSale

The serial-tracked shipment: `addInspectionEvidence`, `completeInspection` and
`approveInspection` each read before their transaction, so each is a `Begin`
step that stores what it read in `request` and a second step that writes;
`Pack`, `Ship` and `Cancel` are serializable and atomic. Results with missing,
extra or damaged units (PARTIAL) cannot arise for serials counted by the server.

`PointOfSale` is a terminal and the server. The terminal pays online, and when
that is not answered puts the sale into its queue; a synchronisation sends the
queue and replaces it by what the answer says. On the server a replay handles
its items one by one: claim with a lease, create the sale, mark. Requests
outlive a caller who has given up, so two replays work on one queue; what such
a request would have answered is dropped (`Unheard`), what it does is not. A sale is
one unit of cash, its key and shift fixed when it is paid; the shift's closing
count is compared with the sales that were created in it.

### PurchaseRequests, GoodsReceipts, StockDocuments, Deliveries

`PurchaseRequests` has the request, the approvals it waits for (steps, votes,
delegation, escalation and expiry by the worker) and the order it becomes.
`submit`, `decide`, `cancel` and `convert` are sequences of statements: a user's
`Abandon` is the process that stops between two of them.

`GoodsReceipts` has the receipts of one order with their inspections. Creating
and confirming are serializable; rejecting, completing and approving an
inspection read a status and write later. Received and damaged units are told
apart, a payable is a number of units.

`StockDocuments` has transfers and counts between warehouses with the postings
they make (inventory and goods in transit). `Post` is keyed, as in
`postOperationalEvent`: what was posted under a key is not posted again.

`Deliveries` has trips, stops, items on the manifest, gate passes, cash on
delivery, fuel, and the shipment rows that order handlers write too
(`OrderMoves`). An item is loaded, delivered and brought back as a whole.

### Settlement, Books

`Settlement` is what happens to an order after it was shipped and to a goods
receipt after it was posted. `txn` holds the finance transactions; the document
a transaction refers to fixes its type, as `create` enforces: an order is
collected, a goods receipt paid, a purchase return refunded by the supplier.
What is open is computed from the rows each time, as the three snapshot
functions do: `Owed` less `Settled` less what other transactions claim
(`Available`). The ledger is modelled by the running balances of the four
accounts concerned (`books`), so that rows and ledger can be compared. `oret`
and `pret` are the returns of the customer and to the supplier, `Allocate` the
rounding of a partial return; an amount is a gross, taxes included. Cash and
bank are one account. All handlers are serializable and one action each, except
the inspection handlers, which read before their transaction.

`Books` has the fiscal periods, the close controls, the journal entries they
freeze, and the reconciliation of bank statements. Entries are of three kinds:
drafted ahead (a pending finance transaction blocks a close), posted directly by
a handler, and payroll adjustments, which do not look at close controls. A
posting is two actions, `BeginPost` and `CommitPost`, because close controls are
written by transactions of the default isolation that it does not conflict
with; a change of the fiscal period aborts it. `AutoMatch` takes a line only
when exactly one free journal line fits; a reconciliation is re-evaluated by
every handler that touches it (`Refresh`).

### Payroll, Attendance, Assets, DocumentNumbers

`Payroll`: the regular run, adjustment runs on it, their payments, and the
finance transactions that settle what was withheld. What a calculation finds is
an input; `NetOver` and `OwedOver` are the deltas against the chain of runs
before, `Recovery` what is asked back of somebody already paid.

`Attendance`: one day. Punches arrive late, twice and out of order; a punch or a
correction is a read-committed transaction (read, then write), leave and lock
are serializable. `AttendanceIsTrue`: first in and last out are those of the
accepted punches and corrections, the day's count agrees with the records unless
somebody else's changed while the last punch was recorded (`uncounted`), the lock
is complete and leave stays within the quota.

`Assets`: acquisition, straight-line depreciation over date ranges (a month has
two days, so that a period may start in the middle of one), custody,
maintenance, disposal.

`DocumentNumbers`: `nextDocumentNumber` for callers inside a serializable
transaction (they hold the row lock until `Commit` or `Fail`) and for callers
that pass the bare client (payslips, sale returns, POS shipments), whose
increment stays although the document is not created.

### AutomationJobs, Notifications, ReportSchedules, EventDelivery

`AutomationJobs`: `effects` counts committed side effects. Time is two flags per
job, `due` and `stale`. A worker may die, abort, commit without learning it, or
outlive its ten-minute lock; an operator's request reads and writes in two
steps. The last three make a job *disturbed*: the safety properties that the
code only gives when leases are kept exclude exactly those jobs.

`Notifications`: the lease is the row's own `scheduledAt`, moved five minutes
ahead while the row stays QUEUED. Sending, marking, mirroring to the employee
portal and requeueing are statements of their own, each of which may fail
(`MaxTroubles`). A cancellation or replay reads and checks the row in one step
(`AskNote`) and writes it by id in another (`CancelNote`, `ReplayNote`), whatever
it has become: a message that was SENT meanwhile turns CANCELLED or QUEUED. Such
a write, and one that meets the message in a sender's hands, is a *trouble*.

`ReportSchedules`: one schedule, hours as time, an occurrence every `Day`
hours. The sweep is serializable, so that one of two workers that saw the same
due schedule fails, and its catch block postpones the schedule by id.

`EventDelivery`: `dispatchOutbox`, `sendWebhookDeliveries` and the replays. A
worker has one item in hand: read with the batch, claimed, worked on,
acknowledged. There is no unique key on (event, endpoint), so a delivery is
named by event, endpoint and the worker that created it. An item is *disturbed*
once it fell due again in the hands of a live worker: the lease is computed once
per batch (`index.ts:242`). Replays, too, read and check in one step
(`AskReplay`; `replaying` counts the requests that have read an item) and write
by id in another (`ReplayEvent`, `ReplayDelivery`), so that a late one takes a
DISPATCHED event or a DELIVERED webhook back; the item is disturbed by it only
if a worker has it in hand. `FanOutIsExact` holds through such replays, and
`DeliveredIsFinal` says that nothing else takes a webhook back.

## Runs

| Run | Instance | Shows |
|---|---|---|
| `supply_chain` | one request, two users, a policy of two steps, two approvals; one order of two units, two receipts, two clerks; one transfer of two units, one count; two trips that want one vehicle, two stops and items; two locations, one legacy and two new sources, at most 5 units | `OrderIsWarranted`: an order stands behind one approved request. `ReceivedAsOrdered`: receipts, payable and stock agree with the order. `StockIsAccountedFor`: warehouses and journal agree with the documents. `TripsAreConsistent`: trip, vehicle, goods and cash agree. `RowsAgree` and `LedgerSpec`: the location tables never drift, holders can ship, and the ledger is implemented |
| `orders` | two orders of 1 and 2 units over 2 units of stock, 2 references; two events about one order in two calls at once; a counter sale of two units worth 3 with two returns and an order, or two orders, with one correction and points that lapse after a day; a piece and a box of 1 or 2 pieces and one barcode, one line of two units with two returns, three edits | `StockFollowsOrders`, `MoneyFollowsOrders`, `ShipmentFollowsOrder`: the four stay in step under every interleaving; `PaidOrderIsKept`; `LapsedOrdersEnd`; `CallbacksAreTrue`; `PointsAreTrue`; `CopiesFollowTheirUnits`, `HistoryKeepsItsUnits` |
| `shop_floor` | two orders (2 units, cancellable; 1 unit, prepaid), 3 serials, 2 overlapping requests, scanning required; two sales of one shift, two replays, 2 attempts | `SerialsAreCounted`, `SerialsAreNotStolen`: what is sold is what was scanned, what is packed can be shipped. `SalesAreKept`: a sale is created once and one that is reported applied exists. `SoldInSequence`, `ClosedShiftIsComplete` |
| `finance` | an order of 2 units and gross 2 or a goods receipt of 2 units and gross 3, three finance transactions, two returns each way; or two days with the three spans over them, three entries, three bank lines in two statements | `PayablesAgree`: debts and claims are not negative and agree in rows and ledger. `PaymentsAreTrue`: PAID means collected, no refund without money. `ReturnedOnce`. `BooksAreSound`, `ClosedBooksAreFinal`, `JournalledIsFinal` |
| `back_office` | two employees, one of them paid up to 2 and one who earns nothing, three runs, one claim; three punches, one correction, two leaves over a quota of one; two assets, of which one depreciates over three months and one has nothing to depreciate; three numbering callers, one of them bare | `PaidAsCalculated`, `LiabilitiesSettle`, `AttendanceIsTrue`, `AssetsReconcile`, `NumbersAreSound` |
| `worker_queues` | one job, 3 workers, 2 attempts, 2 crashes, 1 replay; two messages (one in-app), 2 senders, 2 sends, 2 requests of operators that may overlap, 1 trouble; one schedule over two days of two hours, 2 workers, 1 upset | `JobsAreTruthful`: an undisturbed job has one holder and one effect, SUCCEEDED never lies. `SentOnce`, `OccurrencesAreCovered`, `QueuesSettle` |
| `event_delivery` | 1 event, 1 endpoint, 2 workers, 2 tries; two replays or deactivations, or one crash or outlived lease | `FanOutIsExact`, `DeliveredIsFinal`, `EventsSettle` |
| `inspection_cancel_race` | as in `shop_floor` | violation: a cancelled order keeps a serial |
| `offline_sale_lost` | as in `shop_floor` | violation: a queued sale disappears |
| `settlement_over_collection` | as in `finance`, an order of gross 3 | violation: a receipt takes the receivable below zero |
| `numbers_rollover` | 3 transactional callers, 2 periods | violation: nobody gets a number in a new period |
| `report_twice` | as in `worker_queues`, five hours | violation: two jobs for one day |

Why the bounds are enough. Two orders with less stock than they need together
is the smallest contest; a third order adds no interaction that two do not
have. The stock instance lets one reservation span two locations and compete
with a legacy holder. Three workers are what it takes to see a worker overtaken
by a second while a third claims. Two attempts give a first failure, a retry
and exhaustion (10 and `maxAttempts` in the code). One trouble or upset
means one crash, outlived lease, failed statement or edit at any point, and a
crash or outlived lease takes both mishaps of `event_delivery`. Two replays are
what a stale one needs: the first is written and delivered between the read and
the write of the second;
partial fan-out over several endpoints, which one endpoint cannot show, is
covered by the proof for any number of them. Two requests in hand show every
read that is stale when it is used; where three callers matter (numbering) there
are three.

Three finance transactions are a payment, and two refunds contending for what it
left; two returns of two units give a first and a last part, and a gross of
three, which a goods receipt and a counter sale have, does not divide by two, so
that the parts are rounded. The order of that run divides evenly: that
the parts of an order are rounded is left to the proofs, which hold for all amounts. Two trips that want one vehicle are what a vehicle must be protected from;
trips of different vehicles meet in the shipments only, as these two do. An
employee who earns nothing and an asset with nothing to depreciate are the zero
cases of runs that must still balance. Three payroll runs are a regular run, a
correction and a correction of it. Two days with the spans `[1,1]`, `[1,2]` and
`[2,2]` have a period that meets another, one beside it, and one inside. Three
bank lines that fit two entries make every match ambiguous once.

Every other bound stops a counter that only grows: `MaxApprovals`, `MaxStock`,
`MaxLines`, `MaxTrades`, `MaxOdometer`, `MaxOnHand`, `Horizon`, `LastToday`,
`MaxManual`, `MaxNumber`, `MaxPeriod`, `MaxOwed`, `Months`. Symmetry is declared
over identities that are interchangeable in every part, and in no run that checks
a liveness property.

`CHECK_DEADLOCK FALSE` is set where the system may stop for good: every job
final, every event settled, every order shipped, every counter at its bound,
every transaction posted or cancelled.

Some properties have several conjuncts; the run needs one faulty variant per
property, and the modules keep the variants of the other conjuncts
(`OtherStockOnHand`, `ConfirmPaymentUnchecked`, `ReducesReceivableByMethod`,
`ReleaseExpiredRowless`, `DepositUnclassified`, `BeginCompleteLax`,
`ScanUnclaimed`, `RequeueUncounted`, `BumpApart`, `MeetInside`, `AbortMarked`
and others, each beside its action).

### Fairness

- `Storefront`: weak fairness of `Expire`. `tick` repeats every interval and reads
  lapsed orders by `expiresAt`, fifty at a time. One order that cannot be
  released would not stop the next ones: each has its own try/catch.
- `AutomationJobs`: weak fairness of clocks, of the claim of a claimable job and
  of each live worker's next step. No fairness of crashes, operators or success.
- `Notifications`: weak fairness of leases and backoffs running out and of each
  sender's next step on the message in hand, strong fairness of reading a due
  one (25 at a time, oldest first). Attempts are counted, so a message that keeps
  failing ends FAILED.
- `EventDelivery`: weak fairness of clocks and of each worker's next step; strong
  fairness of the read of an item, since other workers keep taking it out of
  reach and a batch is ordered oldest first.

An exception that escapes a step of `tick` skips the later steps of that tick;
the fairness above assumes that this does not happen for ever. Nothing else is
forced: a customer may never pay, a clerk never decide, a terminal never
synchronise, and there are no liveness properties of those components.

### What the violation runs say

The findings in `PROJECT.json` quote the documentation each one contradicts.

1. `numbers_rollover`. When the calendar leaves the period of `lastResetAt`,
   `current` becomes 1 (`numbering.ts:84`) and the compare-and-set looks for a row
   whose `nextNumber` is 1 (`:89`). The row still has last period's number, no
   caller ever matches, and documents of that type cannot be created from then
   on. Only sequences with `resetPolicy` MONTHLY or YEARLY are concerned.
2. `inspection_cancel_race`. A scan that read the inspection before an order was
   cancelled reserves a serial afterwards; nothing frees it again.
3. `settlement_over_collection`. A return confirmed before the order was collected
   is booked against the receivable; the snapshot that later receipts are checked
   against still starts from the order's whole total, so a receipt for all of it
   is accepted and leaves 1201/1203 below zero.
4. `offline_sale_lost`. A synchronisation writes back the queue it saw when it
   started; a sale queued meanwhile is overwritten.
5. `report_twice`. Of two workers that sweep one due schedule, the one whose
   transaction fails moves the schedule back to the next hour, which makes a
   second job for the same day.

### Further disagreements

Met while modelling, shown by TLC on these modules, and not given a run of their
own. The properties that are checked exclude exactly these cases, and say so.

- Purchase requests: two overlapping submissions leave two pending approvals
  (`purchase-requests.service.ts:98`).
- Goods receipts: a rejection that read the receipt before its confirmation
  overwrites CONFIRMED while stock and payable stay
  (`goods-receipts.service.ts:392`).
- Opname: a completed count can be submitted and completed again; the second one
  posts another adjustment (`advanced-inventory.service.ts:479`).
- Fleet: closing a trip compares its end with its own start, so that a reading
  entered with fuel in between is set back (`fleet.service.ts:634` against
  `docs/ASSET-FLEET-OPERATIONS.md:32` and `:75`).
- Attendance: a correction read before the payroll lock is applied after it
  (`attendance.service.ts:686`). Payroll: the result of somebody who left since the
  last calculation stays, so that the run is refused as inconsistent however
  often it is calculated again (`payroll.service.ts:1089`).
- Automation: an effect is committed twice when only the acknowledgement of its
  transaction was lost (`index.ts:776`); cancellation checks with a plain read and
  updates by id, and may overwrite SUCCEEDED (`platform.service.ts:591`).
- Notifications and webhooks: so do their cancellation and replays
  (`platform.service.ts:757`, `:771`, `:785`, `:801`). A notification sent between
  read and write becomes CANCELLED, as if it had not been, or is queued and sent
  again; of two replays of one webhook or event the second may come after the
  first was delivered, and repeats it.
- Assets: an asset on a running work order can be transferred
  (`docs/ASSET-FLEET-OPERATIONS.md:42` against `assets.service.ts:139`); assigning
  does not look at the asset's status; two depreciation runs that share a month
  without overlapping charge it twice.
- Books: a posting that passed the close controls lands after one is closed, and
  payroll adjustments do not ask them (`docs/ENTERPRISE-ACCOUNTING-TAX.md:37`);
  two overlapping close controls pass each other's check
  (`accounting-core.service.ts:130`); a COMPLETED reconciliation stays so when
  another one, which shares its lines, undoes a match.
- Points: an account with an older grant that never expires loses it: the entry
  that records an expiry is matched to the oldest grant first, so the lapsed one
  is still whole for the next sweep (`index.ts:811`), which repeats until the
  account is empty.
- Order returns: parts that are rounded up separately add up to more than was
  paid when a piece costs less than half a hundredth per request, and the last part is then
  refused (`returns.service.ts:40`, `:37`); see `AmplePrices` under Proofs.
- Sale returns: parts are rounded half up one by one, so that together they can
  be worth more than the line, and the last one is then refused as negative
  (`returns.service.ts:37`): of four units sold for 0.02 three give back 0.01
  each, and the fourth is refused; see `AmpleBill`.
- Sale returns: two requests at once give back more than was sold
  (`returns.service.ts:219` against `docs/FUNCTIONAL-COMPLETENESS-W0-W2.md:28`);
  a request that stops before its inspection is linked is confirmed without one
  (`:309`, `:343`). The balance noted on what a sale earned starts from zero
  when nothing was redeemed (`sales.service.ts:934`).
- Selling units: a line that names a unit together with a barcode that is linked
  to none keeps the unit but takes code and factor from the barcode
  (`transaction-uom.ts:105` against its `:37`, "ProductUnit is the authority", and
  `docs/F11-UOM-TRANSACTION-COMPLETION.md:7`).
- Callbacks: a repetition is answered as accepted although the first call died or
  failed, so an event may stay RECEIVED or FAILED for good
  (`payments.service.ts:73`). `QUALITY-GATES.md:32` promises only that there is no
  double payment, which holds.

## Proofs

The theorems hold for every value of the constants that meets the named
assumption of the module. They are in eight modules, one for each specification
of the table above (`Storefront_proofs` to `EventDelivery_proofs`, the order of
a module being that of its components) and `SumTheorems` for what they share.
For each component there are an inductive invariant (`...IInv`), facts about
single steps, a lemma with one case per action that a step keeps the invariant,
and the theorems that follow. The inductive invariants were checked by TLC on
the instances of the runs before they were proved.

What is assumed beyond the bounds that the code itself states: that the sets of
rows that are summed over are finite (`IsFiniteSet`), that markers like `None`
are not members of the sets they stand beside, that amounts are natural numbers
and that a day belongs to a month. Two theorems of the settlement state a
hypothesis of their own, `AmplePrices`; `PointsAreTrue` itself speaks of money and
points given back only for sales with an `AmpleBill`. Parameters that only bound TLC's search
(`MaxCrashes`, `MaxTrades` and the like) are any natural numbers.

**Sums.** Money, goods and points are counted with `SumFunctionOnSet`. The
library's induction theorems take a predicate as parameter, which the provers
cannot instantiate; `SubsetInduction` takes the set of those subsets for which
the claim holds instead, so that induction over a finite set becomes a first
order fact (`UpToInduction` does the same for the first n numbers). From it: `SumPicked` (the library's fold and the recursive equation
agree), and the laws the invariants are kept by (`SumUpdated` for one row
written, `SumAdded`, `SumExtended` and `SumRemove` for a row that begins or
ceases to count, `SumReplaced` for a row that does any of these at once, `SumSplit`,
`SumOfOthers`, `SumMinus`, `SumScaled`, `SumAtMost`, `SumMember`, and `SumShifted`
for units moved between two rows). The modules
that are reasoned about name the functions they add up (`CashTaken`, `Sent`)
rather than use an anonymous operator.

**Storefront.** Whether `Ship` may clear an advance depends on how the payment
got its method, status and posting marks: `MoneyFollowsOrder` says, for each
status of the order, which payment columns are possible, and with it each
handler is one case. `HeldMatchesOrder` and the sums give `StockFollowsOrders`:
what is reserved is what the unfinished orders hold. `CallbacksImplement`:
every behaviour of the callbacks taken apart is one of `Orders`, each statement a
step of the order or none, so that the theorems hold of it; `CallbacksCorrect`
rests on `StepsTell` (where a request is says what became of its event) and
`OneHandles` (the unique key lets one request past its creation). For units,
`SellingIInv` counts a line and its returns by the factor the line was sold with
(`CountedByTheLine`), never more back than sold (`ClaimsFit`), the shelf with both
(`ShelfIsCounted`); a factor times a sum is the sum of the multiples (`SumScaled`),
which is `UnitsAreKept` whatever happened to the unit in between.
`CopiesCorrect` goes through the edits: only one that reaches the copies, or is
remembered as `outdated`, changes what they copy.

For points, `PointsIInv` says that the account is its ledger (`AccountIs`), that
the ledger never ran into debt and dates its grants in order (`LedgerHolds`), that
parcels and tickets earned what their returns take back (`ParcelsCovered`,
`TicketsEarned`, `RefundsFit`), and that the parts of a sale are worth their share
to within half a hundredth each, the part being asked for included (`SalesFit`).
What the parts of an ample bill leave is then never negative (`AmplePartsFit`),
and what they are worth in points no more than what the bill earned
(`WorthOfParts`: rounding parts down takes no more than rounding their sum down).
Only lapsed grants expire because of `Fifo`: what the first j grants have left
after k entries is what they gave less everything taken so far, and not less than
nothing. `FifoStep` has one case for a grant and one for a debit, and since grants
fall due in the order in which they were made, the lapsed ones are the first j
for some j, so that a sweep takes no more than they gave and earlier sweeps left
(`ExpiryFits`, `ExpiryCovered`). `Leftover` is a recursive function; that there is
a table that obeys its equation, for any length of the ledger, is `TableExists`,
proved by induction through sets of numbers.

`StorefrontIsEach` lifts orders, callbacks, points and units to the composition
that is checked (`StorefrontKeepsItsPromises`).

**Shop floor.** `SoldWithOrder`, `CountsInRange` and `EvidenceFirst` (a packed
order was completed with the evidence its serials left, which cannot be taken back
before it ships) give `SerialsCounted`; the claim by status makes theft impossible
whatever was read before (`NotStolen`). `SalesIInv` follows a sale from the
terminal to the books: an item that is APPLIED, in a receipt, in a replay or in an
answer on its way, has its sale (`AppliedIsSold`); a claim of the receipt or a
posting in hand excludes a second one; a batch is worked off in the order in which
it was queued (`BegunInOrder`, `BatchInOrder`), which is `SequenceKept`; and a
closed shift has no request that could still add to it. What a replay does to its
own row and to a receipt is one relation, `RowStep`; `RowStepKeeps` shows that it
keeps the invariant, and each statement of a replay that it is one.

**Supply chain.** `RequestsIInv`: what makes a request APPROVED, an order placed or
a vote recorded is an approval of that request decided APPROVED, which is never
written again, and a call in progress knows nothing that was not so (`SoundCall`).
`ReceiptsIInv` ties received, ordered and stocked quantities to the receipts that
count. `DocumentsIInv`: a key is posted only when the step it stands for is done
(`TransferIsInStep`, `OpnameIsInStep`), so that every unit is at a warehouse, on
the road or written off; nothing is claimed once a document was taken back
behind a posted step. `DeliveriesIInv` ties stops, items, cash and vehicles to
their trip and the shipment to whoever wrote it last. 
For the rows of the location stock, `RowsAreSound` says that the columns of the
locations add up to the aggregate and the conditions split each row, and
`HoldsAreSound` that what a row reserves beyond its reservation rows is what the
sources without such rows hold; together they are `WarehouseIInv`. Every
statement of the code is an `After`, so many units added to or taken from each
column of each location, and whatever moves the columns in step keeps the rows
sound (`RowsWritten`). That a holder can always ship needs an allocation:
`GreedyExists`, an induction over the finite set of locations, has one whenever
the locations together have enough. `BooksAre` identifies the free units of
`StockLedger` with the available column of the aggregate, and
`RowsImplementLedger` goes through its actions one case each. `SupplyIsEach` lifts all
five parts to the composition (`SupplyKeepsItsPromises`, `SupplyTyped`).

**Finance.** `Shape`, `SettledWithCause` and `RefundedTogether` are inductive
together whatever the amounts are, one lemma per side (`CustomerReturnInv`,
`SupplierReturnInv`) each replacing one row; `JournalledIsFinal` then needs one
case per action. On it rests `SettlementIInv`, with the sums. Posting is the one
step that changes what is settled of a document, by the amount posted, which is
no more than what is open (`PostSettles`); drafts and their fate change nothing
(`OpenTxnsSettleNothing`). For a supplier, a confirmed return takes from the
debt at most what is left of it and claims the rest (`GoodsReturned`), so that
`PayablesCorrect` holds for any amounts; `ReceivableWritten` moves account 1202
with the one return that was written. A customer's return is priced by
`Allocate`, and since requests can be rejected and made again, what is left for
the last one may carry the roundings of all earlier ones. `SharedFairly`
is what stays: any set of returns that count is priced in proportion, to within
half a unit of money for each request ever made (`RequestShares`; the last part is
compared with what the others left, `SharesOfRest`). For the whole this says that
parts may be worth more than the document when the price of a piece is less
than half the number of requests, in hundredths of a rupiah, and TLC finds that
state. `AmplePrices` excludes it: a piece of one rupiah allows two hundred
requests on its order. `ReturnsCorrect` and the half of `PaymentsCorrect` about
refunds need it; the rest (`PaidIsCollected`, `SharesAreFair`, `PayablesCorrect`)
does not. For the books, a
reconciliation that has its lines to itself is re-evaluated by whatever touches
them, and an automatic match goes to an entry nobody used so far, which is why
`BooksAreSound` holds. `ClosedIsFinal` is an action property by cases.
`FinanceIsBoth` lifts both to the composition.

**Back office.** `WriterAlone` (one open transaction has written the row, and
while it has, the committed counter does not move), `SpentBelow` and `Apart`
(numbers in hand are different and unspent) give `NumbersAreUnique`; that every
number below the counter is on a document, in a caller's hands or given up is
`NumbersSound`. `AttendanceIInv` has what a request to lock has seen
(`SnapshotIsSettled`) and that a waiting leave still fits the quota
(`WaitingFits`) beside the records and counts themselves. `AssetsIInv` holds the
two accounts against the sum over the assets and each asset against the months
that were charged to it. For payroll, `RunsAreChained` says that the runs which
are not cancelled are one regular run and its adjustments, of which only the last may
be unfinished; `RowsAreExact` that a row is what its calculation found less what
the runs before it say, and that no employee of theirs is without a row; so that
the rows of all posted runs add up to the last calculation. `PaymentsBalance`
holds the payments of each employee (`Worth`: given, or asked back) against these
rows, and the step that matters is `AdjustmentBalances`: a lower pay takes from the
open payments of the earlier runs, the newest first, all there is or all that is
needed (`SumTaken`, an induction that removes the least run), and asks for
the rest. `ClaimsCovered` does the same for account 2104: an adjustment
lowers what was withheld only by what no claim needs. `PayCorrect` and
`LiabilitiesCorrect` follow, and `OfficeIsEach` lifts all desks to the
composition (`OfficeKeepsItsPromises`).

**Queues and events.** `HolderIsLocked` ties an undisturbed job in a worker's hands
to a PROCESSING row that is not stale, which is why no second claim is possible;
`RequestDisturbs` says that a pending operator request has already disturbed its
job; of messages and events it is the write that does, if it comes out of turn. The same leases protect a message (`MessagesSentOnce`) and a schedule
(`OccurrencesCovered`), and with `VisitedHaveRows` (a dispatcher has only crossed off
endpoints that have a delivery) and `StillAbsent` (what it found missing is
still missing while it holds the lease) the fan-out of an event.

Only model-checked is liveness (`LapsedOrdersEnd`, `QueuesSettle`,
`EventsSettle`), which needs ENABLED and fairness and is beyond the provers. Every
invariant and every action property of a passing run is stated by a theorem.

## Plan

Written, in this order: stock, orders, automation queue, numbering, inspection,
outbox, settlement; supply chain, point of sale, back office, notifications and
reports; books, callbacks, points. Still to do, most important first:

1. Edge devices: submission, requeueing and acknowledgement of offline
   transactions, and the cursor of `syncPull` (`extensions.service.ts`).
2. Promotions: quota counting in checkout and counter sales.
3. Sessions: refresh rotation and revocation (`auth.service.ts`).
4. Handovers, confirmations and templates of operations control; cancellation of
   purchase orders.

## Not modelled

Prices, taxes, product variants and default-unit flags, access control, formatting and rendering,
DNS and target checks of webhooks, uploads, front ends other than the till,
scripts and migrations. Master data, customers, products and most of
`extensions` are independent rows that are created, read and updated. Reports,
forecasts, aging and insights only read. Isolation is trusted: PostgreSQL is
assumed to give serializable transactions where the code asks for them. The
SQLite profile used for tests runs one writer at a time and has fewer
behaviours.
