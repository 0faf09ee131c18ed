---------------------------- MODULE PointOfSale ----------------------------
(***************************************************************************)
(* A cashier's terminal and the server: shifts and sales (SalesService),    *)
(* the terminal's offline queue (pos/app/page.tsx over pos/lib/offline.ts)  *)
(* and its replay.  Opening and closing a shift, creating a sale and        *)
(* claiming a replayed item are serializable transactions; what a replay    *)
(* writes after them are single statements.  Calls get lost on the way and  *)
(* the server goes on with those whose caller has given up.  A sale is one  *)
(* unit of cash, and its payload, key and shift are fixed when it is paid.  *)
(***************************************************************************)
EXTENDS Naturals, FiniteSetsExt, Functions

CONSTANTS
  LastSale,     \* bound on sales
  LastShift,    \* bound on shifts of the cashier
  Replays,      \* replay requests the server may be working on at once
  MaxAttempts,  \* claims of an item before a failure is final (5 in the code)
  None          \* no sale, no request

ASSUME PointOfSaleAssumption ==
  /\ LastSale \in Nat /\ LastShift \in Nat \ {0} /\ MaxAttempts \in Nat \ {0}
  /\ None \notin Replays \cup Nat

Sales == 1..LastSale
Shifts == 1..LastShift

VARIABLES
  shift,       \* CashierShift: status, cash moved by hand, expectedCash
  rows,        \* Sale rows created for each sale
  receipt,     \* OfflineTransaction: status, attempts, whether its lease lives
  replay,      \* what the server does for each replay request
  posting,     \* sales whose POST /sales the server may still carry out
  drawer,      \* the shift the terminal believes open
  shiftOf,     \* cashierShiftId in the payload of a sale, 0 before it is paid
  queue,       \* the terminal's offline queue: status of its entries
  paying,      \* the online payment under way: its sale, the queue it saw
  syncing,     \* the synchronisation under way: its request, the queue it saw
  offline,     \* sales that were ever put into the queue
  refused,     \* sales that a replay found in conflict
  overwritten  \* entries lost from the queue by a stale copy of it

saleVars == <<shift, rows, receipt, replay, posting, drawer, shiftOf, queue, paying, syncing,
          offline, refused, overwritten>>
serverVars == <<shift, rows, receipt, replay, posting>>
terminalVars == <<drawer, shiftOf, queue, paying, syncing, offline, overwritten>>

\* PENDING stands for every result and entry that is tried again.
Results == {"NONE", "APPLIED", "CONFLICT", "PENDING"}
Queues == [Sales -> {"NONE", "PENDING", "CONFLICT"}]
NoResults == [s \in Sales |-> "NONE"]
NoReplay == [at |-> "idle", batch |-> {}, attempts |-> 0, result |-> NoResults]

SalesTypeOK ==
  /\ shift \in [Shifts -> [status : {"NONE", "OPEN", "CLOSED"}, moved : Nat, expected : Nat]]
  /\ rows \in [Sales -> Nat]
  /\ receipt \in [Sales -> [status : {"NONE", "PROCESSING", "APPLIED", "CONFLICT", "FAILED", "DEAD_LETTER"},
                            attempts : 0..MaxAttempts, lease : BOOLEAN]]
  /\ replay \in [Replays -> [at : {"idle", "claim", "create", "mark", "answer"},
                             batch : SUBSET Sales, attempts : 0..MaxAttempts, result : [Sales -> Results]]]
  /\ posting \subseteq Sales /\ drawer \in Shifts \cup {0} /\ shiftOf \in [Sales -> Shifts \cup {0}]
  /\ queue \in Queues
  /\ paying \in [sale : Sales \cup {None}, seen : Queues]
  /\ syncing \in [request : Replays \cup {None}, seen : Queues]
  /\ offline \subseteq Sales /\ refused \subseteq Sales /\ overwritten \subseteq Sales

SalesInit ==
  /\ shift = [k \in Shifts |-> [status |-> "NONE", moved |-> 0, expected |-> 0]]
  /\ rows = [s \in Sales |-> 0]
  /\ receipt = [s \in Sales |-> [status |-> "NONE", attempts |-> 0, lease |-> FALSE]]
  /\ replay = [r \in Replays |-> NoReplay]
  /\ posting = {} /\ drawer = 0 /\ shiftOf = [s \in Sales |-> 0]
  /\ queue = NoResults
  /\ paying = [sale |-> None, seen |-> NoResults]
  /\ syncing = [request |-> None, seen |-> NoResults]
  /\ offline = {} /\ refused = {} /\ overwritten = {}

-----------------------------------------------------------------------------
(* Shifts *)

SalesOf(k) == {s \in Sales : shiftOf[s] = k}
CashOf(k) == SumFunctionOnSet(rows, SalesOf(k)) + shift[k].moved

\* One open shift for each cashier.
OpenShift(k) ==
  /\ shift[k].status = "NONE" /\ \A j \in Shifts : j < k => shift[j].status = "CLOSED"
  /\ shift' = [shift EXCEPT ![k].status = "OPEN"]
  /\ drawer' = k
  /\ UNCHANGED <<rows, receipt, replay, posting, shiftOf, queue, paying, syncing, offline, refused, overwritten>>

RecordCashMovement(k) ==
  /\ shift[k].status = "OPEN" /\ shift[k].moved = 0
  /\ shift' = [shift EXCEPT ![k].moved = 1]
  /\ UNCHANGED <<rows, receipt, replay, posting, refused, terminalVars>>

\* closeShift on the server, asked by this terminal or by another of the
\* cashier's, which does not know of this queue.
CloseShift(k) ==
  /\ shift[k].status = "OPEN"
  /\ shift' = [shift EXCEPT ![k].status = "CLOSED", ![k].expected = CashOf(k)]
  /\ UNCHANGED <<rows, receipt, replay, posting, shiftOf, queue, paying, syncing, offline, refused, overwritten>>

CloseShiftHere(k) == drawer = k /\ paying.sale = None /\ queue = NoResults /\ CloseShift(k) /\ drawer' = 0
CloseShiftElsewhere(k) == CloseShift(k) /\ UNCHANGED drawer

\* loadData.
RefreshDrawer ==
  /\ drawer # 0 /\ shift[drawer].status # "OPEN"
  /\ drawer' = 0
  /\ UNCHANGED <<serverVars, shiftOf, queue, paying, syncing, offline, refused, overwritten>>

-----------------------------------------------------------------------------
(* Creating a sale: create, within one transaction, behind beginIdempotent. *)

\* Faulty variants: no receipt is consulted; the shift is not looked at.
CreatesUngated(s) == shift[shiftOf[s]].status = "OPEN"
CreatesUnshifted(s) == rows[s] = 0
Creates(s) == rows[s] = 0 /\ shift[shiftOf[s]].status = "OPEN"

CreateSale(s) == rows' = IF Creates(s) THEN [rows EXCEPT ![s] = @ + 1] ELSE rows

\* POST /sales is carried out, possibly long after the terminal gave up; one that
\* is lost on the way never is.
ServeSale(s) ==
  /\ s \in posting
  /\ CreateSale(s)
  /\ posting' = posting \ {s}
  /\ UNCHANGED <<shift, receipt, replay, refused, terminalVars>>

-----------------------------------------------------------------------------
(* The terminal *)

\* The cart's sale: earlier ones are done, or were begun in another shift, under
\* another key.
Ready(s) == /\ drawer # 0 /\ paying.sale = None
            /\ rows[s] = 0 /\ s \notin offline /\ shiftOf[s] \in {0, drawer}
            /\ \A p \in Sales : p < s => p \in offline \/ rows[p] > 0 \/ shiftOf[p] \notin {0, drawer}

Stamp(s) == shiftOf' = [shiftOf EXCEPT ![s] = IF @ = 0 THEN drawer ELSE @]

\* pay while the server answers; after an error it is repeated with its key.
Pay(s) ==
  /\ Ready(s) /\ Stamp(s)
  /\ paying' = [sale |-> s, seen |-> queue]
  /\ posting' = posting \cup {s}
  /\ UNCHANGED <<shift, rows, receipt, replay, drawer, queue, syncing, offline, refused, overwritten>>

\* The answer: a sale, or an error that leaves the cart as it is.
PayAnswered ==
  /\ paying.sale \in Sales \ posting
  /\ paying' = [sale |-> None, seen |-> NoResults]
  /\ UNCHANGED <<serverVars, drawer, shiftOf, queue, syncing, offline, refused, overwritten>>

\* queueSaleOffline writes the queue it saw and the new entry.
Enqueue(s, seen) ==
  /\ queue' = [seen EXCEPT ![s] = "PENDING"]
  /\ offline' = offline \cup {s}
  /\ overwritten' = overwritten \cup {p \in Sales : queue[p] # "NONE" /\ queue'[p] = "NONE"}

\* The connection drops: whether the server has the sale is not known.
PayUnanswered ==
  /\ paying.sale # None
  /\ Enqueue(paying.sale, paying.seen)
  /\ paying' = [sale |-> None, seen |-> NoResults]
  /\ UNCHANGED <<serverVars, drawer, shiftOf, syncing, refused>>

PayOffline(s) ==
  /\ Ready(s) /\ s \notin posting /\ Stamp(s)
  /\ Enqueue(s, queue)
  /\ UNCHANGED <<serverVars, drawer, paying, syncing, refused>>

\* syncOfflineQueue, by itself or by hand with the conflicts.
StartSync(r, withConflicts) ==
  LET batch == {s \in Sales : queue[s] \in {"PENDING"} \cup IF withConflicts THEN {"CONFLICT"} ELSE {}}
  IN  /\ syncing.request = None /\ replay[r].at = "idle" /\ batch # {}
      /\ syncing' = [request |-> r, seen |-> queue]
      /\ replay' = [replay EXCEPT ![r] = [NoReplay EXCEPT !.at = "claim", !.batch = batch]]
      /\ UNCHANGED <<shift, rows, receipt, posting, drawer, shiftOf, queue, paying, offline, refused, overwritten>>

\* The queue seen at the start, with the results, replaces the queue.  Faulty
\* variant: entries the server did not answer for are taken for done.
SettledUnasked(entry, result) == IF result \in {"NONE", "APPLIED"} THEN "NONE" ELSE result
Settled(entry, result) ==
  CASE entry = "NONE" \/ result = "APPLIED" -> "NONE"
    [] result = "NONE" -> entry
    [] OTHER -> result

SyncAnswered(r) ==
  /\ syncing.request = r /\ replay[r].at = "answer"
  /\ queue' = [s \in Sales |-> Settled(syncing.seen[s], replay[r].result[s])]
  /\ overwritten' = overwritten \cup {s \in Sales : queue[s] # "NONE" /\ syncing.seen[s] = "NONE"}
  /\ syncing' = [request |-> None, seen |-> NoResults]
  /\ replay' = [replay EXCEPT ![r] = NoReplay]
  /\ UNCHANGED <<shift, rows, receipt, posting, drawer, shiftOf, paying, offline, refused>>

\* Nobody hears the answer of a request whose caller gave up: it keeps no
\* results, and is over with its last statement.
Unheard(row) == IF row.at = "answer" THEN NoReplay ELSE [row EXCEPT !.result = NoResults]
Heard(r, row) == IF syncing.request = r THEN row ELSE Unheard(row)

\* The connection drops, the server goes on.
SyncUnanswered ==
  /\ syncing.request # None
  /\ syncing' = [request |-> None, seen |-> NoResults]
  /\ replay' = [replay EXCEPT ![syncing.request] = Unheard(@)]
  /\ UNCHANGED <<shift, rows, receipt, posting, drawer, shiftOf, queue, paying, offline, refused, overwritten>>

-----------------------------------------------------------------------------
(* replayOfflineSales *)

Item(r) == Min(replay[r].batch)

\* Faulty variant: the batch goes on after an item that was not applied.
BlockedNot(r, result) ==
  [replay[r] EXCEPT !.at = IF replay[r].batch = {Item(r)} THEN "answer" ELSE "claim",
                    !.batch = @ \ {Item(r)}, !.attempts = 0, !.result[Item(r)] = result]

\* The items after one that is not applied wait.
Blocked(r, result) ==
  [replay[r] EXCEPT !.at = "answer", !.batch = {}, !.attempts = 0,
     !.result = [s \in Sales |-> IF s = Item(r) THEN result
                                 ELSE IF s \in replay[r].batch THEN "PENDING" ELSE @[s]]]
Applied(r) ==
  [replay[r] EXCEPT !.at = IF replay[r].batch = {Item(r)} THEN "answer" ELSE "claim",
                    !.batch = @ \ {Item(r)}, !.attempts = 0, !.result[Item(r)] = "APPLIED"]

Live(s) == receipt[s].status = "PROCESSING" /\ receipt[s].lease

ClaimItem(r) ==
  LET s == Item(r)
      attempts == Min({receipt[s].attempts + 1, MaxAttempts})
  IN  /\ replay[r].at = "claim"
      /\ IF receipt[s].status \in {"APPLIED", "DEAD_LETTER"} \/ Live(s)
           THEN /\ replay' = [replay EXCEPT ![r] =
                                Heard(r, IF receipt[s].status = "APPLIED" THEN Applied(r) ELSE Blocked(r, "PENDING"))]
                /\ UNCHANGED receipt
           ELSE /\ receipt' = [receipt EXCEPT ![s] =
                                 [status |-> "PROCESSING", attempts |-> attempts, lease |-> TRUE]]
                /\ replay' = [replay EXCEPT ![r].at = "create", ![r].attempts = attempts]
      /\ UNCHANGED <<shift, rows, posting, refused, terminalVars>>

\* Written only while the item is PROCESSING, for whichever request.
Write(s, status) ==
  receipt' = IF receipt[s].status = "PROCESSING" THEN [receipt EXCEPT ![s].status = status, ![s].lease = FALSE]
             ELSE receipt

\* registerConflict and the business errors of quote and create: a stale price
\* list, another total, a shift that is closed, stock that is gone.
RefuseItem(r) ==
  /\ replay[r].at = "create"
  /\ Write(Item(r), "CONFLICT")
  /\ replay' = [replay EXCEPT ![r] = Heard(r, Blocked(r, "CONFLICT"))]
  /\ refused' = refused \cup {Item(r)}
  /\ UNCHANGED <<shift, rows, posting, terminalVars>>

\* The sale's transaction, or the sale an earlier request created.
CreateItem(r) ==
  /\ replay[r].at = "create"
  /\ rows[Item(r)] > 0 \/ Creates(Item(r))
  /\ CreateSale(Item(r))
  /\ replay' = [replay EXCEPT ![r].at = "mark"]
  /\ UNCHANGED <<shift, receipt, posting, refused, terminalVars>>

MarkApplied(r) ==
  /\ replay[r].at = "mark"
  /\ Write(Item(r), "APPLIED")
  /\ replay' = [replay EXCEPT ![r] = Heard(r, Applied(r))]
  /\ UNCHANGED <<shift, rows, posting, refused, terminalVars>>

\* A technical failure: of the checks, of the transaction, of its commit's
\* answer or of the update that marks the item.
MarkFailed(r) ==
  /\ replay[r].at \in {"create", "mark"}
  /\ Write(Item(r), IF replay[r].attempts >= MaxAttempts THEN "DEAD_LETTER" ELSE "FAILED")
  /\ replay' = [replay EXCEPT ![r] = Heard(r, Blocked(r, "PENDING"))]
  /\ UNCHANGED <<shift, rows, posting, refused, terminalVars>>

\* Ten minutes pass.
LeaseExpires(s) ==
  /\ Live(s)
  /\ receipt' = [receipt EXCEPT ![s].lease = FALSE]
  /\ UNCHANGED <<shift, rows, replay, posting, refused, terminalVars>>

\* The process dies.
RequestEnds(r) ==
  /\ replay[r].at # "idle" /\ syncing.request # r
  /\ replay' = [replay EXCEPT ![r] = NoReplay]
  /\ UNCHANGED <<shift, rows, receipt, posting, refused, terminalVars>>

-----------------------------------------------------------------------------
SalesNext ==
  \/ \E k \in Shifts : OpenShift(k) \/ RecordCashMovement(k) \/ CloseShiftHere(k) \/ CloseShiftElsewhere(k)
  \/ RefreshDrawer \/ PayAnswered \/ PayUnanswered \/ SyncUnanswered
  \/ \E s \in Sales : ServeSale(s) \/ Pay(s) \/ PayOffline(s) \/ LeaseExpires(s)
  \/ \E r \in Replays : \/ \E withConflicts \in BOOLEAN : StartSync(r, withConflicts)
                        \/ SyncAnswered(r) \/ ClaimItem(r) \/ RefuseItem(r) \/ CreateItem(r)
                        \/ MarkApplied(r) \/ MarkFailed(r) \/ RequestEnds(r)

SalesSpec == SalesInit /\ [][SalesNext]_saleVars

-----------------------------------------------------------------------------
(* However often a sale is posted, queued and replayed, by requests whose   *)
(* caller has gone and requests that took over an expired lease, it is      *)
(* created once (page.tsx:618, create, replayOfflineSales).                 *)
SoldOnce == \A s \in Sales : rows[s] <= 1

(* What the terminal is told to forget has been sold: neither a receipt nor *)
(* an answer says APPLIED otherwise, and an entry leaves the queue for no   *)
(* other reason than a stale copy of it (MarkApplied, SyncAnswered).        *)
AppliedIsSold ==
  /\ \A s \in Sales : receipt[s].status = "APPLIED" => rows[s] = 1
  /\ \A r \in Replays, s \in Sales : replay[r].result[s] = "APPLIED" => rows[s] = 1
  /\ \A s \in offline \ overwritten : queue[s] # "NONE" \/ rows[s] = 1

SalesAreKept == SoldOnce /\ AppliedIsSold

(* Offline sales reach the books in the order of their sequence: one comes  *)
(* before an earlier one only if that one was refused as a conflict or was  *)
(* lost from the queue (replayOfflineSales, syncOfflineQueue).              *)
SoldInSequence ==
  \A s, t \in offline : (s < t /\ receipt[t].status = "APPLIED") =>
    rows[s] = 1 \/ s \in refused \cup overwritten

(* A closed shift's expected cash stays the cash of its sales: no late post *)
(* and no replay reaches a shift that was counted (closeShift, create).     *)
ClosedShiftIsComplete == \A k \in Shifts : shift[k].status = "CLOSED" => shift[k].expected = CashOf(k)

(* page.tsx:383: offline sales are not thrown away.                         *)
NothingIsThrownAway == \A s \in offline : queue[s] # "NONE" \/ rows[s] = 1
=============================================================================
