--------------------------- MODULE LoyaltyPoints ---------------------------
(***************************************************************************)
(* The loyalty account of a customer and what moves it: counter sales that *)
(* redeem and earn (SalesService.create), delivered storefront orders      *)
(* (OrdersService.deliver), transactions entered by hand                   *)
(* (ExtensionsService), sale returns and order returns (ReturnsService),   *)
(* and the worker that lets points lapse.  All are serializable            *)
(* transactions, except that a sale return is checked, created and given   *)
(* its inspection by statements of their own.  One program is active; a    *)
(* point redeemed is worth one unit of money.                              *)
(***************************************************************************)
EXTENDS Integers, SequencesExt

CONSTANTS
  Tickets, Parcels,  \* counter sales and storefront orders of the customer
  Baskets,           \* which of them one customer may buy
  Price, Sold,       \* of each its price, of a ticket the units sold
  Rate,              \* money per point: earnRate is 1/Rate
  Life,              \* pointsExpireDays, 0 for never
  MinimumRedeem,
  Manual,            \* points an employee may enter at once
  MaxManual,         \* bound on entries by hand
  SaleReturns,       \* SaleReturn identities
  LastToday,         \* bound on the calendar
  Unsold             \* of a purchase not made yet

ASSUME LoyaltyAssumption ==
  /\ Price \in [Tickets \cup Parcels -> Nat] /\ Sold \in [Tickets -> Nat \ {0}]
  /\ Rate \in Nat \ {0} /\ Life \in Nat /\ MinimumRedeem \in Nat
  /\ Manual \subseteq Int \ {0} /\ MaxManual \in Nat /\ LastToday \in Nat
  /\ Tickets \cap Parcels = {} /\ SaleReturns \cap (Tickets \cup Parcels) = {} /\ IsFiniteSet(SaleReturns)
  /\ Baskets \subseteq SUBSET (Tickets \cup Parcels) /\ Unsold \notin Nat

VARIABLES
  today,
  bill,        \* total of each purchase of the customer, once sold or delivered
  account,     \* points and lifetimePoints of the LoyaltyAccount
  entries,      \* its LoyaltyTransactions, oldest first; expires 0 is null
  sreturn,     \* SaleReturn rows; ASKED: its request has checked the quantities
  overlapped,  \* tickets of which two returns were asked for at once
  giveBacks    \* value of each parcel's confirmed order returns

pointVars == <<today, bill, account, entries, sreturn, overlapped, giveBacks>>
returnVars == <<sreturn, overlapped, giveBacks>>

Purchases == Tickets \cup Parcels
NoSaleReturn == [status |-> "NONE", ticket |-> Unsold, quantity |-> 0, amount |-> 0, inspection |-> "NONE"]

PointsTypeOK ==
  /\ today \in 0..LastToday
  /\ DOMAIN bill \in Baskets /\ \A p \in DOMAIN bill : bill[p] \in Nat \cup {Unsold}
  /\ account \in [points : Nat, lifetime : Nat]
  /\ entries \in Seq([type : {"EARN", "REDEEM", "ADJUSTMENT", "REFUND", "EXPIRE"}, points : Int,
                     of : Purchases \cup SaleReturns \cup {Unsold}, expires : Nat, after : Nat])
  /\ sreturn \in [SaleReturns -> [status : {"NONE", "ASKED", "REQUESTED", "COMPLETED"},
                    ticket : Tickets \cup {Unsold}, quantity : Nat, amount : Nat,
                    inspection : {"NONE", "OPEN", "PASSED", "REJECTED"}]]
  /\ overlapped \subseteq Tickets /\ giveBacks \in [Parcels -> Nat]

PointsInit ==
  /\ today = 0 /\ \E basket \in Baskets : bill = [p \in basket |-> Unsold]
  /\ account = [points |-> 0, lifetime |-> 0] /\ entries = <<>>
  /\ sreturn = [r \in SaleReturns |-> NoSaleReturn] /\ overlapped = {}
  /\ giveBacks = [p \in Parcels |-> 0]

-----------------------------------------------------------------------------
(* The ledger *)

Worth(amount) == amount \div Rate
Least(m, n) == IF m < n THEN m ELSE n
AtLeastZero(n) == IF n > 0 THEN n ELSE 0

Entry(type, points, of, expires, after) ==
  [type |-> type, points |-> points, of |-> of, expires |-> expires, after |-> after]
\* No row is written for no points.
Noted(ledger, entry) == IF entry.points = 0 THEN ledger ELSE Append(ledger, entry)
Entered(entry) == entries' = Noted(entries, entry)

\* Points that leave the account, with the entry that says so.
Debited(type, n, of) ==
  /\ account' = [account EXCEPT !.points = @ - n]
  /\ Entered(Entry(type, -n, of, 0, account.points - n))

Moved == [i \in DOMAIN entries |-> entries[i].points]
PointsOf(is) == SumFunctionOnSet(Moved, is)
OfType(type, of) == {i \in DOMAIN entries : entries[i].type = type /\ entries[i].of = of}
Earned(p) == PointsOf(OfType("EARN", p))

-----------------------------------------------------------------------------
(* Purchases *)

\* SalesService.create.  The balance noted on what it earns starts from zero when
\* nothing is redeemed, as the account is read for a redemption only.
SellTicket(t, redeem) ==
  LET total == Price[t] - redeem
      kept == IF redeem > 0 THEN account.points - redeem ELSE 0 IN
  /\ bill[t] = Unsold
  /\ redeem = 0 \/ (redeem <= account.points /\ redeem >= MinimumRedeem)
  /\ redeem <= Price[t]
  /\ bill' = [bill EXCEPT ![t] = total]
  /\ account' = [points |-> account.points - redeem + Worth(total), lifetime |-> account.lifetime + Worth(total)]
  /\ entries' = Noted(Noted(entries, Entry("REDEEM", -redeem, t, 0, kept)),
                      Entry("EARN", Worth(total), t, 0, kept + Worth(total)))
  /\ UNCHANGED <<today, returnVars>>

\* OrdersService.deliver.
DeliverParcel(p) ==
  LET n == Worth(Price[p]) IN
  /\ bill[p] = Unsold
  /\ bill' = [bill EXCEPT ![p] = Price[p]]
  /\ account' = [points |-> account.points + n, lifetime |-> account.lifetime + n]
  /\ Entered(Entry("EARN", n, p, IF Life = 0 THEN 0 ELSE today + Life, account.points + n))
  /\ UNCHANGED <<today, returnVars>>

\* loyaltyTransaction.
EnterByHand(n) ==
  /\ Cardinality({i \in DOMAIN entries : entries[i].type = "ADJUSTMENT"}) < MaxManual
  /\ account.points + n >= 0
  /\ account' = [points |-> account.points + n, lifetime |-> account.lifetime + AtLeastZero(n)]
  /\ Entered(Entry("ADJUSTMENT", n, Unsold, 0, account.points + n))
  /\ UNCHANGED <<today, bill, returnVars>>

-----------------------------------------------------------------------------
(* Sale returns *)

Standing(t) == {r \in SaleReturns : sreturn[r].ticket = t /\ sreturn[r].status \in {"REQUESTED", "COMPLETED"}}
Quantity == [r \in SaleReturns |-> sreturn[r].quantity]
Amount == [r \in SaleReturns |-> sreturn[r].amount]
UnitsBack(t) == SumFunctionOnSet(Quantity, Standing(t))
ValueBack(t) == SumFunctionOnSet(Amount, Standing(t))

\* The last units take the remainder, others their part, rounded half up.
RefundOf(t, quantity) ==
  IF UnitsBack(t) + quantity = Sold[t] THEN bill[t] - ValueBack(t)
  ELSE (2 * bill[t] * quantity + Sold[t]) \div (2 * Sold[t])

\* createSaleReturn: what is already returned is read ...
AskSaleReturn(r, t, quantity) ==
  /\ sreturn[r].status = "NONE" /\ bill[t] # Unsold
  /\ UnitsBack(t) + quantity <= Sold[t] /\ RefundOf(t, quantity) >= 0
  /\ sreturn' = [sreturn EXCEPT ![r] = [status |-> "ASKED", ticket |-> t, quantity |-> quantity,
                                        amount |-> RefundOf(t, quantity), inspection |-> "NONE"]]
  /\ overlapped' = overlapped \cup
       {u \in {t} : \E q \in SaleReturns : sreturn[q].ticket = u /\ sreturn[q].status = "ASKED"}
  /\ UNCHANGED <<today, bill, account, entries, giveBacks>>

\* ... the row is created, and given an inspection if nothing fails in between.
CreateSaleReturn(r) ==
  /\ sreturn[r].status = "ASKED"
  /\ sreturn' = [sreturn EXCEPT ![r].status = "REQUESTED"]
  /\ UNCHANGED <<today, bill, account, entries, overlapped, giveBacks>>

LinkInspection(r) ==
  /\ sreturn[r].status \in {"REQUESTED", "COMPLETED"} /\ sreturn[r].inspection = "NONE"
  /\ sreturn' = [sreturn EXCEPT ![r].inspection = "OPEN"]
  /\ UNCHANGED <<today, bill, account, entries, overlapped, giveBacks>>

InspectReturn(r, verdict) ==
  /\ sreturn[r].inspection = "OPEN"
  /\ sreturn' = [sreturn EXCEPT ![r].inspection = verdict]
  /\ UNCHANGED <<today, bill, account, entries, overlapped, giveBacks>>

\* A return that has no inspection needs none.
ConfirmSaleReturn(r) ==
  /\ sreturn[r].status = "REQUESTED" /\ sreturn[r].inspection \in {"NONE", "PASSED"}
  /\ sreturn' = [sreturn EXCEPT ![r].status = "COMPLETED"]
  /\ Debited("REFUND", Least(Worth(sreturn[r].amount), account.points), r)
  /\ UNCHANGED <<today, bill, overlapped, giveBacks>>

-----------------------------------------------------------------------------
(* Order returns and expiry *)

\* confirmOrderReturn takes back what the order earned and its earlier returns
\* did not take; how returns come to be confirmed is the subject of Settlement.
Revocable(p) == AtLeastZero(Earned(p) + PointsOf(OfType("REFUND", p)))

ConfirmParcelReturn(p, amount) ==
  /\ bill[p] # Unsold /\ giveBacks[p] + amount <= bill[p]
  /\ giveBacks' = [giveBacks EXCEPT ![p] = @ + amount]
  /\ Debited("REFUND", Least(Worth(amount), Least(Revocable(p), account.points)), p)
  /\ UNCHANGED <<today, bill, sreturn, overlapped>>

\* A debit uses up the oldest buckets first.
Consume(left, debit) ==
  [i \in DOMAIN left |->
     left[i] - Least(left[i], AtLeastZero(debit - SumFunctionOnSet(left, 1..(i - 1))))]

\* Faulty variant: what the entries took from the buckets is forgotten.
LeftoverForgotten == [i \in DOMAIN entries |-> AtLeastZero(entries[i].points)]

\* What is left of each entry that gave points, after the first k entries.
Leftover ==
  LET after[k \in 0..Len(entries)] ==
        IF k = 0 THEN [i \in DOMAIN entries |-> 0]
        ELSE IF entries[k].points > 0 THEN [after[k - 1] EXCEPT ![k] = entries[k].points]
        ELSE Consume(after[k - 1], -entries[k].points)
  IN  after[Len(entries)]

Lapsed(i) == entries[i].points > 0 /\ entries[i].expires \in 1..today

\* processLoyaltyExpiries, for one account.
ExpirePoints ==
  LET left == Leftover
      n == Least(SumFunctionOnSet(left, {i \in DOMAIN entries : Lapsed(i)}), account.points) IN
  /\ n > 0
  /\ Debited("EXPIRE", n, Unsold)
  /\ UNCHANGED <<today, bill, returnVars>>

DayPasses ==
  /\ today < LastToday
  /\ today' = today + 1
  /\ UNCHANGED <<bill, account, entries, returnVars>>

PointsNext ==
  \/ \E t \in DOMAIN bill \cap Tickets, redeem \in 0..account.points : SellTicket(t, redeem)
  \/ \E p \in DOMAIN bill \cap Parcels : DeliverParcel(p) \/ \E amount \in 1..Price[p] : ConfirmParcelReturn(p, amount)
  \/ \E n \in Manual : EnterByHand(n)
  \/ \E r \in SaleReturns :
       \/ \E t \in DOMAIN bill \cap Tickets : \E quantity \in 1..Sold[t] : AskSaleReturn(r, t, quantity)
       \/ CreateSaleReturn(r) \/ LinkInspection(r) \/ ConfirmSaleReturn(r)
       \/ \E verdict \in {"PASSED", "REJECTED"} : InspectReturn(r, verdict)
  \/ ExpirePoints \/ DayPasses

PointsSpec == PointsInit /\ [][PointsNext]_pointVars

-----------------------------------------------------------------------------
(* What must hold *)

\* The account is the sum of its ledger and never in debt, whatever redemptions,
\* returns and expiries compete for its points.
LedgerAddsUp ==
  /\ account.points >= 0 /\ account.points = PointsOf(DOMAIN entries)
  /\ account.lifetime = PointsOf({i \in DOMAIN entries : entries[i].points > 0})

\* A bill that bears the rounding of its parts: half a hundredth for each unit
\* but the last.
AmpleBill(t) == 2 * bill[t] >= Sold[t] * (Sold[t] - 1)

\* Returns take back no more points than the purchase gave, however its value was
\* split and rounded, and a sale gives back no more units and money than it had,
\* as long as no two of its returns were asked for at once and its parts are not
\* worth less than they are rounded by.
ReturnsAreCovered ==
  /\ \A p \in Parcels : Earned(p) + PointsOf(OfType("REFUND", p)) >= 0
  /\ \A t \in (DOMAIN bill \cap Tickets) \ overlapped : bill[t] # Unsold =>
       /\ UnitsBack(t) <= Sold[t]
       /\ UnitsBack(t) = Sold[t] => ValueBack(t) = bill[t]
       /\ AmpleBill(t) =>
            /\ ValueBack(t) <= bill[t]
            /\ Earned(t) + PointsOf({i \in DOMAIN entries : \E r \in Standing(t) : i \in OfType("REFUND", r)}) >= 0

\* As long as every grant expires, only grants whose day has come lapse: what was
\* used, taken back or lapsed before is matched with the oldest first.
OnlyLapsedExpire ==
  (\A i \in DOMAIN entries : entries[i].points > 0 => entries[i].expires # 0) =>
    -PointsOf({i \in DOMAIN entries : entries[i].type = "EXPIRE"}) <= PointsOf({i \in DOMAIN entries : Lapsed(i)})

\* Points are neither made up nor destroyed (sales.service.ts, orders.service.ts,
\* returns.service.ts and the expiry worker share one account).
PointsAreTrue == LedgerAddsUp /\ ReturnsAreCovered /\ OnlyLapsedExpire
=============================================================================
