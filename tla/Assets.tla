------------------------------- MODULE Assets -------------------------------
(***************************************************************************)
(* Fixed assets of a branch (assets.service.ts): acquisition, straight-    *)
(* line depreciation over date ranges, custody, maintenance, disposal.     *)
(* Every handler is a serializable transaction.  A month has two days;     *)
(* inspections are taken as passed, taxes and accounts other than the      *)
(* asset's own (1401) and its contra account (1491) are left out.          *)
(***************************************************************************)
EXTENDS Integers, FiniteSetsExt, Functions

CONSTANTS
  Items, Cost, Residual, Life,  \* assets: acquisitionCost, residualValue, usefulLifeMonths
  Months,                       \* bound on the calendar
  Holders,                      \* employees
  Handovers,                    \* OperationalInspections of transfers
  WorkOrders

ASSUME AssetsAssumption ==
  /\ Cost \in [Items -> Nat] /\ Residual \in [Items -> Nat] /\ Life \in [Items -> Nat \ {0}]
  /\ IsFiniteSet(Items) /\ Months \in Nat

VARIABLES
  asset,     \* status, capitalizationDate, bookValue, accumulatedDepreciation, open assignment
  dated,     \* POSTED depreciation runs: <<periodStart, periodEnd>>
  handed,    \* inspections with a TRANSFER transaction, and of which asset
  work,      \* MaintenanceWorkOrders: status and asset
  account    \* balances of 1401 and 1491

assetVars == <<asset, dated, handed, work, account>>

Days == 1..(2 * Months)
MonthOf(day) == (day + 1) \div 2
Nobody == "none"
Gone == {"SOLD", "DISPOSED"}
NoAsset == [status |-> "NONE", since |-> 0, book |-> 0, accumulated |-> 0, holder |-> Nobody]

AssetsTypeOK ==
  /\ asset \in [Items -> [status : {"NONE", "ACTIVE"} \cup Gone, since : {0} \cup Days, book : Int,
                          accumulated : Nat, holder : Holders \cup {Nobody}]]
  /\ dated \subseteq Days \X Days
  /\ handed \subseteq Handovers \X Items
  /\ work \in [WorkOrders -> [status : {"NONE", "PLANNED", "COMPLETED"}, of : Items]]
  /\ account \in [{"asset", "contra"} -> Int]

AssetsInit ==
  /\ asset = [a \in Items |-> NoAsset] /\ dated = {} /\ handed = {}
  /\ work = [w \in WorkOrders |-> [status |-> "NONE", of |-> CHOOSE a \in Items : TRUE]]
  /\ account = [x \in {"asset", "contra"} |-> 0]

-----------------------------------------------------------------------------
Acquire(a, day, holder) ==
  /\ asset[a].status = "NONE"
  /\ asset' = [asset EXCEPT ![a] = [NoAsset EXCEPT !.status = "ACTIVE", !.since = day,
                                                   !.book = Cost[a], !.holder = holder]]
  /\ account' = [account EXCEPT !["asset"] = @ + Cost[a]]
  /\ UNCHANGED <<dated, handed, work>>

\* Faulty variant: a run that starts inside an earlier one passes.
OverlapsFirstDay(from, to) == \E r \in dated : from <= r[1] /\ r[1] <= to
Overlaps(from, to) == \E r \in dated : r[1] <= to /\ r[2] >= from

\* countCalendarMonths: a month that is touched counts whole.
MonthsCharged(a, from, to) ==
  LET first == IF from > asset[a].since THEN from ELSE asset[a].since
  IN  IF first > to THEN 0 ELSE MonthOf(to) - MonthOf(first) + 1

\* Rounded half up.
MonthlyCharge(a) == (2 * (Cost[a] - Residual[a]) + Life[a]) \div (2 * Life[a])

\* Faulty variant: the last month is charged in full.
ChargeUncapped(a, from, to) == MonthlyCharge(a) * MonthsCharged(a, from, to)
Charge(a, from, to) ==
  IF asset[a].status # "ACTIVE" \/ asset[a].book <= 0 \/ Cost[a] <= Residual[a] THEN 0
  ELSE Max({0, Min({MonthlyCharge(a) * MonthsCharged(a, from, to), asset[a].book - Residual[a]})})

RunDepreciation(from, to) ==
  LET total == SumFunction([a \in Items |-> Charge(a, from, to)])
  IN  /\ from <= to /\ ~Overlaps(from, to) /\ total > 0
      /\ dated' = dated \cup {<<from, to>>}
      /\ asset' = [a \in Items |-> [asset[a] EXCEPT !.book = @ - Charge(a, from, to),
                                                    !.accumulated = @ + Charge(a, from, to)]]
      /\ account' = [account EXCEPT !["contra"] = @ - total]
      /\ UNCHANGED <<handed, work>>

-----------------------------------------------------------------------------
\* assign does not look at the status of the asset.
Assign(a, holder) ==
  /\ asset[a].status # "NONE"
  /\ asset' = [asset EXCEPT ![a].holder = holder]
  /\ UNCHANGED <<dated, handed, work, account>>

\* Work orders are created PLANNED, which is none of these.
OperationallyFree(a) ==
  \A w \in WorkOrders : work[w].of = a => work[w].status \notin {"OPEN", "IN_PROGRESS", "WAITING_PART"}

\* A second transfer under the same inspection changes nothing.
Transfer(a, i, holder) ==
  /\ asset[a].status = "ACTIVE" /\ OperationallyFree(a) /\ \A b \in Items \ {a} : <<i, b>> \notin handed
  /\ asset' = IF <<i, a>> \in handed THEN asset ELSE [asset EXCEPT ![a].holder = holder]
  /\ handed' = handed \cup {<<i, a>>}
  /\ UNCHANGED <<dated, work, account>>

CreateMaintenance(w, a) ==
  /\ asset[a].status # "NONE" /\ work[w].status = "NONE"
  /\ work' = [work EXCEPT ![w] = [status |-> "PLANNED", of |-> a]]
  /\ UNCHANGED <<asset, dated, handed, account>>

\* The cost is an expense and leaves the book value alone.
CompleteMaintenance(w) ==
  /\ work[w].status = "PLANNED"
  /\ work' = [work EXCEPT ![w].status = "COMPLETED"]
  /\ UNCHANGED <<asset, dated, handed, account>>

\* The book value leaves 1401 and 1491 through gain or loss.
Dispose(a, mode) ==
  /\ asset[a].status = "ACTIVE" /\ OperationallyFree(a)
  /\ asset[a].book = Cost[a] - asset[a].accumulated
  /\ asset' = [asset EXCEPT ![a].status = mode, ![a].holder = Nobody]
  /\ account' = [account EXCEPT !["asset"] = @ - Cost[a], !["contra"] = @ + asset[a].accumulated]
  /\ UNCHANGED <<dated, handed, work>>

AssetsNext ==
  \/ \E from, to \in Days : RunDepreciation(from, to)
  \/ \E a \in Items :
       \/ \E day \in Days, h \in Holders \cup {Nobody} : Acquire(a, day, h)
       \/ \E h \in Holders : Assign(a, h) \/ \E i \in Handovers : Transfer(a, i, h)
       \/ \E w \in WorkOrders : CreateMaintenance(w, a)
       \/ \E mode \in Gone : Dispose(a, mode)
  \/ \E w \in WorkOrders : CompleteMaintenance(w)

AssetsSpec == AssetsInit /\ [][AssetsNext]_assetVars

-----------------------------------------------------------------------------
(* The ledger agrees with the register: 1401 less 1491 is the book value   *)
(* of what the branch still has, and no book value falls below the         *)
(* residual value, whatever runs, roundings and disposals came before      *)
(* (docs/ASSET-FLEET-OPERATIONS.md:22, 50).                                *)
LedgerAgrees ==
  /\ account["asset"] + account["contra"] =
       SumFunction([a \in {b \in Items : asset[b].status = "ACTIVE"} |-> asset[a].book])
  /\ \A a \in Items : asset[a].status # "NONE" => asset[a].book >= Min({Cost[a], Residual[a]})

Touched == {m \in 1..Months : \E r \in dated : MonthOf(r[1]) <= m /\ m <= MonthOf(r[2])}
Split == \E r, s \in dated : r[2] < s[1] /\ MonthOf(r[2]) = MonthOf(s[1])

(* No month is charged twice however the posted runs lie, unless one ends  *)
(* in the month the next begins in (runDepreciation, countCalendarMonths). *)
MonthsChargedOnce ==
  Split \/ \A a \in Items : asset[a].accumulated # 0 =>
    asset[a].accumulated <= MonthlyCharge(a) * Cardinality({m \in Touched : m >= MonthOf(asset[a].since)})

AssetsReconcile == LedgerAgrees /\ MonthsChargedOnce
=============================================================================
