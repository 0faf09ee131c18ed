------------------------------- MODULE Payroll -------------------------------
(***************************************************************************)
(* Payroll of one branch and period (PayrollService): the regular run, the *)
(* adjustment runs that correct it after it was posted, their payments,    *)
(* and the finance transactions that settle what the runs withheld         *)
(* (FinanceOperationsService).  Every handler is a serializable            *)
(* transaction.  What a calculation finds out is an input: each employee's *)
(* net pay and the run's contributions and deductions (account 2104).  A   *)
(* run with results to review is one nobody approves.                      *)
(***************************************************************************)
EXTENDS Integers, FiniteSetsExt

CONSTANTS
  Employees,
  Staying,   \* those who neither leave nor return (a bound)
  MaxRuns,   \* bound on runs
  MaxPay,    \* bound on the net pay of each employee
  MaxOwed,   \* bound on contributions and deductions
  Claims,    \* PAYROLL_LIABILITY_PAYMENT transactions
  NoRow      \* no payrollResult

ASSUME PayrollAssumption ==
  /\ Staying \subseteq Employees
  /\ MaxRuns \in Nat /\ MaxPay \in [Employees -> Nat] /\ MaxOwed \in Nat
  /\ NoRow \notin [net : Int, target : Nat]
  /\ IsFiniteSet(Employees) /\ IsFiniteSet(Claims)

VARIABLES
  active,   \* employees with isActive
  run,      \* payrollRun: status, adjustmentOfRunId, employeeCount, 2104 total
  result,   \* payrollResult of each run and employee: netPay, and the target in its trace
  pay,      \* payrollPayment of each result
  claim     \* the finance transactions: status, referenceId, grossAmount

payrollVars == <<active, run, result, pay, claim>>

Runs == 1..MaxRuns
Regular == 0
Recognized == {"POSTED", "PAID"}
NoRun == [status |-> "NONE", of |-> Regular, count |-> 0, owed |-> 0]
Unpaid == [status |-> "NONE", direction |-> "OUTBOUND", amount |-> 0]

PayrollTypeOK ==
  /\ active \subseteq Employees
  /\ run \in [Runs -> [status : {"NONE", "DRAFT", "REVIEW", "APPROVED", "CANCELLED"} \cup Recognized,
                       of : Runs \cup {Regular}, count : Nat, owed : Int]]
  /\ result \in [Runs -> [Employees -> [net : Int, target : Nat] \cup {NoRow}]]
  /\ pay \in [Runs -> [Employees -> [status : {"NONE", "PENDING", "PAID", "CANCELLED"},
                                     direction : {"OUTBOUND", "RECOVERY"}, amount : Nat]]]
  /\ claim \in [Claims -> [status : {"NONE", "OPEN", "POSTED", "CANCELLED"}, run : Runs \cup {Regular}, gross : Nat]]

PayrollInit ==
  /\ active = Employees
  /\ run = [n \in Runs |-> NoRun]
  /\ result = [n \in Runs |-> [e \in Employees |-> NoRow]]
  /\ pay = [n \in Runs |-> [e \in Employees |-> Unpaid]]
  /\ claim = [c \in Claims |-> [status |-> "NONE", run |-> Regular, gross |-> 0]]

-----------------------------------------------------------------------------
Root(n) == IF run[n].of = Regular THEN n ELSE run[n].of
\* The posted runs of a regular run, itself included, and those before n.
Chain(root) == {m \in Runs : Root(m) = root /\ run[m].status \in Recognized}
Before(n) == {m \in Chain(Root(n)) : m < n}

Rows(n) == {e \in Employees : result[n][e] # NoRow}
Net(m, e) == IF result[m][e] = NoRow THEN 0 ELSE result[m][e].net
Nets(e) == [m \in Runs |-> Net(m, e)]
NetOver(runs, e) == SumFunctionOnSet(Nets(e), runs)
NetTotal(n) == SumFunction([e \in Employees |-> Net(n, e)])
Owed == [m \in Runs |-> run[m].owed]
OwedOver(runs) == SumFunctionOnSet(Owed, runs)

AtLeastZero(amount) == IF amount > 0 THEN amount ELSE 0
Claimed == [c \in Claims |-> claim[c].gross]
Committed(root, claims) ==
  SumFunctionOnSet(Claimed,
    {c \in claims : claim[c].status \in {"OPEN", "POSTED"} /\ claim[c].run \in Chain(root)})

NextRun(n) == run[n].status = "NONE" /\ \A m \in Runs : m < n => run[m].status # "NONE"

SetActive(e, employed) ==
  /\ e \notin Staying /\ (e \in active) # employed
  /\ active' = IF employed THEN active \cup {e} ELSE active \ {e}
  /\ UNCHANGED <<run, result, pay, claim>>

CreateRun(n) ==
  /\ NextRun(n)
  /\ \A m \in Runs : run[m].of = Regular => run[m].status \in {"NONE", "CANCELLED"}
  /\ run' = [run EXCEPT ![n] = [NoRun EXCEPT !.status = "DRAFT"]]
  /\ UNCHANGED <<active, result, pay, claim>>

Adjustable(s) ==
  /\ run[s].of = Regular /\ run[s].status \in Recognized
  /\ \A m \in Runs : run[m].of = s => run[m].status \notin {"DRAFT", "REVIEW", "APPROVED", "POSTED"}

CreateAdjustmentRun(n, s) ==
  /\ NextRun(n) /\ Adjustable(s)
  /\ run' = [run EXCEPT ![n] = [NoRun EXCEPT !.status = "DRAFT", !.of = s]]
  /\ UNCHANGED <<active, result, pay, claim>>

CancelRun(n) ==
  /\ run[n].status \in {"DRAFT", "REVIEW", "APPROVED"}
  /\ run' = [run EXCEPT ![n].status = "CANCELLED"]
  /\ UNCHANGED <<active, result, pay, claim>>

\* Results are written over, never deleted: one of an employee who has left
\* since the last calculation stays.
CalculateRun(n, target, owed) ==
  LET adjusts == run[n].of # Regular
      recognized == IF adjusts THEN Before(n) ELSE {}
      covered == active \cup UNION {Rows(m) : m \in recognized}
  IN  /\ run[n].status \in {"DRAFT", "REVIEW"} /\ covered # {}
      /\ result' = [result EXCEPT ![n] = [e \in Employees |->
           IF e \in covered THEN [net |-> target[e] - NetOver(recognized, e), target |-> target[e]] ELSE @[e]]]
      /\ run' = [run EXCEPT ![n].status = "REVIEW", ![n].count = Cardinality(covered),
                            ![n].owed = owed - OwedOver(recognized)]
      /\ UNCHANGED <<active, pay, claim>>

\* An adjustment that only moves pay from one employee to another has no
\* difference in its totals.
ApproveRun(n) ==
  /\ run[n].status = "REVIEW" /\ run[n].count = Cardinality(Rows(n))
  /\ IF run[n].of = Regular THEN run[n].count = Cardinality(active)
     ELSE NetTotal(n) # 0 \/ run[n].owed # 0
  /\ run' = [run EXCEPT ![n].status = "APPROVED"]
  /\ UNCHANGED <<active, result, pay, claim>>

-----------------------------------------------------------------------------
(* Posting *)

Outbound(n, e) == IF Net(n, e) > 0 THEN [status |-> "PENDING", direction |-> "OUTBOUND", amount |-> Net(n, e)]
                  ELSE Unpaid
Open(payments, n) == \E e \in Employees : payments[n][e].status = "PENDING"
\* Faulty variant: an older run whose last open payment was taken away stays.
PostedStill(payments, n) == "POSTED"
Posted(payments, n) == IF Open(payments, n) THEN "POSTED" ELSE "PAID"

\* A run with nothing to pay and nothing withheld makes no journal.
PostRegular(n) ==
  /\ run[n].status = "APPROVED" /\ run[n].of = Regular
  /\ NetTotal(n) # 0 \/ run[n].owed # 0
  /\ pay' = [pay EXCEPT ![n] = [e \in Employees |-> Outbound(n, e)]]
  /\ run' = [run EXCEPT ![n].status = Posted(pay', n)]
  /\ UNCHANGED <<active, result, claim>>

\* What a lower pay takes from the payments that are still open, newest first.
OpenAmount(m, e) == IF pay[m][e].status = "PENDING" /\ pay[m][e].direction = "OUTBOUND" THEN pay[m][e].amount ELSE 0
OpenAmounts(e) == [m \in Runs |-> OpenAmount(m, e)]
OpenOver(runs, e) == SumFunctionOnSet(OpenAmounts(e), runs)
Taken(n, m, e) ==
  Min({OpenAmount(m, e), AtLeastZero(AtLeastZero(-Net(n, e)) - OpenOver({k \in Before(n) : k > m}, e))})

\* Faulty variant: what was already paid is not asked back.
RecoveryNone(n, e) == 0
Recovery(n, e) == AtLeastZero(-Net(n, e) - OpenOver(Before(n), e))

\* Faulty variant: claims that are not posted yet are not counted.
CoveredByPosted(n) ==
  run[n].owed < 0 => -run[n].owed <= AtLeastZero(OwedOver(Before(n))
    - Committed(Root(n), {c \in Claims : claim[c].status = "POSTED"}))
Covered(n) == run[n].owed < 0 => -run[n].owed <= AtLeastZero(OwedOver(Before(n)) - Committed(Root(n), Claims))

PostAdjustment(n) ==
  /\ run[n].status = "APPROVED" /\ run[n].of # Regular /\ Covered(n)
  /\ pay' = [m \in Runs |-> [e \in Employees |->
       IF m = n THEN IF Recovery(n, e) > 0
                       THEN [status |-> "PENDING", direction |-> "RECOVERY", amount |-> Recovery(n, e)]
                       ELSE Outbound(n, e)
       ELSE IF m \notin Before(n) \/ Taken(n, m, e) = 0 THEN pay[m][e]
       ELSE IF Taken(n, m, e) = pay[m][e].amount THEN [pay[m][e] EXCEPT !.status = "CANCELLED"]
       ELSE [pay[m][e] EXCEPT !.amount = @ - Taken(n, m, e)]]]
  /\ run' = [m \in Runs |-> IF m = n \/ (m \in Before(n) /\ run[m].status = "POSTED")
                              THEN [run[m] EXCEPT !.status = Posted(pay', m)] ELSE run[m]]
  /\ UNCHANGED <<active, result, claim>>

SettlePayment(n, e) ==
  /\ run[n].status \in Recognized /\ pay[n][e].status = "PENDING"
  /\ pay' = [pay EXCEPT ![n][e].status = "PAID"]
  /\ run' = [run EXCEPT ![n].status = IF Open(pay', n) THEN @ ELSE "PAID"]
  /\ UNCHANGED <<active, result, claim>>

-----------------------------------------------------------------------------
(* Settling account 2104 *)

Available(root, c) == AtLeastZero(OwedOver(Chain(root)) - Committed(root, Claims \ {c}))

DraftClaim(c, n, gross) ==
  /\ claim[c].status = "NONE" /\ run[n].status \in Recognized
  /\ gross <= Available(Root(n), c)
  /\ claim' = [claim EXCEPT ![c] = [status |-> "OPEN", run |-> n, gross |-> gross]]
  /\ UNCHANGED <<active, run, result, pay>>

PostClaim(c) ==
  /\ claim[c].status = "OPEN"
  /\ claim[c].gross <= Available(Root(claim[c].run), c)
  /\ claim' = [claim EXCEPT ![c].status = "POSTED"]
  /\ UNCHANGED <<active, run, result, pay>>

CancelClaim(c) ==
  /\ claim[c].status = "OPEN"
  /\ claim' = [claim EXCEPT ![c].status = "CANCELLED"]
  /\ UNCHANGED <<active, run, result, pay>>

Targets == {target \in [Employees -> 0..Max({MaxPay[e] : e \in Employees})] :
              \A e \in Employees : target[e] <= MaxPay[e]}

PayrollNext ==
  \/ \E e \in Employees, employed \in BOOLEAN : SetActive(e, employed)
  \/ \E n \in Runs : \/ CreateRun(n) \/ CancelRun(n) \/ ApproveRun(n) \/ PostRegular(n) \/ PostAdjustment(n)
                     \/ \E s \in Runs : CreateAdjustmentRun(n, s)
                     \/ \E target \in Targets, owed \in 0..MaxOwed : CalculateRun(n, target, owed)
                     \/ \E e \in Employees : SettlePayment(n, e)
                     \/ \E c \in Claims, gross \in 1..MaxOwed : DraftClaim(c, n, gross)
  \/ \E c \in Claims : PostClaim(c) \/ CancelClaim(c)

PayrollSpec == PayrollInit /\ [][PayrollNext]_payrollVars

-----------------------------------------------------------------------------
Given(e, direction) ==
  SumFunction([m \in Runs |-> IF pay[m][e].status # "CANCELLED" /\ pay[m][e].direction = direction
                                 THEN pay[m][e].amount ELSE 0])

(* However often pay is corrected, before or after it was paid, what an    *)
(* employee is given, less what is asked back, is the pay the last posted  *)
(* calculation found (calculateRun, postAccounting).                       *)
PaidAsCalculated ==
  \A n \in Runs, e \in Employees :
    (run[n].status \in Recognized /\ \A m \in Chain(Root(n)) : m <= n) =>
      Given(e, "OUTBOUND") - Given(e, "RECOVERY") = IF result[n][e] = NoRow THEN 0 ELSE result[n][e].target

(* A run is PAID exactly when nothing of it is open, whether its last      *)
(* payment was made or taken away by an adjustment.                        *)
PaidMeansSettled ==
  \A n \in Runs : run[n].status \in Recognized => (run[n].status = "POSTED" <=> Open(pay, n))

(* The payments to tax office and social security never exceed what the    *)
(* runs withheld, although adjustments lower it (payrollLiabilitySnapshot, *)
(* postAccounting).                                                        *)
LiabilityCovered == \A n \in Runs : run[n].of = Regular => Committed(n, Claims) <= OwedOver(Chain(n))

LiabilitiesSettle == PaidMeansSettled /\ LiabilityCovered

(* payroll.service.ts:1089 tells to calculate again when the results are   *)
(* not those of the run: afterwards they are.                              *)
CalculatedIsConsistent == \A n \in Runs : run[n].status = "REVIEW" => run[n].count = Cardinality(Rows(n))
=============================================================================
