---------------------------- MODULE MCBackOffice ----------------------------
(* Payroll: three runs over an employee who is paid up to two and one who     *)
(* earns nothing.  Attendance: two punches of the first, in the wrong order    *)
(* too, one of the second, and two leaves over a quota of one.  Assets: one    *)
(* that loses five in three months, one with nothing to depreciate.  Numbers: *)
(* three callers, of which one commits each statement by itself.               *)
EXTENDS BackOffice, TLC

CONSTANTS e1, e2, q1, q2, q3, l1, l2, k1, k2, a1, a2

MCMaxPay == e1 :> 2 @@ e2 :> 0
MCPunchOf == q1 :> e1 @@ q2 :> e1 @@ q3 :> e2
MCPunchAt == q1 :> 1 @@ q2 :> 2 @@ q3 :> 1
MCLeaveDays == l1 :> 1 @@ l2 :> 1
MCCost == a1 :> 7 @@ a2 :> 4
MCResidual == a1 :> 2 @@ a2 :> 4
MCLife == a1 :> 3 @@ a2 :> 1

Symmetry == Permutations({k1, k2}) \cup Permutations({l1, l2})
=============================================================================
