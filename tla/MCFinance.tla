----------------------------- MODULE MCFinance -----------------------------
(* Settlement: three transactions, an order of two units or a receipt of two *)
(* units whose gross of three does not divide by two, and two returns of     *)
(* either.  Books: a finance transaction, an event and a payroll adjustment  *)
(* of the same amount, two days, and two bank statements whose three lines   *)
(* all fit the first two entries.  Order and receipt never meet, so that one *)
(* permutation serves the returns of both.                                   *)
EXTENDS Finance, TLC

CONSTANTS t1, t2, t3, r1, r2, p1, p2, s1, s2, f1, d1, j1

MCTxns == {t1, t2, t3}
MCOrderReturns == {r1, r2}
MCPurchaseReturns == {p1, p2}
MCDocuments == {{"Order"}, {"GoodsReceipt"}}
Symmetry == Permutations(MCTxns) \cup {r1 :> r2 @@ r2 :> r1 @@ p1 :> p2 @@ p2 :> p1}

MCSpans == {<<1, 1>>, <<1, 2>>, <<2, 2>>}
MCCovered == {<<1, 1>>, <<1, 2>>}
MCEntryDay == f1 :> 1 @@ d1 :> 1 @@ j1 :> 2
MCAmount == f1 :> 1 @@ d1 :> 1 @@ j1 :> 1
MCStatementOf == 1 :> s1 @@ 2 :> s1 @@ 3 :> s2
MCLineDay == 1 :> 1 @@ 2 :> 1 @@ 3 :> 2
MCLineAmount == 1 :> 1 @@ 2 :> 1 @@ 3 :> 1
MCPeriod == s1 :> <<1, 2>> @@ s2 :> <<1, 2>>
MCClosing == s1 :> 2 @@ s2 :> 3
=============================================================================
