---------------------------- MODULE MCSettlement ----------------------------
(* Three transactions, two order returns of an order of two units, two returns *)
(* to the supplier of a receipt of two units; three does not divide by two,  *)
(* so that the parts are rounded.                                            *)
EXTENDS Settlement, TLC
CONSTANTS t1, t2, t3, r1, r2, p1, p2
MCTxns == {t1, t2, t3}
MCOrderReturns == {r1, r2}
MCPurchaseReturns == {p1, p2}
MCDocuments == {{"Order"}, {"GoodsReceipt"}}
Symmetry == Permutations(MCTxns) \cup Permutations(MCOrderReturns) \cup Permutations(MCPurchaseReturns)
=============================================================================
