------------------------------ MODULE Finance ------------------------------
(***************************************************************************)
(* The finance desk of a branch: settling orders, goods receipts and       *)
(* returns, closing the fiscal periods, and reconciling the bank.  They    *)
(* share the journal and nothing in it that one of them reads of another,  *)
(* so that each behaviour exercises one of them: part says which.  What    *)
(* posts to the journal goes on beside closing and reconciling.            *)
(***************************************************************************)
EXTENDS Settlement, Books

VARIABLE part   \* what this behaviour is about

financeVars == <<vars, booksVars, part>>

FinanceTypeOK ==
  /\ part \in {"settlement", "closing", "bank"}
  /\ TypeOK /\ BooksTypeOK

FinanceInit ==
  /\ part \in {"settlement", "closing", "bank"} /\ Init /\ BooksInit
  /\ part # "settlement" => order = NoOrder   \* there it is the books that vary

SettlementTurn == part = "settlement" /\ Next /\ UNCHANGED booksVars
BooksTurn ==
  /\ \/ part \in {"closing", "bank"} /\ JournalStep
     \/ part = "closing" /\ CalendarStep
     \/ part = "bank" /\ BankStep
  /\ UNCHANGED vars

FinanceNext == (SettlementTurn \/ BooksTurn) /\ UNCHANGED part

FinanceSpec == FinanceInit /\ [][FinanceNext]_financeVars
=============================================================================
