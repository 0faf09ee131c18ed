SPECIFICATION FinanceSpec
CONSTANTS
  t1 = t1
  t2 = t2
  t3 = t3
  r1 = r1
  r2 = r2
  p1 = p1
  p2 = p2
  Txns <- MCTxns
  OrderReturns <- MCOrderReturns
  PurchaseReturns <- MCPurchaseReturns
  Units = 2
  GoodsTotal = 2
  Total = 2
  ReceiptUnits = 2
  ReceiptTotal = 3
  Documents <- MCDocuments
  s1 = s1
  s2 = s2
  f1 = f1
  d1 = d1
  j1 = j1
  LastDay = 2
  Spans <- MCSpans
  Controlled <- MCCovered
  Reconciled <- MCCovered
  Drafted = {f1}
  Direct = {d1}
  Adjustments = {j1}
  EntryDay <- MCEntryDay
  Amount <- MCAmount
  Lines = {1, 2, 3}
  StatementOf <- MCStatementOf
  LineDay <- MCLineDay
  LineAmount <- MCLineAmount
  Period <- MCPeriod
  Closing <- MCClosing
  None = None
SYMMETRY Symmetry
CHECK_DEADLOCK FALSE
INVARIANTS PayablesAgree PaymentsAreTrue ReturnedOnce BooksAreSound
PROPERTIES JournalledIsFinal ClosedBooksAreFinal
