SPECIFICATION Spec
CONSTANTS
  t1 = t1
  t2 = t2
  t3 = t3
  r1 = r1
  r2 = r2
  p1 = p1
  p2 = p2
  Txns <- MCTxns
  OrderReturns <- MCOrderReturns
  PurchaseReturns <- MCPurchaseReturns
  Units = 2
  GoodsTotal = 3
  Total = 3
  ReceiptUnits = 2
  ReceiptTotal = 3
  Documents <- MCDocuments
CHECK_DEADLOCK FALSE
PROPERTIES NoOverCollection
