SPECIFICATION StorefrontSpec
CONSTANTS
  o1 = o1
  o2 = o2
  r1 = r1
  e1 = e1
  e2 = e2
  c1 = c1
  c2 = c2
  k1 = k1
  k2 = k2
  t1 = t1
  q1 = q1
  q2 = q2
  Orders <- MCOrderSet
  Sources <- MCOrderSet
  Need <- MCNeed
  Refs = {r1, r2}
  AllowMock = TRUE
  OpeningStock = 2
  MaxOnHand = 3
  Events = {e1, e2}
  About <- MCAbout
  Says <- MCSays
  RefOf <- MCRefOf
  Calls = {c1, c2}
  Tickets = {t1}
  Parcels = {q1, q2}
  Baskets <- MCBaskets
  Price <- MCPrice
  Sold <- MCSold
  Rate = 2
  Life = 1
  MinimumRedeem = 1
  Manual <- MCManual
  MaxManual = 1
  SaleReturns = {k1, k2}
  LastToday = 1
  Unsold = Unsold
  UnitIds = {u1, u2}
  Barcodes = {b1}
  Codes = {PCS, BOX}
  Pieces = PCS
  Factors = {1, 2}
  Clerks = {g1}
  Lines = {l1}
  Amounts = {2}
  UnitReturns = {x1, x2}
  Stock = 4
  MaxEdits = 3
  NoUnit = NoUnit
CHECK_DEADLOCK FALSE
INVARIANTS StockFollowsOrders MoneyFollowsOrders ShipmentFollowsOrder CallbacksAreTrue PointsAreTrue CopiesFollowTheirUnits HistoryKeepsItsUnits
PROPERTIES PaidOrderIsKept LapsedOrdersEnd
