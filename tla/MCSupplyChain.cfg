SPECIFICATION SupplySpec
CONSTANTS
  a1 = a1
  a2 = a2
  b1 = b1
  b2 = b2
  p1 = p1
  o1 = o1
  v1 = v1
  w1 = w1
  w2 = w2
  x1 = x1
  n1 = n1
  s1 = s1
  s2 = s2
  i1 = i1
  i2 = i2
  h1 = h1
  None = None
  Free = Free
  Absent = Absent
  Requests = {p1}
  Users = {a1, a2}
  Steps = 2
  Escalates = TRUE
  MaxApprovals = 2
  Orders = {o1}
  Ordered <- MCOrdered
  Receipts = {b1, b2}
  Clerks = {a1, a2}
  BlockOnMismatch = TRUE
  Warehouses = {w1, w2}
  Transfers = {x1}
  From <- MCFrom
  To <- MCTo
  Quantity <- MCQuantity
  Opnames = {n1}
  Counted <- MCCounted
  Sessions = {a1, a2}
  Opening <- MCOpening
  MaxStock = 3
  MaxLines = 2
  MaxTrades = 1
  Vehicles = {v1}
  Trips = {b1, b2}
  Stops = {s1, s2}
  ShipmentOf <- MCShipmentOf
  CodExpected <- MCCodExpected
  Items = {i1, i2}
  ShipmentOfItem <- MCShipmentOfItem
  Shipments = {h1}
  MaxOdometer = 1
  bin = bin
  floor = floor
  old = old
  o2 = o2
  Locations <- MCLocations
  DefaultLocation = bin
  Sources <- MCSources
  Need <- MCNeed
  LegacySources <- MCLegacy
  OpeningStock = 3
  MaxOnHand = 5
SYMMETRY Symmetry
CHECK_DEADLOCK FALSE
INVARIANTS SupplyTypeOK OrderIsWarranted ReceivedAsOrdered StockIsAccountedFor TripsAreConsistent
  RowsAgree
PROPERTIES LedgerSpec
