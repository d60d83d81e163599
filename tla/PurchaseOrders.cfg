SPECIFICATION Spec
CONSTANTS
  a = a  b = b
  p1 = p1  u1 = u1  y1 = y1  x1 = x1  g1 = g1  g2 = g2
  l1 = l1  l2 = l2  l3 = l3  m1 = m1  d1 = d1  d2 = d2  e1 = e1
  Purchases = {p1}
  Updates = {u1}
  Approvals = {y1}
  Cancels = {x1}
  Receipts = {g1, g2}
  PurchaseOf <- MCPurchaseOf
  Items = {l1, l2, l3, m1, d1, d2, e1}
  CallOf <- MCCallOf
  VariantOf <- MCVariantOf
  UnitsOf <- MCUnitsOf
  Tracked = {a}
CHECK_DEADLOCK FALSE
INVARIANTS
  TypeOK
  LineWithinOrder
  BooksAgree
  StatusIsEarned
PROPERTIES
  CancelledIsReopenedByRace
