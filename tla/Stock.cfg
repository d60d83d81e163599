SPECIFICATION Spec
CONSTANTS
  a = a  b = b
  o1 = o1  o2 = o2  c1 = c1  c2 = c2
  w1 = w1
  l1 = l1  l2 = l2  l3 = l3  l4 = l4  l5 = l5
  Absent = Absent  None = None
  Variants = {a, b}
  Carts = {o1}
  Prepaid = {o2}
  Lines = {l1, l2, l3, l4, l5}
  OrderOf <- MCOrderOf
  VariantOf <- MCVariantOf
  UnitsOf <- MCUnitsOf
  Cancels = {c1, c2}
  Staff = {w1}
  Edits <- MCEdits
  Openings <- MCOpenings
SYMMETRY MCSymmetry
CHECK_DEADLOCK FALSE
INVARIANTS
  TypeOK
  UnitsFollowOrders
PROPERTIES
  StockErrsInKnownWays
