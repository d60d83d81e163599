SPECIFICATION MCFairSpec
CONSTANTS
  u1 = u1  s1 = s1  s2 = s2  s3 = s3  a = a  b = b
  r1 = r1  r2 = r2
  l1 = l1  l2 = l2  l3 = l3  l4 = l4  l5 = l5  l6 = l6
  Cron = Cron  None = None
  Snapshots = {s1, s2, s3}
  Users = {u1}
  Variants = {a}
  Requests = {r1, r2}
  UserOf <- MCUserOf
  Lines = {l1, l2, l3}
  CheckoutOf <- MCCheckoutOf
  VariantOf <- MCVariantOf
  UnitsOf <- MCUnitsOf
  Stocks <- MCPlenty
  Withheld <- MCWithheld
  Couponed = {}
  MaxUses = 1
  Take = 1
  Slow = {s1}
  Declinable = {s3}
  MaxCrashes = 1
INVARIANTS
  UsedHasOrder
  HandledHasOrder
PROPERTIES
  ProcessingIsRecovered
  SoldIsClosed
