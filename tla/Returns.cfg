SPECIFICATION Spec
CONSTANTS
  o1 = o1
  r1 = r1  r2 = r2
  c1 = c1  c2 = c2  c3 = c3
  i1 = i1  i2 = i2  i3 = i3
  Absent = Absent
  Orders = {o1}
  Paid = {o1}
  Amount <- MCAmount
  Returns = {r1, r2}
  OrderOf <- MCOrderOf
  Calls = {c1, c2, c3}
  ReturnOf <- MCReturnOf
  AskOf <- MCAskOf
  Items = {i1, i2, i3}
  ReturnedIn <- MCReturnedIn
SYMMETRY Symmetry
CHECK_DEADLOCK FALSE
INVARIANTS
  GoodsFollowMoney
  RefundsWithinPayment
PROPERTIES
  SecondReturnIsRaced
  ClosedIsReopenedByHand
  DamageStands
