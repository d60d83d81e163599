SPECIFICATION Spec
CONSTANTS
  o1 = o1
  c1 = c1  c2 = c2
  w1 = w1  w2 = w2
  Orders = {o1}
  Paid = {o1}
  Amount <- MCAmount
  Cancels = {c1, c2}
  Customers = {c1}
  OrderOf <- MCOrderOf
  Staff = {w1, w2}
  OrderEdits <- ByHand
SYMMETRY StaffCalls
CHECK_DEADLOCK FALSE
INVARIANTS
  TypeOK
  RestocksFollowRevivals
  RefundFollowsRestock
  RefundedInFull
PROPERTIES
  OnlyRacesBreakTransitions
