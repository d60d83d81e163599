SPECIFICATION Spec
CONSTANTS
  i1 = i1  p1 = p1  u1 = u1
  r1 = r1  r2 = r2  r3 = r3
  c1 = c1  c2 = c2  a1 = a1  a2 = a2
  Absent = Absent  None = None
  Reviews = {r1, r2, r3}
  ProductOf <- MCProductOf
  ItemOf <- MCItemOf
  Calls = {c1, c2}
  ReviewOf <- MCReviewOf
  UserOf <- MCUserOf
  Updates = {a1, a2}
  Updated <- MCUpdated
  Ratings = {5}
SYMMETRY Symmetry
CHECK_DEADLOCK FALSE
INVARIANTS
  RatingsFollowReviews
PROPERTIES
  TakenDownStays
  OnlyRacesMiscount
