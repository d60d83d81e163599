SPECIFICATION Spec
CONSTANTS
  v = v
  a1 = a1  a2 = a2  e1 = e1  o1 = o1  s1 = s1
  Absent = Absent
  Adds = {a1, a2}
  VariantOf <- MCVariantOf
  Edits = {e1}
  Counts = {1, 2}
  Orders = {o1}
  Checkouts = {s1}
  Available <- MCAvailable
SYMMETRY Symmetry
CHECK_DEADLOCK FALSE
INVARIANTS
  TypeOK
  TotalFollowsLines
  ChargedForItsLines
PROPERTIES
  OnlyLateLinesAreLost
