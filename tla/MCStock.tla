------------------------------ MODULE MCStock -------------------------------
(* An order from a cart with two lines of one variant, a paid one with two *)
(* lines of it and one of another, cancellations, and a call of the staff, *)
(* of every kind.                                                          *)
EXTENDS Stock, TLC

CONSTANTS a, b, o1, o2, c1, c2, w1, l1, l2, l3, l4, l5

(* The lines of an order are alike, and so are the cancellations.          *)
MCSymmetry == Permutations({l1, l2}) \cup Permutations({l3, l4}) \cup Permutations(Cancels)

MCOrderOf == [l \in Lines |-> IF l \in {l1, l2} THEN o1 ELSE o2]
MCVariantOf == [l \in Lines |-> IF l = l5 THEN b ELSE a]
MCUnitsOf == [l \in Lines |-> 1]
MCOpenings == {[v \in Variants |-> With(None, 2, 0)], [v \in Variants |-> With(None, 1, 0)],
               [v \in Variants |-> IF v = a THEN With(None, 2, 1) ELSE With(None, 1, 0)],
               [v \in Variants |-> IF v = a THEN Absent ELSE With(None, 1, 0)]}
MCEdits == {[kind |-> k, variant |-> a, units |-> 1, hold |-> 1] : k \in Kinds} \cup
           {[kind |-> k, variant |-> a, units |-> -1, hold |-> 0] : k \in {"adjust", "adjustStock"}} \cup
           {[kind |-> "set", variant |-> a, units |-> 0, hold |-> 0]}
=============================================================================
