----------------------------- MODULE MCReviews ------------------------------
(* Two reviews of one order item and a third without one, all of the same  *)
(* product; two calls of one user about the first; two updates of the      *)
(* product.                                                                *)
EXTENDS Reviews, TLC

CONSTANTS i1, p1, u1, r1, r2, r3, c1, c2, a1, a2

MCProductOf == [r \in Reviews |-> p1]
MCItemOf == [r \in Reviews |-> IF r = r3 THEN None ELSE i1]
MCUpdated == [u \in Updates |-> p1]
MCReviewOf == [c \in Calls |-> r1]
MCUserOf == [c \in Calls |-> u1]
Symmetry == Permutations(Calls) \cup Permutations(Updates)
=============================================================================
