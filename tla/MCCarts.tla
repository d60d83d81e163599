------------------------------ MODULE MCCarts -------------------------------
(* Two units are added to an empty cart by two calls; an edit, an order    *)
(* and a checkout come in between.                                         *)
EXTENDS Carts, TLC

CONSTANTS v, a1, a2, e1, o1, s1

MCVariantOf == [a \in Adds |-> v]
MCAvailable == [w \in {v} |-> 2]
Symmetry == Permutations(Adds)
=============================================================================
