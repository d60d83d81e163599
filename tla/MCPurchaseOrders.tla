-------------------------- MODULE MCPurchaseOrders --------------------------
(* One order of two lines of one variant and one of another, an update     *)
(* that changes it, its approval, its cancellation and two deliveries of   *)
(* the repeated variant, one of them with two items of it: the two items   *)
(* find the same line, the two deliveries the same or another.             *)
EXTENDS PurchaseOrders, TLC

CONSTANTS a, b, p1, u1, y1, x1, g1, g2, l1, l2, l3, m1, d1, d2, e1

MCPurchaseOf == [c \in Calls |-> p1]
MCCallOf ==
  [i \in Items |->
     CASE i \in {l1, l2, l3} -> p1
       [] i = m1             -> u1
       [] i \in {d1, d2}     -> g1
       [] i = e1             -> g2]
MCVariantOf == [i \in Items |-> IF i = l3 THEN b ELSE a]
MCUnitsOf == [i \in Items |-> IF i = l1 THEN 2 ELSE 1]
=============================================================================
