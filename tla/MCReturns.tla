----------------------------- MODULE MCReturns ------------------------------
(* Two requests for the return of one paid order, the first of two items,  *)
(* and three calls about the first of them.                                *)
EXTENDS Returns, TLC

CONSTANTS o1, r1, r2, c1, c2, c3, i1, i2, i3

MCAmount == [o \in Orders |-> 2]
MCOrderOf == [r \in Returns |-> o1]
MCReturnOf == [c \in Calls |-> r1]
MCAskOf == [c \in Calls |-> 1]
MCReturnedIn == [i \in Items |-> IF i = i3 THEN r2 ELSE r1]
Symmetry == Permutations(Calls) \cup Permutations({i1, i2})
=============================================================================
