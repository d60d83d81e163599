-------------------------- MODULE MCOrderLifecycle --------------------------
(* One paid order, a customer and an administrator who cancel it, and two  *)
(* members of the staff.                                                   *)
EXTENDS OrderLifecycle, TLC

CONSTANTS o1, c1, c2, w1, w2

MCAmount == [o \in Orders |-> 2]
MCOrderOf == [c \in Cancels |-> o1]
ByHand == {"PACKED", "DISPATCHED", "CANCELLED"}
StaffCalls == Permutations(Staff)
=============================================================================
