----------------------------- MODULE MCRefunds -----------------------------
(* Refunds on small tables: one charged payment of three cents and one     *)
(* that was never collected.  Requests r1 and r2 share a key, as a caller  *)
(* that retries does; r3 (and its retry r4) asks for all that remains; r5  *)
(* reuses the key of r1 for another payment.                               *)
EXTENDS Refunds, TLC

CONSTANTS p1, p2, k1, k2, r1, r2, r3, r4, r5

MCPrice == [p \in Payments |-> IF p = p1 THEN 3 ELSE 1]
MCKeyOf == [r \in Requests |-> IF r \in {r3, r4} THEN k2 ELSE k1]
MCPaymentOf == [r \in Requests |-> IF r = r5 THEN p2 ELSE p1]
MCAskOf == [r \in Requests |-> IF r \in {r1, r2} THEN 2 ELSE 0]

(* One call made three times, with the same key and the same parameters.   *)
MCSameKey == [r \in Requests |-> k1]
MCSamePayment == [r \in Requests |-> p1]
MCSameAsk == [r \in Requests |-> 2]
=============================================================================
