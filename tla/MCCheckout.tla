----------------------------- MODULE MCCheckout -----------------------------
(* Checkouts of one user, each with a line of one unit of a; the first and *)
(* the second may have one of b too, and the second another one of a.      *)
EXTENDS Checkout, TLC

CONSTANTS u1, s1, s2, s3, a, b, r1, r2, l1, l2, l3, l4, l5, l6

MCUserOf == [s \in Snapshots |-> u1]
MCCheckoutOf ==
  [l \in Lines |-> IF l \in {l1, l4} THEN s1 ELSE IF l = l3 THEN s3 ELSE s2]
MCVariantOf == [l \in Lines |-> IF l \in {l4, l6} THEN b ELSE a]
MCUnitsOf == [l \in Lines |-> 1]
MCPlenty == {[v \in Variants |-> 3]}
MCAmple == {[v \in Variants |-> 2]}
MCStocks == MCPlenty \cup MCAmple \cup {[v \in Variants |-> IF v = a THEN 2 ELSE 1]}
MCWithheld == [v \in Variants |-> IF v = a THEN 1 ELSE 0]

Symmetry == Permutations(Requests)

(* Two ways to go on from states the checkout reaches.  Three checkouts    *)
(* have been started and the first two are paid; the third has expired     *)
(* unpaid; there is one unit left.  Or the first two are sold, the first   *)
(* under the higher number because its transaction began first and ended   *)
(* last, and a stale save has put it back to PAYMENT_PROCESSING; the third *)
(* can be paid, and there is one unit left.                                *)
MCHalf ==
  /\ items = [s \in Snapshots |-> CHOOSE f \in [{1} -> Lines] : CheckoutOf[f[1]] = s]
  /\ handled = {} /\ cart = Users /\ uses = 0
  /\ pc = [p \in Processes |-> "idle"] /\ job = [p \in Processes |-> None]
  /\ via = [p \in Processes |-> "confirm"]
  /\ held = [p \in Processes |-> 0] /\ seen = [p \in Processes |-> 0]
  /\ usage = [p \in Processes |-> 0]
  /\ queue = {} /\ crashes = 0

MCUnits(n) == stock = [v \in Variants |-> [quantity |-> n + Withheld[v], available |-> n]]

MCSold(s, n) == [by |-> None, snapshot |-> s, number |-> n]

MCPaidInit ==
  /\ MCHalf
  /\ status = [s \in Snapshots |-> IF s = s3 THEN "EXPIRED" ELSE "PENDING"]
  /\ intent = [s \in Snapshots |-> IF s = s3 THEN "none" ELSE "succeeded"]
  /\ late = {s3} /\ declined = {}
  /\ timeline = <<>>
  /\ MCUnits(1)

MCTakenInit ==
  /\ MCHalf
  /\ status = [s \in Snapshots |->
                 CASE s = s1 -> "PAYMENT_PROCESSING" [] s = s2 -> "USED" [] s = s3 -> "PENDING"]
  /\ intent = [s \in Snapshots |-> IF s = s3 THEN "open" ELSE "succeeded"]
  /\ late = {s1} /\ declined = {}
  /\ timeline = <<MCSold(s1, 2), MCSold(s2, 1)>>
  /\ MCUnits(1)

MCFairSpec == (MCPaidInit \/ MCTakenInit) /\ [][Next]_vars /\ Fairness
=============================================================================
