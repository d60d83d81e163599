---------------------------- MODULE RefundLedger ----------------------------
(***************************************************************************)
(* What the refund engine promises, without requests, locks or Stripe: a   *)
(* ledger with one entry per idempotency key.  An entry is promised once,  *)
(* within what remains of its payment, and is then either settled or       *)
(* withdrawn, for good.  A payment is closed as fully refunded only when   *)
(* its settled entries make up its whole price, and is never reopened.     *)
(*                                                                         *)
(* A key that two callers use at once is shared: what one of them settled  *)
(* the other may withdraw, and the other way round, and its payment may be *)
(* closed or reopened wrongly.  It is still promised only once.            *)
(***************************************************************************)
EXTENDS Integers, FiniteSets, Money

CONSTANTS Payments, Keys, Price

VARIABLES entry, closed, shared

vars == <<entry, closed, shared>>

States == {"open", "promised", "settled", "withdrawn"}

Entries(p, states) == {k \in Keys : entry[k].payment = p /\ entry[k].state \in states}
Amounts == [k \in Keys |-> entry[k].amount]
Outstanding(p) == Total(Entries(p, {"promised", "settled"}), Amounts)
Settled(p) == Total(Entries(p, {"settled"}), Amounts)

(* A key of the payment is shared. *)
Disturbed(p) == \E k \in shared : entry[k].state # "open" /\ entry[k].payment = p

Init ==
  /\ \E p \in Payments :
       entry = [k \in Keys |-> [state |-> "open", payment |-> p, amount |-> 0]]
  /\ closed = {}
  /\ shared = {}

Promise(k, p, a) ==
  /\ entry[k].state = "open"
  /\ p \notin closed
  /\ Outstanding(p) + a <= Price[p]
  /\ entry' = [entry EXCEPT ![k] = [state |-> "promised", payment |-> p, amount |-> a]]
  /\ UNCHANGED <<closed, shared>>

Settle(k) ==
  LET p == entry[k].payment
  IN  /\ entry[k].state = "promised" \/ (k \in shared /\ entry[k].state # "open")
      /\ entry' = [entry EXCEPT ![k].state = "settled"]
      /\ \/ closed' = closed
         \/ closed' = closed \cup {p} /\ (Settled(p)' = Price[p] \/ Disturbed(p))
         \/ closed' = closed \ {p} /\ Disturbed(p)
      /\ shared' = shared

Withdraw(k) ==
  /\ entry[k].state = "promised" \/ (k \in shared /\ entry[k].state # "open")
  /\ entry' = [entry EXCEPT ![k].state = "withdrawn"]
  /\ UNCHANGED <<closed, shared>>

Share(k) ==
  /\ shared' = shared \cup {k}
  /\ UNCHANGED <<entry, closed>>

Next ==
  \E k \in Keys :
    \/ \E p \in Payments : \E a \in 1 .. Price[p] : Promise(k, p, a)
    \/ Settle(k)
    \/ Withdraw(k)
    \/ Share(k)

Spec == Init /\ [][Next]_vars
=============================================================================
