------------------------------- MODULE Sales -------------------------------
(***************************************************************************)
(* What the checkout promises, without requests, transactions or cron      *)
(* jobs.  A checkout that has been paid may be sold: once, under an order  *)
(* number of its own, and only when every one of its lines is in stock.    *)
(***************************************************************************)
EXTENDS Money, Integers

CONSTANTS
  Snapshots,    \* checkouts
  Variants,     \* what is sold
  Lines,        \* what the checkouts ask for: units of a variant
  CheckoutOf, VariantOf, UnitsOf

VARIABLES
  paid,         \* checkouts whose payment is captured
  sales,        \* the orders
  stock         \* units in stock

Of(s, v) == {l \in Lines : CheckoutOf[l] = s /\ VariantOf[l] = v}
Wants(s, v) == Total(Of(s, v), UnitsOf)
Repeats(s, v) == \E k, l \in Of(s, v) : k # l

Init == paid = {} /\ sales = {} /\ stock \in [Variants -> Nat]

Pay(s) ==
  /\ paid' = paid \cup {s}
  /\ UNCHANGED <<sales, stock>>

(* What is sold is in stock.  Only when a checkout lists a variant more    *)
(* than once may it be that each line is in stock and all are not; the     *)
(* stock is then sold out.                                                 *)
Sell(s, n) ==
  /\ s \in paid
  /\ \A o \in sales : o.snapshot # s /\ o.number # n
  /\ \A v \in Variants :
       \/ Wants(s, v) <= stock[v]
       \/ Repeats(s, v) /\ \A l \in Of(s, v) : UnitsOf[l] <= stock[v]
  /\ sales' = sales \cup {[snapshot |-> s, number |-> n]}
  /\ stock' = [v \in Variants |->
                 IF Wants(s, v) <= stock[v] THEN stock[v] - Wants(s, v) ELSE 0]
  /\ paid' = paid

Next ==
  \E s \in Snapshots :
    \/ Pay(s)
    \/ \E o \in sales' \ sales : Sell(s, o.number)

Spec == Init /\ [][Next]_<<paid, sales, stock>>
=============================================================================
