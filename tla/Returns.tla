------------------------------ MODULE Returns ------------------------------
(***************************************************************************)
(* Returns of delivered orders: the request of the customer, the calls of  *)
(* the staff that move it on, its refund and its restock.                  *)
(*                                                                         *)
(* Every call loads the request with its items, works on the copy, and     *)
(* saves it whole: the items are saved with it (cascade).  Nothing is      *)
(* locked, and other clients run at every wait.                            *)
(*                                                                         *)
(* processRefund calls createRefund with a key of its own on every call;   *)
(* its refunds are those of module Refunds.                                *)
(***************************************************************************)
EXTENDS Integers, FiniteSets

CONSTANTS
  Orders,       \* orders.id
  Paid,         \* the orders that have a payment
  Amount,       \* payments.amount, in cents
  Returns,      \* calls of create, and the requests they insert
  OrderOf,      \* the order of a return
  Calls,        \* calls of the other handlers
  ReturnOf,     \* the return a call is about
  AskOf,        \* the amount of processRefund: the dto's, or that of the items
  Items,        \* return_items.id
  ReturnedIn,   \* the return of an item
  Absent

ReturnRequestStatus ==
  {"REQUESTED", "APPROVED", "REJECTED", "PICKUP_SCHEDULED", "IN_TRANSIT",
   "RECEIVED", "REFUNDED", "COMPLETED"}
ReturnRequest == [status : ReturnRequestStatus, total : Nat, damaged : BOOLEAN]
Jobs == {"cancel", "approve", "reject", "schedulePickup", "markInTransit",
         "markReceived", "markDelivered", "verifyItems", "processRefund", "complete"}

ASSUME ConstantsAssumption ==
  /\ Paid \subseteq Orders
  /\ Amount \in [Orders -> Nat \ {0}]
  /\ OrderOf \in [Returns -> Orders]
  /\ ReturnOf \in [Calls -> Returns]
  /\ AskOf \in [Calls -> Nat \ {0}]
  /\ ReturnedIn \in [Items -> Returns]
  /\ \A r \in Returns : \E i \in Items : ReturnedIn[i] = r   \* or no refund starts
  /\ IsFiniteSet(Calls)
  /\ Returns \cap Calls = {}
  /\ Absent \notin ReturnRequest

VARIABLES
  request,      \* return_requests with return_items
  shipped,      \* the returns that have a reverse shipment
  restocked,    \* history: how often the units of an item were put back in stock
  logged,       \* the calls that wrote REFUND_GATEWAY_LOG
  stage,        \* where a call is
  job,          \* the handler of a call
  copy,         \* the request a call has loaded
  raced,        \* history: calls whose rows were written since they looked
  payment, refund, stripe, pc, held, wire, target, shared, lapped    \* see Refunds

tables == <<request, shipped, restocked, logged>>
calls == <<stage, job, copy, raced>>
money == <<payment, refund, stripe, pc, held, wire, target, shared, lapped>>
vars == <<tables, calls, money>>

Refunds ==
  INSTANCE Refunds WITH
    Payments <- Orders, Keys <- Calls, Requests <- Calls, Price <- Amount,
    WithIntent <- Paid, Charged <- Paid, KeyOf <- [c \in Calls |-> c],
    PaymentOf <- [c \in Calls |-> OrderOf[ReturnOf[c]]]

Processes == Returns \cup Calls
Stages == {"idle", "insert", "save", "items", "pay", "restock", "ship", "done"}

Init ==
  /\ request = [r \in Returns |-> Absent]
  /\ shipped = {}
  /\ restocked = [i \in Items |-> 0]
  /\ logged = {}
  /\ stage = [p \in Processes |-> "idle"]
  /\ job \in [Calls -> Jobs]
  /\ copy = [c \in Calls |-> Absent]
  /\ raced = {}
  /\ Refunds!Init

Goto(p, next) == stage' = [stage EXCEPT ![p] = next]
Exists(r) == request[r] # Absent
Siblings(r) == {s \in Returns \ {r} : OrderOf[s] = OrderOf[r]}
-----------------------------------------------------------------------------
(* Mutant of FirstOf: only open returns count.                             *)
FirstOfMutant(r) ==
  \A s \in Siblings(r) : Exists(s) => request[s].status \in {"REJECTED", "COMPLETED"}

FirstOf(r) == \A s \in Siblings(r) : ~Exists(s)

(* create looks for a return of the order, of any status ...               *)
Check(r) ==
  /\ stage[r] = "idle"
  /\ \/ FirstOf(r) /\ Goto(r, "insert")
     \/ Goto(r, "done")     \* not first, not DELIVERED, or 24 hours later
  /\ UNCHANGED <<tables, job, copy, raced, money>>

(* ... and inserts one.                                                    *)
Insert(r) ==
  /\ stage[r] = "insert"
  /\ request' = [request EXCEPT ![r] =
                   [status |-> "REQUESTED", total |-> 0, damaged |-> FALSE]]
  /\ raced' = raced \cup {s \in Siblings(r) : stage[s] = "insert"}
  /\ Goto(r, "done")
  /\ UNCHANGED <<shipped, restocked, logged, job, copy, money>>
-----------------------------------------------------------------------------
(* Mutant of From: a return is completed from any status.                  *)
FromMutant(j) ==
  CASE j \in {"cancel", "approve", "reject"} -> {"REQUESTED"}
    [] j = "schedulePickup"                  -> {"APPROVED"}
    [] j = "verifyItems"                     -> {"RECEIVED"}
    [] OTHER                                 -> ReturnRequestStatus

(* The statuses in which a handler accepts a return, and what it makes of  *)
(* the request.                                                            *)
From(j) ==
  CASE j \in {"cancel", "approve", "reject"} -> {"REQUESTED"}
    [] j = "schedulePickup"                  -> {"APPROVED"}
    [] j = "verifyItems"                     -> {"RECEIVED"}
    [] j = "complete"                        -> {"REFUNDED"}
    [] OTHER                                 -> ReturnRequestStatus

Becomes(j) ==
  CASE j \in {"cancel", "reject"}          -> "REJECTED"
    [] j = "approve"                       -> "APPROVED"
    [] j = "schedulePickup"                -> "PICKUP_SCHEDULED"
    [] j = "markInTransit"                 -> "IN_TRANSIT"
    [] j \in {"markReceived", "markDelivered"} -> "RECEIVED"
    [] j = "processRefund"                 -> "REFUNDED"
    [] j = "complete"                      -> "COMPLETED"

First(j) == IF j \in {"verifyItems", "processRefund"} THEN "items" ELSE "save"

Load(c) ==
  LET r == ReturnOf[c]
  IN  /\ stage[c] = "idle"
      /\ Exists(r)
      /\ \/ /\ request[r].status \in From(job[c])
            /\ copy' = [copy EXCEPT ![c] = request[r]]
            /\ Goto(c, First(job[c]))
         \/ /\ request[r].status \notin From(job[c])
            /\ copy' = copy
            /\ Goto(c, "done")
      /\ UNCHANGED <<tables, job, raced, money>>

(* The other calls that have loaded the request and will save it.          *)
Loaded(c) ==
  {d \in Calls \ {c} : ReturnOf[d] = ReturnOf[c] /\ stage[d] \in {"items", "pay", "save"}}

(* The items are read again and saved: with the conditions found, or with  *)
(* the amounts of the refund, which no property is about, and then with    *)
(* the conditions of either read.                                          *)
SaveItems(c) ==
  LET r == ReturnOf[c]
  IN  /\ stage[c] = "items"
      /\ \/ /\ job[c] = "verifyItems"
            /\ \E d \in BOOLEAN : request' = [request EXCEPT ![r].damaged = d]
            /\ raced' = raced \cup Loaded(c)
            /\ Goto(c, "done")
         \/ /\ job[c] = "processRefund"
            /\ request' \in {request} \cup
                 {[request EXCEPT ![r].damaged = copy[d].damaged] : d \in {c} \cap raced}
            /\ raced' = IF request' = request THEN raced ELSE raced \cup Loaded(c)
            /\ Goto(c, IF OrderOf[r] \in Paid THEN "pay" ELSE "save")
      /\ UNCHANGED <<shipped, restocked, logged, job, copy, money>>

(* createRefund for the payment of the order ...                           *)
Pay(c) ==
  /\ stage[c] = "pay"
  /\ Refunds!Check(c) \/ Refunds!Proceed(c)
  /\ UNCHANGED <<tables, calls>>

Stripe(c) ==
  /\ Refunds!StripeAccepts(c) \/ Refunds!StripeRejects(c)
  /\ UNCHANGED <<tables, calls>>

(* Mutant of PayEnds: what createRefund throws is swallowed.               *)
PayEndsMutant(c) ==
  /\ stage[c] = "pay"
  /\ pc[c] \in Refunds!Ended \ {"crashed"}
  /\ Goto(c, "save")
  /\ UNCHANGED <<tables, job, copy, raced, money>>

(* ... whose errors are written to the audit of the return, no more.       *)
PayEnds(c) ==
  /\ stage[c] = "pay"
  /\ pc[c] \in Refunds!Ended \ {"crashed"}
  /\ logged' = IF pc[c] = "refunded" THEN logged ELSE logged \cup {c}
  /\ Goto(c, "save")
  /\ UNCHANGED <<request, shipped, restocked, job, copy, raced, money>>

(* Mutant of Saved: the refund saves the items as the customer sent them.  *)
SavedMutant(c) ==
  [status  |-> Becomes(job[c]),
   total   |-> IF job[c] = "processRefund" THEN AskOf[c] ELSE copy[c].total,
   damaged |-> job[c] # "processRefund" /\ copy[c].damaged]

(* What a save leaves: markInTransit and markDelivered load no items.      *)
Saved(c) ==
  LET r == ReturnOf[c]
  IN  [status  |-> Becomes(job[c]),
       total   |-> IF job[c] = "processRefund" THEN AskOf[c] ELSE copy[c].total,
       damaged |-> IF job[c] \in {"markInTransit", "markDelivered"}
                     THEN request[r].damaged ELSE copy[c].damaged]

Save(c) ==
  /\ stage[c] = "save"
  /\ request' = [request EXCEPT ![ReturnOf[c]] = Saved(c)]
  /\ raced' = raced \cup Loaded(c)
  /\ Goto(c, CASE job[c] = "processRefund" -> "restock"
               [] job[c] \in {"markInTransit", "markDelivered"} -> "ship"
               [] OTHER -> "done")
  /\ UNCHANGED <<shipped, restocked, logged, job, copy, money>>

(* The units go back item by item.  An error of the restock of one is      *)
(* swallowed, and the loop may end half-way, on an error of a read or with *)
(* the process: any of the items may have come back when the call is over. *)
Restock(c) ==
  /\ stage[c] = "restock"
  /\ \E back \in SUBSET {i \in Items : ReturnedIn[i] = ReturnOf[c]} :
       restocked' = [i \in Items |-> restocked[i] + (IF i \in back THEN 1 ELSE 0)]
  /\ Goto(c, "done")
  /\ UNCHANGED <<request, shipped, logged, job, copy, raced, money>>

Ship(c) ==
  /\ stage[c] = "ship"
  /\ shipped' = shipped \cup {ReturnOf[c]}
  /\ Goto(c, "done")
  /\ UNCHANGED <<request, restocked, logged, job, copy, raced, money>>

(* The process dies.                                                       *)
Crash(p) ==
  \/ /\ stage[p] \notin {"idle", "pay", "done"}
     /\ Goto(p, "done")
     /\ UNCHANGED <<tables, job, copy, raced, money>>
  \/ /\ p \in Calls
     /\ Refunds!Crash(p)
     /\ Goto(p, "done")
     /\ UNCHANGED <<tables, job, copy, raced>>
-----------------------------------------------------------------------------
Next ==
  \/ \E r \in Returns : Check(r) \/ Insert(r)
  \/ \E c \in Calls :
       \/ Load(c) \/ SaveItems(c) \/ Pay(c) \/ Stripe(c) \/ PayEnds(c)
       \/ Save(c) \/ Restock(c) \/ Ship(c)
  \/ \E p \in Processes : Crash(p)

Spec == Init /\ [][Next]_vars
-----------------------------------------------------------------------------
(* An order gets a second return only when both requests were looking at   *)
(* the same time (create: the check and the insert are apart).             *)
SecondReturnIsRaced ==
  [][\A r \in Returns :
       ~Exists(r) /\ Exists(r)' => r \in raced \/ \A s \in Siblings(r) : ~Exists(s)]_vars

(* The calls that check no status.                                         *)
ByHand == {"markInTransit", "markReceived", "markDelivered", "processRefund"}

(* A refused or completed return stays so, and a refunded one can only be  *)
(* completed, unless it is reopened by hand, that is by a call that checks *)
(* no status, or by a call that loaded it before: no chain of checked      *)
(* calls goes round in a circle (approve, reject, cancel, complete).       *)
ClosedIsReopenedByHand ==
  [][\A r \in Returns :
       Exists(r) /\ request[r].status \in {"REJECTED", "REFUNDED", "COMPLETED"}
         /\ request'[r].status # request[r].status
         /\ <<request[r].status, request'[r].status>> # <<"REFUNDED", "COMPLETED">> =>
           \E c \in Calls : ReturnOf[c] = r /\ stage'[c] # stage[c]
                            /\ (job[c] \in ByHand \/ c \in raced)]_vars

(* The damage found at the warehouse stays on record, although every save  *)
(* of the request writes its items too: only a call that loaded the        *)
(* request before, or another verification, takes it back.                 *)
DamageStands ==
  [][\A r \in Returns :
       Exists(r) /\ request[r].damaged /\ ~request'[r].damaged =>
         \E c \in Calls : ReturnOf[c] = r /\ stage'[c] # stage[c]
                          /\ (job[c] = "verifyItems" \/ c \in raced)]_vars

(* A refund that has gone through processRefund for a paid order is either *)
(* booked as COMPLETED or in the audit of the return, whatever Stripe, the *)
(* network and other refunds of the order did; and the units of an item    *)
(* come back to the stock at most once for each call that got that far,    *)
(* also when calls overlap or stop between two items.                      *)
Accounted(c) ==
  OrderOf[ReturnOf[c]] \in Paid =>
    c \in logged \/ (refund[c].status = "COMPLETED" /\ refund[c].amount = AskOf[c])
Through(r) ==
  {c \in Calls : ReturnOf[c] = r /\ job[c] = "processRefund"
                 /\ stage[c] = "done" /\ Accounted(c)}
GoodsFollowMoney ==
  /\ \A c \in Calls :
       job[c] = "processRefund" /\ stage[c] \in {"save", "restock"} => Accounted(c)
  /\ \A i \in Items : restocked[i] <= Cardinality(Through(ReturnedIn[i]))

(* However often returns of one order are refunded, each call with a key   *)
(* of its own, the refunds under way and done stay within its payment.     *)
RefundsWithinPayment == \A o \in Orders : Refunds!Reserved(o) <= Amount[o]
=============================================================================
