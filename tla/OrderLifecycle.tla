--------------------------- MODULE OrderLifecycle ---------------------------
(***************************************************************************)
(* An order after it is placed: cancellations by customers and             *)
(* administrators, status changes by staff, and its shipment.              *)
(*                                                                         *)
(*    cancelOrder    read the order; a transaction that locks it, cancels  *)
(*                   it and puts its units back; then a refund through     *)
(*                   createRefund with the key cancel_order_<id>           *)
(*    updateStatus of an order    save the status; then move the shipment  *)
(*    updateStatus of a shipment  read and validate; write the status of   *)
(*                   the order; save the shipment                          *)
(*                                                                         *)
(* The refunds are those of module Refunds, with one request for each      *)
(* cancellation.  Other clients run at every wait.                         *)
(***************************************************************************)
EXTENDS Integers, FiniteSets

CONSTANTS
  Orders,       \* orders.id
  Paid,         \* the orders with payment_status PAID and a payment
  Amount,       \* orders.total_amount, in cents
  Cancels,      \* calls of cancelOrder
  Customers,    \* the calls made by customers
  OrderOf,      \* the order that a call cancels
  Staff,        \* calls of updateStatus, of an order or of a shipment
  OrderEdits    \* bound: the statuses staff give to orders by hand

OrderStatus ==
  {"PENDING", "CONFIRMED", "PROCESSING", "PACKED", "DISPATCHED", "SHIPPED",
   "OUT_FOR_DELIVERY", "DELIVERED", "FAILED_DELIVERY", "CANCELLED",
   "RETURN_REQUESTED", "RETURNED"}
ShipmentStatus ==
  {"PENDING", "PACKED", "READY_FOR_DISPATCH", "SHIPPED", "OUT_FOR_DELIVERY",
   "DELIVERED", "FAILED_DELIVERY"}
Uncancellable ==
  {"DISPATCHED", "SHIPPED", "OUT_FOR_DELIVERY", "DELIVERED", "CANCELLED",
   "RETURN_REQUESTED", "RETURNED"}

ASSUME ConstantsAssumption ==
  /\ IsFiniteSet(Orders)
  /\ Paid \subseteq Orders
  /\ Amount \in [Orders -> Nat \ {0}]
  /\ Customers \subseteq Cancels
  /\ OrderOf \in [Cancels -> Orders]
  /\ Cancels \cap Staff = {}
  /\ OrderEdits \subseteq OrderStatus

VARIABLES
  order,        \* orders.status
  shipment,     \* shipments.status; NONE without a shipment
  returned,     \* how often the units of an order were put back in stock
  stage,        \* where a call is
  edit,         \* the order and the status a staff call is about
  behind,       \* the staff calls whose shipment was saved since they read it
  revived,      \* history: how often a status was saved over the cancellation of an order
  struck,       \* history: cancellations whose order updateStatus cancelled under way
  payment, refund, stripe, pc, held, wire, target, shared, lapped    \* see Refunds

books == <<order, shipment, returned>>
staff == <<edit, behind>>
marks == <<revived, struck>>
money == <<payment, refund, stripe, pc, held, wire, target, shared, lapped>>
vars == <<books, stage, staff, marks, money>>

Refunds ==
  INSTANCE Refunds WITH
    Payments <- Orders, Keys <- Orders, Requests <- Cancels, Price <- Amount,
    WithIntent <- Paid, Charged <- Paid, KeyOf <- OrderOf, PaymentOf <- OrderOf,
    AskOf <- [c \in Cancels |-> Amount[OrderOf[c]]]

Processes == Cancels \cup Staff
Stages == {"idle", "tx", "refund", "sync", "validate", "relay", "save", "done"}

Init ==
  /\ order = [o \in Orders |-> IF o \in Paid THEN "PROCESSING" ELSE "PENDING"]
  /\ shipment \in [Orders -> {"NONE", "PENDING"}]
  /\ returned = [o \in Orders |-> 0]
  /\ stage = [p \in Processes |-> "idle"]
  /\ \E o \in Orders : edit = [p \in Staff |-> [order |-> o, status |-> "PENDING"]]
  /\ behind = {}
  /\ revived = [o \in Orders |-> 0]
  /\ struck = {}
  /\ Refunds!Init

Goto(p, next) == stage' = [stage EXCEPT ![p] = next]
-----------------------------------------------------------------------------
(* cancelOrder reads the order without a lock.  A customer is also turned  *)
(* away when 24 hours have passed.                                         *)
ReadOrder(c) ==
  LET status == order[OrderOf[c]]
  IN  /\ stage[c] = "idle"
      /\ \/ /\ status # "CANCELLED"
            /\ c \in Customers => status \notin Uncancellable
            /\ Goto(c, "tx")
         \/ /\ status = "CANCELLED" \/ c \in Customers
            /\ Goto(c, "done")
      /\ UNCHANGED <<books, staff, marks, money>>

(* Mutant of Restore: the status is not read again under the lock.         *)
RestoreMutant(c) ==
  LET o == OrderOf[c]
  IN  /\ stage[c] = "tx"
      /\ order' = [order EXCEPT ![o] = "CANCELLED"]
      /\ returned' = [returned EXCEPT ![o] = @ + 1]
      /\ Goto(c, IF o \in Paid THEN "refund" ELSE "done")
      /\ UNCHANGED <<shipment, staff, marks, money>>

(* The transaction, serialised by the lock of the order.  An order that    *)
(* was cancelled meanwhile is left as it is, but the call goes on to the   *)
(* refund, which depends on the payment status it read at the start.       *)
Restore(c) ==
  LET o == OrderOf[c]
  IN  /\ stage[c] = "tx"
      /\ \/ /\ order[o] # "CANCELLED"
            /\ order' = [order EXCEPT ![o] = "CANCELLED"]
            /\ returned' = [returned EXCEPT ![o] = @ + 1]
         \/ /\ order[o] = "CANCELLED"
            /\ UNCHANGED <<order, returned>>
      /\ Goto(c, IF o \in Paid THEN "refund" ELSE "done")
      /\ UNCHANGED <<shipment, staff, marks, money>>

(* Mutant of RestoreFails: an error of the transaction is only logged.     *)
RestoreFailsMutant(c) ==
  /\ stage[c] = "tx"
  /\ Goto(c, IF OrderOf[c] \in Paid THEN "refund" ELSE "done")
  /\ UNCHANGED <<books, staff, marks, money>>

(* Postgres ends the transaction, for one to break a deadlock with a       *)
(* checkout that locks the rows of inventories in another order.           *)
RestoreFails(c) ==
  /\ stage[c] = "tx"
  /\ Goto(c, "done")
  /\ UNCHANGED <<books, staff, marks, money>>

(* createRefund of the whole amount.  What it throws is logged, and the    *)
(* call ends as a success.                                                 *)
RefundOrder(c) ==
  /\ stage[c] = "refund"
  /\ Refunds!Check(c) \/ Refunds!Proceed(c)
  /\ UNCHANGED <<books, stage, staff, marks>>

Stripe(c) ==
  /\ Refunds!StripeAccepts(c) \/ Refunds!StripeRejects(c)
  /\ UNCHANGED <<books, stage, staff, marks>>
-----------------------------------------------------------------------------
(* What the shipment becomes when staff pack or dispatch the order, and    *)
(* from which statuses.                                                    *)
Follows(status) == IF status = "PACKED" THEN "PACKED" ELSE "READY_FOR_DISPATCH"
Before(status) == IF status = "PACKED" THEN {"PENDING"} ELSE {"PENDING", "PACKED"}

(* A status saved over CANCELLED makes an order that can be cancelled, and *)
(* put back in stock, again.                                               *)
Revive(o, status) ==
  revived' = IF order[o] = "CANCELLED" /\ status # "CANCELLED"
               THEN [revived EXCEPT ![o] = @ + 1] ELSE revived

Cancelling(o) == {c \in Cancels : stage[c] = "tx" /\ OrderOf[c] = o}

(* updateStatus of an order saves any status over any other, CANCELLED     *)
(* included, which returns neither the units nor the money.                *)
EditOrder(p) ==
  /\ stage[p] = "idle"
  /\ \E o \in Orders, s \in OrderEdits :
       /\ order' = [order EXCEPT ![o] = s]
       /\ Revive(o, s)
       /\ struck' = IF s = "CANCELLED" THEN struck \cup Cancelling(o) ELSE struck
       /\ edit' = [edit EXCEPT ![p] = [order |-> o, status |-> Follows(s)]]
       /\ Goto(p, IF s \in {"PACKED", "DISPATCHED"} THEN "sync" ELSE "done")
  /\ UNCHANGED <<shipment, returned, behind, money>>

(* Its shipment follows, if there is one that has not gone further.        *)
SyncShipment(p) ==
  LET o == edit[p].order
  IN  /\ stage[p] = "sync"
      /\ Goto(p, IF shipment[o] \in Before(edit[p].status) THEN "validate" ELSE "done")
      /\ UNCHANGED <<books, staff, marks, money>>

EditShipment(p) ==
  /\ stage[p] = "idle"
  /\ \E o \in Orders, s \in ShipmentStatus :
       /\ shipment[o] # "NONE"
       /\ edit' = [edit EXCEPT ![p] = [order |-> o, status |-> s]]
  /\ Goto(p, "validate")
  /\ UNCHANGED <<books, behind, marks, money>>

(* A note without a status is not validated, but the shipment is saved as  *)
(* it was read all the same.                                               *)
AnnotateShipment(p) ==
  /\ stage[p] = "idle"
  /\ \E o \in Orders :
       /\ shipment[o] # "NONE"
       /\ edit' = [edit EXCEPT ![p] = [order |-> o, status |-> shipment[o]]]
  /\ Goto(p, "save")
  /\ UNCHANGED <<books, behind, marks, money>>

(* validTransitions.                                                       *)
Transitions(status) ==
  CASE status = "PENDING" ->
         {"PACKED", "READY_FOR_DISPATCH", "SHIPPED", "FAILED_DELIVERY"}
    [] status = "PACKED" ->
         {"READY_FOR_DISPATCH", "SHIPPED", "OUT_FOR_DELIVERY", "FAILED_DELIVERY"}
    [] status = "READY_FOR_DISPATCH" ->
         {"SHIPPED", "OUT_FOR_DELIVERY", "DELIVERED", "FAILED_DELIVERY"}
    [] status = "SHIPPED" -> {"OUT_FOR_DELIVERY", "DELIVERED", "FAILED_DELIVERY"}
    [] status = "OUT_FOR_DELIVERY" -> {"DELIVERED", "FAILED_DELIVERY"}
    [] status = "FAILED_DELIVERY" -> {"SHIPPED", "OUT_FOR_DELIVERY"}
    [] OTHER -> {}

(* Mutant of Validate: only a status that is repeated is refused.          *)
ValidateMutant(p) ==
  /\ stage[p] = "validate"
  /\ Goto(p, IF edit[p].status # shipment[edit[p].order] THEN "relay" ELSE "done")
  /\ UNCHANGED <<books, staff, marks, money>>

(* updateStatus of a shipment validates against the status it has read.    *)
Validate(p) ==
  /\ stage[p] = "validate"
  /\ Goto(p, IF edit[p].status \in Transitions(shipment[edit[p].order])
               THEN "relay" ELSE "done")
  /\ UNCHANGED <<books, staff, marks, money>>

(* Mutant of OrderStatusOf: the order gets the status of the shipment.     *)
OrderStatusOfMutant(status) == status

(* statusMap.                                                              *)
OrderStatusOf(status) == IF status = "READY_FOR_DISPATCH" THEN "DISPATCHED" ELSE status

(* It then writes the status of the order, whatever that is by now, ...    *)
Relay(p) ==
  /\ stage[p] = "relay"
  /\ order' = [order EXCEPT ![edit[p].order] = OrderStatusOf(edit[p].status)]
  /\ Revive(edit[p].order, OrderStatusOf(edit[p].status))
  /\ Goto(p, "save")
  /\ UNCHANGED <<shipment, returned, staff, struck, money>>

(* ... and saves the shipment it has read, over what others have saved.    *)
Reading(o) == {q \in Staff : stage[q] \in {"relay", "save"} /\ edit[q].order = o}

SaveShipment(p) ==
  /\ stage[p] = "save"
  /\ shipment' = [shipment EXCEPT ![edit[p].order] = edit[p].status]
  /\ behind' = (behind \cup Reading(edit[p].order)) \ {p}
  /\ Goto(p, "done")
  /\ UNCHANGED <<order, returned, edit, marks, money>>

(* The process dies.                                                       *)
Crash(p) ==
  \/ /\ stage[p] \notin {"idle", "done"}
     /\ stage[p] = "refund" => pc[p] = "idle"
     /\ Goto(p, "done")
     /\ UNCHANGED <<books, staff, marks, money>>
  \/ /\ p \in Cancels
     /\ Refunds!Crash(p)
     /\ UNCHANGED <<books, stage, staff, marks>>
-----------------------------------------------------------------------------
Next ==
  \/ \E c \in Cancels :
       \/ ReadOrder(c) \/ Restore(c) \/ RestoreFails(c) \/ RefundOrder(c) \/ Stripe(c)
  \/ \E p \in Staff :
       \/ EditOrder(p) \/ SyncShipment(p) \/ EditShipment(p) \/ AnnotateShipment(p)
       \/ Validate(p) \/ Relay(p) \/ SaveShipment(p)
  \/ \E p \in Processes : Crash(p)

Spec == Init /\ [][Next]_vars
-----------------------------------------------------------------------------
(* Every variable keeps its type.                                          *)
TypeOK ==
  /\ order \in [Orders -> OrderStatus]
  /\ shipment \in [Orders -> ShipmentStatus \cup {"NONE"}]
  /\ returned \in [Orders -> Nat]
  /\ stage \in [Processes -> Stages]
  /\ edit \in [Staff -> [order : Orders, status : ShipmentStatus]]
  /\ behind \subseteq Staff
  /\ revived \in [Orders -> Nat]
  /\ struck \subseteq Cancels
  /\ Refunds!TypeOK

(* The units of an order go back to the stock once, however many           *)
(* cancellations race for it, and once more for each time a status was     *)
(* saved over its cancellation: cancelOrder reads the status again under   *)
(* the lock, and updateStatus of an order or of its shipment reads nothing *)
(* before it writes.                                                       *)
RestocksFollowRevivals == \A o \in Orders : returned[o] <= 1 + revived[o]

(* A shipment takes the transitions of validTransitions only, also when    *)
(* staff move it through its order.  A call breaks them only by saving     *)
(* over a shipment that another one has moved since it was validated.      *)
OnlyRacesBreakTransitions ==
  [][\A o \in Orders :
       shipment'[o] # shipment[o] =>
         \/ shipment'[o] \in Transitions(shipment[o])
         \/ \E p \in behind :
              stage[p] = "save" /\ edit[p] = [order |-> o, status |-> shipment'[o]]]_vars

(* No money goes back for an order whose units have not, also when a       *)
(* cancellation finds the order cancelled by another: the refund comes     *)
(* after the transaction that restores the stock.  The one way around it   *)
(* is updateStatus, which saves CANCELLED between the read of cancelOrder  *)
(* and its transaction: that then returns early, and the refund goes out.  *)
RefundFollowsRestock ==
  \A o \in Orders : stripe[o].amount > 0 =>
    returned[o] > 0 \/ \E c \in struck : OrderOf[c] = o

(* A payment that says REFUNDED was paid back whole, although several      *)
(* cancellations of one order use one key at the same time (cancelOrder    *)
(* and createRefund together).                                             *)
RefundedInFull ==
  \A o \in Orders : payment[o] = "REFUNDED" => stripe[o].amount = Amount[o]
=============================================================================
