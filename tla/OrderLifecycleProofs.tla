------------------------ MODULE OrderLifecycleProofs ------------------------
(***************************************************************************)
(* Safety of orders, for any number of orders, cancellations and staff.    *)
(* The cancellations run createRefund as module Refunds says, so what is   *)
(* proved of Refunds holds here as well.                                   *)
(***************************************************************************)
EXTENDS OrderLifecycle, TLAPS

Theory ==
  INSTANCE RefundsProofs WITH
    Payments <- Orders, Keys <- Orders, Requests <- Cancels, Price <- Amount,
    WithIntent <- Paid, Charged <- Paid, KeyOf <- OrderOf, PaymentOf <- OrderOf,
    AskOf <- [c \in Cancels |-> Amount[OrderOf[c]]]

(* The assumption of Refunds on its constants holds for the cancellations. *)
LEMMA RefundsAssumption ==
  /\ Theory!IsFiniteSet(Orders)
  /\ Amount \in [Orders -> Nat \ {0}]
  /\ Paid \subseteq Orders
  /\ Paid \subseteq Paid
  /\ OrderOf \in [Cancels -> Orders]
  /\ OrderOf \in [Cancels -> Orders]
  /\ [c \in Cancels |-> Amount[OrderOf[c]]] \in [Cancels -> Nat]
<1>1. Theory!IsFiniteSet(Orders)
  BY ConstantsAssumption DEF IsFiniteSet, Theory!IsFiniteSet
<1>2. QED
  BY <1>1, ConstantsAssumption

(* The module and its theory instantiate the same sums, tests and actions. *)
LEMMA SameSums == \A S, f : Refunds!Total(S, f) = Theory!Total(S, f)
<1>1. \A S : Refunds!IsFiniteSet(S) = Theory!IsFiniteSet(S)
  BY DEF Refunds!IsFiniteSet, Theory!IsFiniteSet
<1>2. \A S : Refunds!Cardinality(S) = Theory!Cardinality(S)
  BY <1>1 DEF Refunds!Cardinality, Theory!Cardinality
<1>3. \A S, f : Refunds!Cents(S, f) = Theory!Cents(S, f)
  BY DEF Refunds!Cents, Theory!Cents
<1>4. QED
  BY <1>2, <1>3 DEF Refunds!Total, Theory!Total

LEMMA SameTotals ==
  /\ \A o : Refunds!Reserved(o) = Theory!Reserved(o)
  /\ \A o : Refunds!Completed(o) = Theory!Completed(o)
  /\ \A o : Refunds!StripeTotal(o) = Theory!StripeTotal(o)
  /\ \A c : Refunds!CompletedSeen(c) = Theory!CompletedSeen(c)
<1>1. \A o, X : Refunds!Rows(o, X) = Theory!Rows(o, X)
  BY DEF Refunds!Rows, Theory!Rows
<1>2. Refunds!RowAmounts = Theory!RowAmounts /\ Refunds!StripeAmounts = Theory!StripeAmounts
  BY DEF Refunds!RowAmounts, Theory!RowAmounts, Refunds!StripeAmounts, Theory!StripeAmounts
<1>3. \A o : Refunds!PaidBack(o) = Theory!PaidBack(o)
  BY DEF Refunds!PaidBack, Theory!PaidBack
<1>4. QED
  BY <1>1, <1>2, <1>3, SameSums
  DEF Refunds!Reserved, Theory!Reserved, Refunds!Completed, Theory!Completed,
      Refunds!StripeTotal, Theory!StripeTotal, Refunds!CompletedSeen, Theory!CompletedSeen

LEMMA SameTests ==
  /\ \A c : Refunds!Admissible(c) = Theory!Admissible(c)
  /\ \A c : Refunds!RefundAmount(c) = Theory!RefundAmount(c)
  /\ \A c : Refunds!Row(c) = Theory!Row(c)
  /\ \A c : Refunds!Conflict(c) = Theory!Conflict(c)
  /\ \A c : Refunds!RowLocked(c) = Theory!RowLocked(c)
  /\ \A c : Refunds!NewStatus(c) = Theory!NewStatus(c)
<1>1. \A o : Refunds!Remaining(o) = Theory!Remaining(o)
  BY SameTotals DEF Refunds!Remaining, Theory!Remaining
<1>2. \A c : Refunds!RefundAmount(c) = Theory!RefundAmount(c)
  BY <1>1 DEF Refunds!RefundAmount, Theory!RefundAmount
<1>3. \A c : Refunds!Row(c) = Theory!Row(c)
  BY DEF Refunds!Row, Theory!Row
<1>4. \A c : Refunds!Admissible(c) = Theory!Admissible(c)
  BY <1>1, <1>2 DEF Refunds!Admissible, Theory!Admissible
<1>5. \A c : Refunds!Conflict(c) = Theory!Conflict(c)
  BY <1>3 DEF Refunds!Conflict, Theory!Conflict
<1>6. \A c : Refunds!RowLocked(c) = Theory!RowLocked(c)
  BY DEF Refunds!RowLocked, Theory!RowLocked, Refunds!SameKey, Theory!SameKey
<1>7. \A c : Refunds!NewStatus(c) = Theory!NewStatus(c)
  BY SameTotals DEF Refunds!NewStatus, Theory!NewStatus
<1>8. QED
  BY <1>2, <1>3, <1>4, <1>5, <1>6, <1>7

LEMMA SameActions ==
  ASSUME NEW c \in Cancels
  PROVE  /\ Refunds!Check(c) => Theory!Check(c)
         /\ Refunds!Proceed(c) => Theory!Proceed(c)
         /\ Refunds!StripeAccepts(c) => Theory!StripeAccepts(c)
         /\ Refunds!StripeRejects(c) => Theory!StripeRejects(c)
         /\ Refunds!Crash(c) => Theory!Crash(c)
<1>1. Refunds!Check(c) => Theory!Check(c)
  <2>1. Refunds!SharedBy(c) = Theory!SharedBy(c)
    BY DEF Refunds!SharedBy, Theory!SharedBy, Refunds!SameKey, Theory!SameKey,
           Refunds!Running, Theory!Running
  <2>2. QED
    BY <2>1, SameTests DEF Refunds!Check, Theory!Check
<1>2. Refunds!Reserve(c) => Theory!Reserve(c)
  BY SameTests DEF Refunds!Reserve, Theory!Reserve
<1>3. /\ Refunds!Send(c) => Theory!Send(c)
      /\ Refunds!Answered(c) => Theory!Answered(c)
      /\ Refunds!CallFails(c) => Theory!CallFails(c)
  BY DEF Refunds!Send, Theory!Send, Refunds!Answered, Theory!Answered,
         Refunds!CallFails, Theory!CallFails
<1>4. Refunds!MarkFailed(c) => Theory!MarkFailed(c)
  BY SameTests DEF Refunds!MarkFailed, Theory!MarkFailed
<1>5. Refunds!Finalise(c) => Theory!Finalise(c)
  BY SameTests DEF Refunds!Finalise, Theory!Finalise
<1>6. Refunds!Commit(c) => Theory!Commit(c)
  BY DEF Refunds!Commit, Theory!Commit
<1>7. Refunds!Proceed(c) => Theory!Proceed(c)
  BY <1>2, <1>3, <1>4, <1>5, <1>6 DEF Refunds!Proceed, Theory!Proceed
<1>8. Refunds!StripeAccepts(c) => Theory!StripeAccepts(c)
  BY SameTotals DEF Refunds!StripeAccepts, Theory!StripeAccepts
<1>9. Refunds!StripeRejects(c) => Theory!StripeRejects(c)
  BY DEF Refunds!StripeRejects, Theory!StripeRejects
<1>10. Refunds!Crash(c) => Theory!Crash(c)
  BY DEF Refunds!Crash, Theory!Crash, Refunds!Running, Theory!Running
<1>11. QED
  BY <1>1, <1>7, <1>8, <1>9, <1>10

(* The refund engine inside the life of an order takes its own steps only. *)
LEMMA RefundSteps == [Next]_vars => [Theory!Next]_money
<1> SUFFICES ASSUME Next PROVE [Theory!Next]_money
  BY DEF vars
<1>1. ASSUME NEW c \in Cancels, RefundOrder(c) \/ Stripe(c) PROVE Theory!Next
  BY <1>1, SameActions DEF RefundOrder, Stripe, Theory!Next
<1>2. ASSUME NEW p \in Processes, Crash(p) PROVE Theory!Next \/ UNCHANGED money
  BY <1>2, SameActions DEF Crash, Theory!Next
<1>3. ASSUME NEW c \in Cancels, ReadOrder(c) \/ Restore(c) \/ RestoreFails(c)
      PROVE  UNCHANGED money
  BY <1>3 DEF ReadOrder, Restore, RestoreFails
<1>4. ASSUME NEW p \in Staff,
             \/ EditOrder(p) \/ SyncShipment(p) \/ EditShipment(p) \/ AnnotateShipment(p)
             \/ Validate(p) \/ Relay(p) \/ SaveShipment(p)
      PROVE  UNCHANGED money
  BY <1>4 DEF EditOrder, SyncShipment, EditShipment, AnnotateShipment, Validate, Relay,
     SaveShipment
<1>5. QED
  BY <1>1, <1>2, <1>3, <1>4 DEF Next

LEMMA RefundsRun == Spec => Theory!Spec
<1>1. Init => Theory!Init
  BY DEF Init, Refunds!Init, Theory!Init
<1>2. [Next]_vars => [Theory!Next]_Theory!vars
  BY RefundSteps DEF money, Theory!vars
<1>3. QED
  BY <1>1, <1>2, PTL DEF Spec, Theory!Spec

(***************************************************************************)
(* The calls and the books of an order.                                    *)
(***************************************************************************)
LifeType ==
  /\ order \in [Orders -> OrderStatus]
  /\ shipment \in [Orders -> ShipmentStatus \cup {"NONE"}]
  /\ returned \in [Orders -> Nat]
  /\ stage \in [Processes -> Stages]
  /\ edit \in [Staff -> [order : Orders, status : ShipmentStatus]]
  /\ behind \subseteq Staff
  /\ revived \in [Orders -> Nat]
  /\ struck \subseteq Cancels

LEMMA LifeTypeNext == LifeType /\ [Next]_vars => LifeType'
<1> SUFFICES ASSUME LifeType, [Next]_vars PROVE LifeType'
  OBVIOUS
<1> USE DEF LifeType, Stages, Goto, Processes, books, staff, marks
<1>1. ASSUME NEW c \in Cancels, ReadOrder(c) PROVE LifeType'
  BY <1>1 DEF ReadOrder
<1>2. ASSUME NEW c \in Cancels, Restore(c) PROVE LifeType'
  <2>1. OrderOf[c] \in Orders /\ "CANCELLED" \in OrderStatus
    BY ConstantsAssumption DEF OrderStatus
  <2>2. order' \in [Orders -> OrderStatus] /\ returned' \in [Orders -> Nat]
    BY <1>2, <2>1 DEF Restore
  <2>3. stage' \in [Processes -> Stages]
    BY <1>2 DEF Restore
  <2>4. QED
    BY <1>2, <2>2, <2>3 DEF Restore
<1>3. ASSUME NEW c \in Cancels, RestoreFails(c) PROVE LifeType'
  BY <1>3 DEF RestoreFails
<1>4. ASSUME NEW c \in Cancels, RefundOrder(c) \/ Stripe(c) PROVE LifeType'
  BY <1>4 DEF RefundOrder, Stripe
<1>5. ASSUME NEW p \in Staff, EditOrder(p) PROVE LifeType'
  <2> PICK o \in Orders, s \in OrderEdits :
        /\ order' = [order EXCEPT ![o] = s]
        /\ Revive(o, s)
        /\ struck' = IF s = "CANCELLED" THEN struck \cup Cancelling(o) ELSE struck
        /\ edit' = [edit EXCEPT ![p] = [order |-> o, status |-> Follows(s)]]
        /\ Goto(p, IF s \in {"PACKED", "DISPATCHED"} THEN "sync" ELSE "done")
    BY <1>5 DEF EditOrder
  <2>1. s \in OrderStatus
    BY ConstantsAssumption
  <2>2. Follows(s) \in ShipmentStatus
    BY DEF Follows, ShipmentStatus
  <2>3. revived' \in [Orders -> Nat]
    BY DEF Revive
  <2>4. struck' \subseteq Cancels
    BY DEF Cancelling
  <2>5. order' \in [Orders -> OrderStatus] /\ edit' \in [Staff -> [order : Orders, status : ShipmentStatus]]
    BY <2>1, <2>2
  <2>6. stage' \in [Processes -> Stages]
    OBVIOUS
  <2>7. QED
    BY <1>5, <2>3, <2>4, <2>5, <2>6 DEF EditOrder
<1>6. ASSUME NEW p \in Staff, SyncShipment(p) PROVE LifeType'
  BY <1>6 DEF SyncShipment
<1>7. ASSUME NEW p \in Staff, EditShipment(p) PROVE LifeType'
  BY <1>7 DEF EditShipment
<1>8. ASSUME NEW p \in Staff, Validate(p) \/ AnnotateShipment(p) PROVE LifeType'
  <2>1. CASE Validate(p)
    BY <2>1 DEF Validate
  <2>2. CASE AnnotateShipment(p)
    <3>1. PICK o \in Orders :
            shipment[o] # "NONE" /\ edit' = [edit EXCEPT ![p] = [order |-> o, status |-> shipment[o]]]
      BY <2>2 DEF AnnotateShipment
    <3>2. shipment[o] \in ShipmentStatus
      BY <3>1
    <3>3. edit' \in [Staff -> [order : Orders, status : ShipmentStatus]]
      BY <3>1, <3>2
    <3>4. stage' \in [Processes -> Stages]
      BY <2>2 DEF AnnotateShipment
    <3>5. QED
      BY <2>2, <3>3, <3>4 DEF AnnotateShipment
  <2>3. QED
    BY <1>8, <2>1, <2>2
<1>9. ASSUME NEW p \in Staff, Relay(p) PROVE LifeType'
  <2>1. OrderStatusOf(edit[p].status) \in OrderStatus
    BY DEF OrderStatusOf, OrderStatus, ShipmentStatus
  <2>2. revived' \in [Orders -> Nat]
    BY <1>9 DEF Relay, Revive
  <2>3. QED
    BY <1>9, <2>1, <2>2 DEF Relay
<1>10. ASSUME NEW p \in Staff, SaveShipment(p) PROVE LifeType'
  <2>1. behind' \subseteq Staff
    BY <1>10 DEF SaveShipment, Reading
  <2>2. stage' \in [Processes -> Stages] /\ shipment' \in [Orders -> ShipmentStatus \cup {"NONE"}]
    BY <1>10 DEF SaveShipment
  <2>3. QED
    BY <1>10, <2>1, <2>2 DEF SaveShipment
<1>11. ASSUME NEW p \in Processes, Crash(p) PROVE LifeType'
  BY <1>11 DEF Crash
<1>12. CASE UNCHANGED vars
  BY <1>12 DEF vars
<1>13. QED
  BY <1>1, <1>2, <1>3, <1>4, <1>5, <1>6, <1>7, <1>8, <1>9, <1>10, <1>11, <1>12 DEF Next

LEMMA LifeTypeAlways == Spec => []LifeType
<1>1. Init => LifeType
  BY DEF Init, LifeType, OrderStatus, ShipmentStatus, Stages
<1>2. QED
  BY <1>1, LifeTypeNext, PTL DEF Spec

(* Every variable keeps its type; the tables of refunds keep theirs        *)
(* because the cancellations use createRefund as it is.                    *)
THEOREM TypeCorrect == Spec => []TypeOK
<1>1. Spec => []Theory!TypeOK
  BY RefundsRun, Theory!TypeCorrect, RefundsAssumption, PTL
<1>2. LifeType /\ Theory!TypeOK => TypeOK
  BY DEF LifeType, TypeOK, Theory!TypeOK, Refunds!TypeOK,
         Theory!PaymentStatus, Refunds!PaymentStatus, Theory!RefundStatus, Refunds!RefundStatus,
         Theory!Running, Refunds!Running, Theory!Ended, Refunds!Ended
<1>3. QED
  BY <1>1, <1>2, LifeTypeAlways, PTL

(***************************************************************************)
(* Restocks.  An order that is not cancelled could be put back once more.  *)
(***************************************************************************)
RestocksCovered ==
  \A o \in Orders : returned[o] + (IF order[o] = "CANCELLED" THEN 0 ELSE 1) <= 1 + revived[o]

LEMMA RestocksNext == LifeType /\ RestocksCovered /\ [Next]_vars => RestocksCovered'
<1> SUFFICES ASSUME LifeType, RestocksCovered, [Next]_vars, NEW o \in Orders
             PROVE  returned'[o] + (IF order'[o] = "CANCELLED" THEN 0 ELSE 1) <= 1 + revived'[o]
  BY DEF RestocksCovered
<1> USE DEF LifeType, RestocksCovered
<1>1. CASE UNCHANGED <<order, returned, revived>>
  BY <1>1
<1>2. ASSUME NEW c \in Cancels, Restore(c)
      PROVE  returned'[o] + (IF order'[o] = "CANCELLED" THEN 0 ELSE 1) <= 1 + revived'[o]
  <2>1. revived' = revived
    BY <1>2 DEF Restore, marks
  <2>2. CASE o = OrderOf[c]
    BY <1>2, <2>1, <2>2 DEF Restore
  <2>3. CASE o # OrderOf[c]
    BY <1>2, <2>1, <2>3 DEF Restore
  <2>4. QED
    BY <2>2, <2>3
<1>3. ASSUME NEW x \in Orders, NEW s \in OrderStatus, Revive(x, s),
             order' = [order EXCEPT ![x] = s], returned' = returned
      PROVE  returned'[o] + (IF order'[o] = "CANCELLED" THEN 0 ELSE 1) <= 1 + revived'[o]
  <2>1. CASE o = x
    BY <1>3, <2>1 DEF Revive
  <2>2. CASE o # x
    BY <1>3, <2>2 DEF Revive
  <2>3. QED
    BY <2>1, <2>2
<1>4. ASSUME NEW p \in Staff, EditOrder(p)
      PROVE  returned'[o] + (IF order'[o] = "CANCELLED" THEN 0 ELSE 1) <= 1 + revived'[o]
  BY <1>3, <1>4, ConstantsAssumption DEF EditOrder
<1>5. ASSUME NEW p \in Staff, Relay(p)
      PROVE  returned'[o] + (IF order'[o] = "CANCELLED" THEN 0 ELSE 1) <= 1 + revived'[o]
  <2>1. edit[p].order \in Orders /\ OrderStatusOf(edit[p].status) \in OrderStatus
    BY DEF OrderStatusOf, OrderStatus, ShipmentStatus
  <2>2. QED
    BY <1>3, <1>5, <2>1 DEF Relay
<1>6. ASSUME NEW c \in Cancels,
             ReadOrder(c) \/ RestoreFails(c) \/ RefundOrder(c) \/ Stripe(c)
      PROVE  UNCHANGED <<order, returned, revived>>
  BY <1>6 DEF ReadOrder, RestoreFails, RefundOrder, Stripe, books, marks
<1>7. ASSUME NEW p \in Staff,
             \/ SyncShipment(p) \/ EditShipment(p) \/ AnnotateShipment(p)
             \/ Validate(p) \/ SaveShipment(p)
      PROVE  UNCHANGED <<order, returned, revived>>
  BY <1>7 DEF SyncShipment, EditShipment, AnnotateShipment, Validate, SaveShipment, books, marks
<1>8. ASSUME NEW p \in Processes, Crash(p) PROVE UNCHANGED <<order, returned, revived>>
  BY <1>8 DEF Crash, books, marks
<1>9. CASE UNCHANGED vars
  BY <1>1, <1>9 DEF vars, books, marks
<1>10. QED
  BY <1>1, <1>2, <1>4, <1>5, <1>6, <1>7, <1>8, <1>9 DEF Next

(* The units of an order go back once for its cancellation and once more   *)
(* for each status saved over it, whatever cancellations race for it.      *)
THEOREM RestocksAreCounted == Spec => []RestocksFollowRevivals
<1>1. Init => RestocksCovered
  BY DEF Init, RestocksCovered
<1>2. LifeType /\ RestocksCovered => RestocksFollowRevivals
  BY DEF LifeType, RestocksCovered, RestocksFollowRevivals
<1>3. QED
  BY <1>1, <1>2, LifeTypeAlways, RestocksNext, PTL DEF Spec

(***************************************************************************)
(* Shipments.  A call that is about to save either has a transition of the *)
(* shipment as it is, or saves it as it is, or is behind.                  *)
(***************************************************************************)
Validated ==
  \A p \in Staff :
    stage[p] \in {"relay", "save"} =>
      \/ edit[p].status \in Transitions(shipment[edit[p].order])
      \/ edit[p].status = shipment[edit[p].order]
      \/ p \in behind

LEMMA ValidatedNext == LifeType /\ Validated /\ [Next]_vars => Validated'
<1> SUFFICES ASSUME LifeType, Validated, [Next]_vars, NEW q \in Staff, stage'[q] \in {"relay", "save"}
             PROVE  \/ edit'[q].status \in Transitions(shipment'[edit'[q].order])
                    \/ edit'[q].status = shipment'[edit'[q].order]
                    \/ q \in behind'
  BY DEF Validated, Transitions
<1> USE DEF LifeType, Goto, Processes, books, staff, marks
<1>1. CASE /\ stage[q] \in {"relay", "save"} /\ edit'[q] = edit[q]
           /\ shipment' = shipment /\ behind' = behind
  BY <1>1 DEF Validated
<1>2. ASSUME NEW c \in Cancels, ReadOrder(c) \/ Restore(c) \/ RestoreFails(c) \/ RefundOrder(c) \/ Stripe(c)
      PROVE  /\ stage[q] \in {"relay", "save"} /\ edit'[q] = edit[q]
             /\ shipment' = shipment /\ behind' = behind
  <2>1. c # q
    BY ConstantsAssumption
  <2>2. QED
    BY <1>2, <2>1 DEF ReadOrder, Restore, RestoreFails, RefundOrder, Stripe
<1>3. ASSUME NEW p \in Staff, EditOrder(p) \/ SyncShipment(p) \/ EditShipment(p)
      PROVE  /\ stage[q] \in {"relay", "save"} /\ edit'[q] = edit[q]
             /\ shipment' = shipment /\ behind' = behind
  BY <1>3 DEF EditOrder, SyncShipment, EditShipment
<1>4. ASSUME NEW p \in Staff, Validate(p)
      PROVE  \/ edit'[q].status \in Transitions(shipment'[edit'[q].order])
             \/ edit'[q].status = shipment'[edit'[q].order]
             \/ q \in behind'
  <2>1. CASE p = q
    BY <1>4, <2>1 DEF Validate
  <2>2. CASE p # q
    BY <1>1, <1>4, <2>2 DEF Validate
  <2>3. QED
    BY <2>1, <2>2
<1>5. ASSUME NEW p \in Staff, AnnotateShipment(p)
      PROVE  \/ edit'[q].status \in Transitions(shipment'[edit'[q].order])
             \/ edit'[q].status = shipment'[edit'[q].order]
             \/ q \in behind'
  <2>1. CASE p = q
    BY <1>5, <2>1 DEF AnnotateShipment
  <2>2. CASE p # q
    BY <1>1, <1>5, <2>2 DEF AnnotateShipment
  <2>3. QED
    BY <2>1, <2>2
<1>6. ASSUME NEW p \in Staff, Relay(p)
      PROVE  /\ stage[q] \in {"relay", "save"} /\ edit'[q] = edit[q]
             /\ shipment' = shipment /\ behind' = behind
  BY <1>6 DEF Relay
<1>7. ASSUME NEW p \in Staff, SaveShipment(p)
      PROVE  \/ edit'[q].status \in Transitions(shipment'[edit'[q].order])
             \/ edit'[q].status = shipment'[edit'[q].order]
             \/ q \in behind'
  <2>1. q # p /\ stage[q] \in {"relay", "save"} /\ edit' = edit
    BY <1>7 DEF SaveShipment
  <2>2. CASE edit[q].order = edit[p].order
    BY <1>7, <2>1, <2>2 DEF SaveShipment, Reading
  <2>3. CASE edit[q].order # edit[p].order
    <3>1. shipment'[edit[q].order] = shipment[edit[q].order]
      BY <1>7, <2>3 DEF SaveShipment
    <3>2. q \in behind => q \in behind'
      BY <1>7, <2>1 DEF SaveShipment
    <3>3. QED
      BY <2>1, <3>1, <3>2 DEF Validated
  <2>4. QED
    BY <2>2, <2>3
<1>8. ASSUME NEW p \in Processes, Crash(p)
      PROVE  /\ stage[q] \in {"relay", "save"} /\ edit'[q] = edit[q]
             /\ shipment' = shipment /\ behind' = behind
  BY <1>8 DEF Crash
<1>9. CASE UNCHANGED vars
  BY <1>1, <1>9 DEF vars
<1>10. QED
  BY <1>1, <1>2, <1>3, <1>4, <1>5, <1>6, <1>7, <1>8, <1>9 DEF Next

(* A shipment takes the transitions of validTransitions only, unless the   *)
(* call that saves it read it before another one moved it.                 *)
THEOREM TransitionsBreakByRace == Spec => OnlyRacesBreakTransitions
<1> DEFINE Moves == \A o \in Orders :
      shipment'[o] # shipment[o] =>
        \/ shipment'[o] \in Transitions(shipment[o])
        \/ \E p \in behind :
             stage[p] = "save" /\ edit[p] = [order |-> o, status |-> shipment'[o]]
<1>1. ASSUME LifeType, Validated, [Next]_vars PROVE [Moves]_vars
  <2> SUFFICES ASSUME Next, NEW o \in Orders, shipment'[o] # shipment[o]
               PROVE  \/ shipment'[o] \in Transitions(shipment[o])
                      \/ \E p \in behind :
                           stage[p] = "save" /\ edit[p] = [order |-> o, status |-> shipment'[o]]
    BY <1>1 DEF vars
  <2>1. shipment' = shipment \/ \E p \in Staff : SaveShipment(p)
    BY DEF Next, ReadOrder, Restore, RestoreFails, RefundOrder, Stripe, EditOrder, SyncShipment,
       EditShipment, AnnotateShipment, Validate, Relay, Crash, books
  <2>2. PICK p \in Staff : SaveShipment(p)
    BY <2>1
  <2>3. /\ stage[p] = "save" /\ edit[p] \in [order : Orders, status : ShipmentStatus]
        /\ edit[p].order = o /\ edit[p].status = shipment'[o]
    BY <1>1, <2>2 DEF SaveShipment, LifeType
  <2>4. edit[p] = [order |-> o, status |-> shipment'[o]]
    BY <2>3
  <2>5. QED
    BY <1>1, <2>3, <2>4 DEF Validated
<1>2. Init => Validated
  BY DEF Init, Validated, Processes
<1>3. QED
  BY <1>1, <1>2, LifeTypeAlways, ValidatedNext, PTL DEF Spec, OnlyRacesBreakTransitions

(***************************************************************************)
(* Money and stock.  A call that is in createRefund has passed its         *)
(* transaction, and a row of a refund is about the whole amount.           *)
(***************************************************************************)
Underway == \A c \in Cancels : pc[c] # "idle" => stage[c] = "refund"

Met(o) == returned[o] > 0 \/ \E c \in struck : OrderOf[c] = o

RestoredFirst ==
  \A c \in Cancels :
    \/ stage[c] = "refund"
    \/ stage[c] = "tx" /\ order[OrderOf[c]] = "CANCELLED"
    => Met(OrderOf[c])

WholeRows == \A o \in Orders : refund[o].status # "NONE" => refund[o].amount = Amount[o]

LEMMA UnderwayNext ==
  LifeType /\ Theory!TypeOK /\ Underway /\ [Next]_vars => Underway'
<1> SUFFICES ASSUME LifeType, Theory!TypeOK, Underway, [Next]_vars,
                    NEW c \in Cancels, pc'[c] # "idle"
             PROVE  stage'[c] = "refund"
  BY DEF Underway
<1> USE DEF LifeType, Theory!TypeOK, Underway, Goto, Processes, books, staff, marks, money
<1>1. ASSUME NEW d \in Cancels, ReadOrder(d) \/ Restore(d) \/ RestoreFails(d)
      PROVE  stage'[c] = "refund"
  BY <1>1 DEF ReadOrder, Restore, RestoreFails
<1>2. ASSUME NEW d \in Cancels, RefundOrder(d) PROVE stage'[c] = "refund"
  <2>1. stage[d] = "refund" /\ stage' = stage
    BY <1>2 DEF RefundOrder
  <2>2. c = d \/ pc'[c] = pc[c]
    BY <1>2 DEF RefundOrder, Refunds!Check, Refunds!Proceed, Refunds!Reserve, Refunds!Send,
       Refunds!Answered, Refunds!CallFails, Refunds!MarkFailed, Refunds!Finalise, Refunds!Commit
  <2>3. QED
    BY <2>1, <2>2
<1>3. ASSUME NEW d \in Cancels, Stripe(d) PROVE stage'[c] = "refund"
  BY <1>3 DEF Stripe, Refunds!StripeAccepts, Refunds!StripeRejects
<1>4. ASSUME NEW p \in Staff,
             \/ EditOrder(p) \/ SyncShipment(p) \/ EditShipment(p) \/ AnnotateShipment(p)
             \/ Validate(p) \/ Relay(p) \/ SaveShipment(p)
      PROVE  stage'[c] = "refund"
  <2>1. p # c
    BY ConstantsAssumption
  <2>2. pc' = pc /\ stage'[c] = stage[c]
    BY <1>4, <2>1 DEF EditOrder, SyncShipment, EditShipment, AnnotateShipment, Validate, Relay, SaveShipment
  <2>3. QED
    BY <2>2
<1>5. ASSUME NEW p \in Processes, Crash(p) PROVE stage'[c] = "refund"
  BY <1>5 DEF Crash, Refunds!Crash, Refunds!Running
<1>6. CASE UNCHANGED vars
  BY <1>6 DEF vars
<1>7. QED
  BY <1>1, <1>2, <1>3, <1>4, <1>5, <1>6 DEF Next

LEMMA StruckGrows == [Next]_vars => struck \subseteq struck'
<1> SUFFICES ASSUME Next PROVE struck \subseteq struck'
  BY DEF vars, marks
<1>1. ASSUME NEW c \in Cancels,
             ReadOrder(c) \/ Restore(c) \/ RestoreFails(c) \/ RefundOrder(c) \/ Stripe(c)
      PROVE  struck' = struck
  BY <1>1 DEF ReadOrder, Restore, RestoreFails, RefundOrder, Stripe, marks
<1>2. ASSUME NEW p \in Staff, EditOrder(p) PROVE struck \subseteq struck'
  BY <1>2 DEF EditOrder
<1>3. ASSUME NEW p \in Staff,
             \/ SyncShipment(p) \/ EditShipment(p) \/ AnnotateShipment(p)
             \/ Validate(p) \/ Relay(p) \/ SaveShipment(p)
      PROVE  struck' = struck
  BY <1>3 DEF SyncShipment, EditShipment, AnnotateShipment, Validate, Relay, SaveShipment, marks
<1>4. ASSUME NEW p \in Processes, Crash(p) PROVE struck' = struck
  BY <1>4 DEF Crash, marks
<1>5. QED
  BY <1>1, <1>2, <1>3, <1>4 DEF Next

LEMMA RestoredNext == LifeType /\ RestoredFirst /\ [Next]_vars => RestoredFirst'
<1> SUFFICES ASSUME LifeType, RestoredFirst, [Next]_vars, NEW c \in Cancels,
                    \/ stage'[c] = "refund"
                    \/ stage'[c] = "tx" /\ order'[OrderOf[c]] = "CANCELLED"
             PROVE  Met(OrderOf[c])'
  BY DEF RestoredFirst
<1> USE DEF LifeType, Met, Goto, Processes, books, staff, marks
<1>0. OrderOf[c] \in Orders
  BY ConstantsAssumption
<1>1. CASE /\ stage[c] = stage'[c] /\ order'[OrderOf[c]] = order[OrderOf[c]]
           /\ returned' = returned /\ struck' = struck
  BY <1>1 DEF RestoredFirst
<1>2. ASSUME NEW d \in Cancels, ReadOrder(d) PROVE Met(OrderOf[c])'
  BY <1>1, <1>2 DEF ReadOrder
<1>3. ASSUME NEW d \in Cancels, Restore(d) PROVE Met(OrderOf[c])'
  <2>1. CASE order[OrderOf[d]] # "CANCELLED" /\ OrderOf[c] = OrderOf[d]
    BY <1>0, <1>3, <2>1 DEF Restore
  <2>2. CASE order[OrderOf[d]] # "CANCELLED" /\ OrderOf[c] # OrderOf[d]
    <3>1. stage'[c] = stage[c] /\ order'[OrderOf[c]] = order[OrderOf[c]]
      <4>1. c # d /\ stage'[c] = stage[c]
        BY <1>3, <2>2 DEF Restore
      <4>2. order' = [order EXCEPT ![OrderOf[d]] = "CANCELLED"]
        BY <1>3, <2>2 DEF Restore
      <4>3. QED
        BY <1>0, <2>2, <4>1, <4>2
    <3>2. returned'[OrderOf[c]] = returned[OrderOf[c]] /\ struck' = struck
      BY <1>0, <1>3, <2>2 DEF Restore
    <3>3. QED
      BY <3>1, <3>2 DEF RestoredFirst
  <2>3. CASE order[OrderOf[d]] = "CANCELLED"
    <3>1. returned' = returned /\ struck' = struck /\ order' = order
      BY <1>3, <2>3 DEF Restore
    <3>2. stage'[c] = stage[c] \/ (c = d /\ stage[c] = "tx")
      BY <1>3 DEF Restore
    <3>3. QED
      BY <2>3, <3>1, <3>2 DEF RestoredFirst
  <2>4. QED
    BY <2>1, <2>2, <2>3
<1>4. ASSUME NEW d \in Cancels, RestoreFails(d) \/ RefundOrder(d) \/ Stripe(d)
      PROVE  Met(OrderOf[c])'
  BY <1>1, <1>4 DEF RestoreFails, RefundOrder, Stripe
<1>5. ASSUME NEW p \in Staff, EditOrder(p) PROVE Met(OrderOf[c])'
  <2>1. PICK o \in Orders, s \in OrderEdits :
          /\ order' = [order EXCEPT ![o] = s]
          /\ struck' = IF s = "CANCELLED" THEN struck \cup Cancelling(o) ELSE struck
    BY <1>5 DEF EditOrder
  <2>2. stage'[c] = stage[c] /\ returned' = returned
    BY <1>5, ConstantsAssumption DEF EditOrder
  <2>3. CASE o = OrderOf[c] /\ stage[c] = "tx"
    BY <1>0, <2>1, <2>2, <2>3 DEF Cancelling
  <2>4. CASE stage[c] = "refund"
    BY <2>2, <2>4, StruckGrows DEF RestoredFirst
  <2>5. CASE o # OrderOf[c]
    <3>1. order'[OrderOf[c]] = order[OrderOf[c]]
      BY <2>1, <2>5
    <3>2. QED
      BY <2>2, <3>1, StruckGrows DEF RestoredFirst
  <2>6. QED
    BY <2>2, <2>3, <2>4, <2>5
<1>6. ASSUME NEW p \in Staff,
             \/ SyncShipment(p) \/ EditShipment(p) \/ AnnotateShipment(p)
             \/ Validate(p) \/ SaveShipment(p)
      PROVE  Met(OrderOf[c])'
  BY <1>1, <1>6, ConstantsAssumption
  DEF SyncShipment, EditShipment, AnnotateShipment, Validate, SaveShipment
<1>7. ASSUME NEW p \in Staff, Relay(p) PROVE Met(OrderOf[c])'
  <2>1. OrderStatusOf(edit[p].status) # "CANCELLED"
    BY DEF OrderStatusOf, ShipmentStatus
  <2>2. stage'[c] = stage[c] /\ returned' = returned /\ struck' = struck
    BY <1>7, ConstantsAssumption DEF Relay
  <2>3. order'[OrderOf[c]] = "CANCELLED" => order[OrderOf[c]] = "CANCELLED"
    BY <1>0, <1>7, <2>1 DEF Relay
  <2>4. QED
    BY <2>2, <2>3 DEF RestoredFirst
<1>8. ASSUME NEW p \in Processes, Crash(p) PROVE Met(OrderOf[c])'
  BY <1>1, <1>8 DEF Crash
<1>9. CASE UNCHANGED vars
  BY <1>1, <1>9 DEF vars
<1>10. QED
  BY <1>2, <1>3, <1>4, <1>5, <1>6, <1>7, <1>8, <1>9 DEF Next

LEMMA WholeRowsNext ==
  Theory!BackInv /\ WholeRows /\ [Next]_vars => WholeRows'
<1> SUFFICES ASSUME Theory!BackInv, WholeRows, [Theory!Next]_money PROVE WholeRows'
  BY RefundSteps
<1> USE DEF WholeRows, money
<1>1. refund \in [Orders -> [status : Theory!RefundStatus, payment : Orders, amount : Nat]]
  BY DEF Theory!BackInv, Theory!TypeOK
<1>2. \A c \in Cancels : OrderOf[c] \in Orders /\ Amount[OrderOf[c]] \in Nat \ {0}
  BY ConstantsAssumption
<1>3. \A c \in Cancels : pc[c] \in {"commit", "fail"} => refund[OrderOf[c]].status # "NONE"
  BY DEF Theory!BackInv, Theory!RequestsKeepTheirRow, Theory!Bound, Theory!Row
<1>4. ASSUME NEW c \in Cancels, Theory!Reserve(c) PROVE WholeRows'
  <2>1. Theory!RefundAmount(c) = Amount[OrderOf[c]]
    BY <1>2 DEF Theory!RefundAmount
  <2>2. QED
    BY <1>1, <1>2, <1>4, <2>1 DEF Theory!Reserve
<1>5. ASSUME NEW c \in Cancels, Theory!MarkFailed(c) \/ Theory!Commit(c) PROVE WholeRows'
  <2>1. \E s : refund' = [refund EXCEPT ![OrderOf[c]].status = s]
    BY <1>5 DEF Theory!MarkFailed, Theory!Commit
  <2>2. refund[OrderOf[c]].status # "NONE"
    BY <1>3, <1>5 DEF Theory!MarkFailed, Theory!Commit
  <2>3. \A o \in Orders : refund'[o].amount = refund[o].amount
    BY <1>1, <2>1
  <2>4. \A o \in Orders : o # OrderOf[c] => refund'[o] = refund[o]
    BY <1>1, <2>1
  <2>5. QED
    BY <2>2, <2>3, <2>4
<1>6. ASSUME NEW c \in Cancels,
             \/ Theory!Check(c) \/ Theory!Send(c) \/ Theory!Answered(c)
             \/ Theory!CallFails(c) \/ Theory!Finalise(c) \/ Theory!Crash(c)
             \/ Theory!StripeAccepts(c) \/ Theory!StripeRejects(c)
      PROVE  WholeRows'
  BY <1>6 DEF Theory!Check, Theory!Send, Theory!Answered, Theory!CallFails, Theory!Finalise,
     Theory!Crash, Theory!StripeAccepts, Theory!StripeRejects
<1>7. CASE Theory!AllEnded \/ UNCHANGED money
  BY <1>7 DEF Theory!AllEnded, Theory!vars
<1>8. QED
  BY <1>4, <1>5, <1>6, <1>7 DEF Theory!Next, Theory!Proceed

(* Where Stripe pays, and where a payment becomes REFUNDED.                *)
LEMMA StripePays ==
  ASSUME Theory!BackInv, Underway, [Next]_vars, NEW o \in Orders, stripe'[o] # stripe[o]
  PROVE  /\ stripe[o].amount = 0
         /\ payment' = payment /\ returned' = returned
         /\ \E c \in Cancels : OrderOf[c] = o /\ stage[c] = "refund"
<1>1. stripe \in [Orders -> [payment : Orders, amount : Nat]]
  BY DEF Theory!BackInv, Theory!TypeOK
<1>2. PICK c \in Cancels : Theory!StripeAccepts(c)
  BY RefundSteps DEF money, Theory!Next, Theory!Proceed, Theory!Check, Theory!Reserve,
     Theory!Send, Theory!Answered, Theory!CallFails, Theory!MarkFailed, Theory!Finalise,
     Theory!Commit, Theory!Crash, Theory!StripeRejects, Theory!AllEnded, Theory!vars
<1>3. OrderOf[c] = o /\ stripe[o].amount = 0 /\ wire[c] = "sent" /\ payment' = payment
  BY <1>1, <1>2 DEF Theory!StripeAccepts
<1>4. stage[c] = "refund"
  BY <1>3 DEF Underway, Theory!BackInv, Theory!SentOnce
<1>5. returned' = returned
  <2>1. UNCHANGED money \/ UNCHANGED books
    BY DEF Next, ReadOrder, Restore, RestoreFails, RefundOrder, Stripe, EditOrder, SyncShipment,
       EditShipment, AnnotateShipment, Validate, Relay, SaveShipment, Crash, vars
  <2>2. QED
    BY <2>1 DEF money, books
<1>6. QED
  BY <1>3, <1>4, <1>5

LEMMA PaymentCloses ==
  ASSUME Theory!BackInv, WholeRows, [Next]_vars, NEW o \in Orders,
         payment'[o] = "REFUNDED", payment[o] # "REFUNDED"
  PROVE  stripe' = stripe /\ stripe[o].amount = Amount[o]
<1>1. payment \in [Orders -> Theory!PaymentStatus]
  BY DEF Theory!BackInv, Theory!TypeOK
<1>2. PICK c \in Cancels : Theory!Commit(c)
  BY RefundSteps DEF money, Theory!Next, Theory!Proceed, Theory!Check, Theory!Reserve,
     Theory!Send, Theory!Answered, Theory!CallFails, Theory!MarkFailed, Theory!Finalise,
     Theory!StripeAccepts, Theory!Crash, Theory!StripeRejects, Theory!AllEnded, Theory!vars
<1>3. OrderOf[c] = o /\ pc[c] = "commit" /\ stripe' = stripe
  BY <1>1, <1>2 DEF Theory!Commit
<1>4. stripe[o].amount = held[c]
  <2>1. stripe[o] = [payment |-> o, amount |-> held[c]]
    BY <1>3 DEF Theory!BackInv, Theory!AnswersAreTrue
  <2>2. QED
    BY <2>1
<1>5. refund[o].status # "NONE" /\ refund[o].amount = held[c]
  BY <1>3 DEF Theory!BackInv, Theory!RequestsKeepTheirRow, Theory!Bound, Theory!Row
<1>6. QED
  BY <1>3, <1>4, <1>5 DEF WholeRows

LEMMA RefundedNext ==
  Theory!BackInv /\ Underway /\ WholeRows /\ RefundedInFull /\ [Next]_vars => RefundedInFull'
<1> SUFFICES ASSUME Theory!BackInv, Underway, WholeRows, RefundedInFull, [Next]_vars,
                    NEW o \in Orders, payment'[o] = "REFUNDED"
             PROVE  stripe'[o].amount = Amount[o]
  BY DEF RefundedInFull
<1>1. CASE payment[o] = "REFUNDED"
  <2>1. stripe[o].amount = Amount[o] /\ Amount[o] # 0
    BY <1>1, ConstantsAssumption DEF RefundedInFull
  <2>2. QED
    BY <2>1, StripePays
<1>2. CASE payment[o] # "REFUNDED"
  BY <1>2, PaymentCloses
<1>3. QED
  BY <1>1, <1>2

LEMMA RestockedNext ==
  LifeType /\ Theory!BackInv /\ Underway /\ RestoredFirst /\ RefundFollowsRestock /\ [Next]_vars
    => RefundFollowsRestock'
<1> SUFFICES ASSUME LifeType, Theory!BackInv, Underway, RestoredFirst, RefundFollowsRestock,
                    [Next]_vars, NEW o \in Orders, stripe'[o].amount > 0
             PROVE  returned'[o] > 0 \/ \E c \in struck' : OrderOf[c] = o
  BY DEF RefundFollowsRestock
<1>0. struck \subseteq struck'
  BY StruckGrows
<1>1. returned'[o] = returned[o] \/ returned'[o] = returned[o] + 1
  <2>1. returned' = returned \/ \E c \in Cancels : Restore(c)
    BY DEF Next, ReadOrder, RestoreFails, RefundOrder, Stripe, EditOrder, SyncShipment,
       EditShipment, AnnotateShipment, Validate, Relay, SaveShipment, Crash, vars, books
  <2>2. ASSUME NEW c \in Cancels, Restore(c)
        PROVE  returned'[o] = returned[o] \/ returned'[o] = returned[o] + 1
    BY <2>2 DEF Restore, LifeType
  <2>3. QED
    BY <2>1, <2>2
<1>2. returned[o] \in Nat
  BY DEF LifeType
<1>3. CASE stripe'[o] = stripe[o]
  BY <1>0, <1>1, <1>2, <1>3 DEF RefundFollowsRestock
<1>4. CASE stripe'[o] # stripe[o]
  BY <1>0, <1>1, <1>2, <1>4, StripePays DEF RestoredFirst, Met
<1>5. QED
  BY <1>3, <1>4

WholeInv == LifeType /\ Underway /\ WholeRows /\ RefundedInFull

StockInv == RestoredFirst /\ RefundFollowsRestock

LEMMA OrderInit == Init => WholeInv /\ StockInv
<1> SUFFICES ASSUME Init PROVE WholeInv /\ StockInv
  OBVIOUS
<1>1. LifeType
  BY DEF Init, LifeType, OrderStatus, ShipmentStatus, Stages
<1>2. Underway
  BY DEF Init, Refunds!Init, Underway
<1>3. RestoredFirst
  BY DEF Init, RestoredFirst, Processes
<1>4. WholeRows /\ RefundFollowsRestock /\ RefundedInFull
  BY DEF Init, Refunds!Init, WholeRows, RefundFollowsRestock, RefundedInFull
<1>5. QED
  BY <1>1, <1>2, <1>3, <1>4 DEF WholeInv, StockInv

LEMMA BackAlways == Spec => []Theory!BackInv
  BY RefundsRun, Theory!BackAlways, RefundsAssumption, PTL

LEMMA WholeAlways == Spec => []WholeInv
<1>1. Theory!BackInv /\ WholeInv /\ [Next]_vars => WholeInv'
  BY LifeTypeNext, UnderwayNext, WholeRowsNext, RefundedNext DEF WholeInv, Theory!BackInv
<1>2. QED
  BY <1>1, BackAlways, OrderInit, PTL DEF Spec

(* A payment that says REFUNDED was paid back whole, however many          *)
(* cancellations share the key of the order.                               *)
THEOREM CancelledIsRefundedWhole == Spec => []RefundedInFull
<1>1. WholeInv => RefundedInFull
  BY DEF WholeInv
<1>2. QED
  BY <1>1, WholeAlways, PTL

(* No money goes back before the stock, unless updateStatus cancelled the  *)
(* order while a cancellation was between its read and its transaction.    *)
THEOREM MoneyFollowsStock == Spec => []RefundFollowsRestock
<1>1. Theory!BackInv /\ WholeInv /\ StockInv /\ [Next]_vars => StockInv'
  BY RestoredNext, RestockedNext DEF WholeInv, StockInv
<1>2. StockInv => RefundFollowsRestock
  BY DEF StockInv
<1>3. QED
  BY <1>1, <1>2, BackAlways, WholeAlways, OrderInit, PTL DEF Spec
=============================================================================
