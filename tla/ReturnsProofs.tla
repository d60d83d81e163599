---------------------------- MODULE ReturnsProofs ----------------------------
(***************************************************************************)
(* Safety of returns, for any number of orders, requests and calls.  The   *)
(* refunds run createRefund as module Refunds says, so what is proved of   *)
(* Refunds holds here as well: each call has a key of its own.             *)
(***************************************************************************)
EXTENDS Returns, FiniteSetTheorems, TLAPS

Theory ==
  INSTANCE RefundsProofs WITH
    Payments <- Orders, Keys <- Calls, Requests <- Calls, Price <- Amount,
    WithIntent <- Paid, Charged <- Paid, KeyOf <- [c \in Calls |-> c],
    PaymentOf <- [c \in Calls |-> OrderOf[ReturnOf[c]]]

(* The assumption of Refunds on its constants holds for the refunds of     *)
(* returns.                                                                *)
LEMMA RefundsAssumption ==
  /\ Theory!IsFiniteSet(Calls)
  /\ Amount \in [Orders -> Nat \ {0}]
  /\ Paid \subseteq Orders
  /\ Paid \subseteq Paid
  /\ [c \in Calls |-> c] \in [Calls -> Calls]
  /\ [c \in Calls |-> OrderOf[ReturnOf[c]]] \in [Calls -> Orders]
  /\ AskOf \in [Calls -> Nat]
<1>1. Theory!IsFiniteSet(Calls)
  BY ConstantsAssumption DEF IsFiniteSet, Theory!IsFiniteSet
<1>2. AskOf \in [Calls -> Nat]
  BY ConstantsAssumption
<1>3. QED
  BY <1>1, <1>2, ConstantsAssumption

(* The module and its theory instantiate the same sums, tests and actions. *)
LEMMA SameSums == \A S, f : Refunds!Total(S, f) = Theory!Total(S, f)
<1>1. \A S : Refunds!IsFiniteSet(S) = Theory!IsFiniteSet(S)
  BY DEF Refunds!IsFiniteSet, Theory!IsFiniteSet
<1>2. \A S : Refunds!Cardinality(S) = Theory!Cardinality(S)
  BY <1>1 DEF Refunds!Cardinality, Theory!Cardinality
<1>3. \A S, f : Refunds!Cents(S, f) = Theory!Cents(S, f)
  BY DEF Refunds!Cents, Theory!Cents
<1>4. QED
  BY <1>2, <1>3 DEF Refunds!Total, Theory!Total

LEMMA SameTotals ==
  /\ \A o : Refunds!Reserved(o) = Theory!Reserved(o)
  /\ \A o : Refunds!Completed(o) = Theory!Completed(o)
  /\ \A o : Refunds!StripeTotal(o) = Theory!StripeTotal(o)
  /\ \A c : Refunds!CompletedSeen(c) = Theory!CompletedSeen(c)
<1>1. \A o, X : Refunds!Rows(o, X) = Theory!Rows(o, X)
  BY DEF Refunds!Rows, Theory!Rows
<1>2. Refunds!RowAmounts = Theory!RowAmounts /\ Refunds!StripeAmounts = Theory!StripeAmounts
  BY DEF Refunds!RowAmounts, Theory!RowAmounts, Refunds!StripeAmounts, Theory!StripeAmounts
<1>3. \A o : Refunds!PaidBack(o) = Theory!PaidBack(o)
  BY DEF Refunds!PaidBack, Theory!PaidBack
<1>4. QED
  BY <1>1, <1>2, <1>3, SameSums
  DEF Refunds!Reserved, Theory!Reserved, Refunds!Completed, Theory!Completed,
      Refunds!StripeTotal, Theory!StripeTotal, Refunds!CompletedSeen, Theory!CompletedSeen

LEMMA SameTests ==
  /\ \A c : Refunds!Admissible(c) = Theory!Admissible(c)
  /\ \A c : Refunds!RefundAmount(c) = Theory!RefundAmount(c)
  /\ \A c : Refunds!Row(c) = Theory!Row(c)
  /\ \A c : Refunds!Conflict(c) = Theory!Conflict(c)
  /\ \A c : Refunds!RowLocked(c) = Theory!RowLocked(c)
  /\ \A c : Refunds!NewStatus(c) = Theory!NewStatus(c)
<1>1. \A o : Refunds!Remaining(o) = Theory!Remaining(o)
  BY SameTotals DEF Refunds!Remaining, Theory!Remaining
<1>2. \A c : Refunds!RefundAmount(c) = Theory!RefundAmount(c)
  BY <1>1 DEF Refunds!RefundAmount, Theory!RefundAmount
<1>3. \A c : Refunds!Row(c) = Theory!Row(c)
  BY DEF Refunds!Row, Theory!Row
<1>4. \A c : Refunds!Admissible(c) = Theory!Admissible(c)
  BY <1>1, <1>2 DEF Refunds!Admissible, Theory!Admissible
<1>5. \A c : Refunds!Conflict(c) = Theory!Conflict(c)
  BY <1>3 DEF Refunds!Conflict, Theory!Conflict
<1>6. \A c : Refunds!RowLocked(c) = Theory!RowLocked(c)
  BY DEF Refunds!RowLocked, Theory!RowLocked, Refunds!SameKey, Theory!SameKey
<1>7. \A c : Refunds!NewStatus(c) = Theory!NewStatus(c)
  BY SameTotals DEF Refunds!NewStatus, Theory!NewStatus
<1>8. QED
  BY <1>2, <1>3, <1>4, <1>5, <1>6, <1>7

LEMMA SameActions ==
  ASSUME NEW c \in Calls
  PROVE  /\ Refunds!Check(c) => Theory!Check(c)
         /\ Refunds!Proceed(c) => Theory!Proceed(c)
         /\ Refunds!StripeAccepts(c) => Theory!StripeAccepts(c)
         /\ Refunds!StripeRejects(c) => Theory!StripeRejects(c)
         /\ Refunds!Crash(c) => Theory!Crash(c)
<1>1. Refunds!Check(c) => Theory!Check(c)
  <2>1. Refunds!SharedBy(c) = Theory!SharedBy(c)
    BY DEF Refunds!SharedBy, Theory!SharedBy, Refunds!SameKey, Theory!SameKey,
           Refunds!Running, Theory!Running
  <2>2. QED
    BY <2>1, SameTests DEF Refunds!Check, Theory!Check
<1>2. Refunds!Reserve(c) => Theory!Reserve(c)
  BY SameTests DEF Refunds!Reserve, Theory!Reserve
<1>3. /\ Refunds!Send(c) => Theory!Send(c)
      /\ Refunds!Answered(c) => Theory!Answered(c)
      /\ Refunds!CallFails(c) => Theory!CallFails(c)
  BY DEF Refunds!Send, Theory!Send, Refunds!Answered, Theory!Answered,
         Refunds!CallFails, Theory!CallFails
<1>4. Refunds!MarkFailed(c) => Theory!MarkFailed(c)
  BY SameTests DEF Refunds!MarkFailed, Theory!MarkFailed
<1>5. Refunds!Finalise(c) => Theory!Finalise(c)
  BY SameTests DEF Refunds!Finalise, Theory!Finalise
<1>6. Refunds!Commit(c) => Theory!Commit(c)
  BY DEF Refunds!Commit, Theory!Commit
<1>7. Refunds!Proceed(c) => Theory!Proceed(c)
  BY <1>2, <1>3, <1>4, <1>5, <1>6 DEF Refunds!Proceed, Theory!Proceed
<1>8. Refunds!StripeAccepts(c) => Theory!StripeAccepts(c)
  BY SameTotals DEF Refunds!StripeAccepts, Theory!StripeAccepts
<1>9. Refunds!StripeRejects(c) => Theory!StripeRejects(c)
  BY DEF Refunds!StripeRejects, Theory!StripeRejects
<1>10. Refunds!Crash(c) => Theory!Crash(c)
  BY DEF Refunds!Crash, Theory!Crash, Refunds!Running, Theory!Running
<1>11. QED
  BY <1>1, <1>7, <1>8, <1>9, <1>10

(* The refunds take the steps of Refunds only.                             *)
LEMMA RefundSteps == [Next]_vars => [Theory!Next]_money
<1> SUFFICES ASSUME Next PROVE [Theory!Next]_money
  BY DEF vars
<1>1. ASSUME NEW c \in Calls, Pay(c) \/ Stripe(c) PROVE Theory!Next
  BY <1>1, SameActions DEF Pay, Stripe, Theory!Next
<1>2. ASSUME NEW p \in Processes, Crash(p) PROVE Theory!Next \/ UNCHANGED money
  BY <1>2, SameActions DEF Crash, Theory!Next
<1>3. ASSUME NEW r \in Returns, Check(r) \/ Insert(r) PROVE UNCHANGED money
  BY <1>3 DEF Check, Insert
<1>4. ASSUME NEW c \in Calls,
             Load(c) \/ SaveItems(c) \/ PayEnds(c) \/ Save(c) \/ Restock(c) \/ Ship(c)
      PROVE  UNCHANGED money
  BY <1>4 DEF Load, SaveItems, PayEnds, Save, Restock, Ship
<1>5. QED
  BY <1>1, <1>2, <1>3, <1>4 DEF Next

LEMMA RefundsRun == Spec => Theory!Spec
<1>1. Init => Theory!Init
  BY DEF Init, Refunds!Init, Theory!Init
<1>2. [Next]_vars => [Theory!Next]_Theory!vars
  BY RefundSteps DEF money, Theory!vars
<1>3. QED
  BY <1>1, <1>2, PTL DEF Spec, Theory!Spec

LEMMA RefundsHold == Spec => []Theory!BackInv
BY RefundsRun, Theory!BackAlways, RefundsAssumption, PTL

(***************************************************************************)
(* The calls and the tables of returns.                                    *)
(***************************************************************************)
ReturnsType ==
  /\ request \in [Returns -> ReturnRequest \cup {Absent}]
  /\ shipped \subseteq Returns
  /\ restocked \in [Items -> Nat]
  /\ logged \subseteq Calls
  /\ stage \in [Processes -> Stages]
  /\ job \in [Calls -> Jobs]
  /\ copy \in [Calls -> ReturnRequest \cup {Absent}]
  /\ raced \subseteq Processes

(* A call that has loaded a return, and will save it.                      *)
Working == {"items", "pay", "save"}

(* What a call that is under way has checked: the return exists, was in a  *)
(* status its handler accepts, and is still as it was loaded unless        *)
(* another call has written it since.                                      *)
Loading(c) ==
  stage[c] \in Working =>
    /\ Exists(ReturnOf[c])
    /\ copy[c] \in ReturnRequest
    /\ copy[c].status \in From(job[c])
    /\ c \in raced \/ copy[c] = request[ReturnOf[c]]

(* Which handlers get where.                                               *)
Role(c) ==
  /\ stage[c] # "insert"
  /\ stage[c] = "items" => job[c] \in {"verifyItems", "processRefund"}
  /\ stage[c] \in {"pay", "restock"} => job[c] = "processRefund"
  /\ stage[c] = "save" => job[c] # "verifyItems"

(* A call of create that nobody overtook still finds no other return.      *)
Creating(r) ==
  /\ stage[r] \in {"idle", "insert"} => ~Exists(r)
  /\ stage[r] = "insert" => r \in raced \/ \A s \in Siblings(r) : ~Exists(s)
  /\ stage[r] \in {"idle", "insert", "done"}

HandlerInv ==
  /\ ReturnsType
  /\ \A c \in Calls : Loading(c) /\ Role(c)
  /\ \A r \in Returns : Creating(r)

LEMMA Sorts ==
  /\ Returns \subseteq Processes /\ Calls \subseteq Processes
  /\ \A r \in Returns : r \notin Calls
  /\ \A c \in Calls : ReturnOf[c] \in Returns /\ AskOf[c] \in Nat \ {0}
  /\ Absent \notin ReturnRequest
BY ConstantsAssumption DEF Processes

LEMMA SavedType ==
  ASSUME HandlerInv, NEW c \in Calls, stage[c] = "save"
  PROVE  Saved(c) \in ReturnRequest
<1>1. copy[c] \in ReturnRequest /\ request[ReturnOf[c]] \in ReturnRequest /\ job[c] \in Jobs
  BY Sorts DEF HandlerInv, ReturnsType, Loading, Working, Exists
<1>2. Becomes(job[c]) \in ReturnRequestStatus
  <2>1. job[c] # "verifyItems"
    BY DEF HandlerInv, Role
  <2>2. QED
    BY <1>1, <2>1 DEF Becomes, Jobs, ReturnRequestStatus
<1>3. \A t \in Nat, d \in BOOLEAN :
        [status |-> Becomes(job[c]), total |-> t, damaged |-> d] \in ReturnRequest
  BY <1>2 DEF ReturnRequest
<1>4. /\ copy[c].total \in Nat /\ copy[c].damaged \in BOOLEAN
      /\ request[ReturnOf[c]].damaged \in BOOLEAN /\ AskOf[c] \in Nat
  BY <1>1, Sorts DEF ReturnRequest
<1>5. QED
  BY <1>3, <1>4 DEF Saved

(* What is written to the request, row by row.                             *)
Writes(p) ==
  \/ UNCHANGED request
  \/ p \in Returns /\ Insert(p)
  \/ /\ p \in Calls /\ stage[p] \in Working
     /\ \E row \in ReturnRequest : request' = [request EXCEPT ![ReturnOf[p]] = row]
     /\ raced' = raced \cup Loaded(p)

Act(p) ==
  \/ p \in Returns /\ (Check(p) \/ Insert(p))
  \/ /\ p \in Calls
     /\ Load(p) \/ SaveItems(p) \/ Pay(p) \/ Stripe(p) \/ PayEnds(p)
        \/ Save(p) \/ Restock(p) \/ Ship(p)
  \/ Crash(p)

LEMMA Acts == ASSUME Next PROVE \E p \in Processes : Act(p)
BY DEF Next, Act, Processes

(* Saving the items leaves the request as it is but for the damage.        *)
LEMMA ItemsSaved ==
  ASSUME HandlerInv, NEW c \in Calls, SaveItems(c)
  PROVE  \/ request' = request /\ raced' = raced /\ job[c] = "processRefund"
         \/ /\ \E d \in BOOLEAN :
                 request' = [request EXCEPT ![ReturnOf[c]] = [@ EXCEPT !.damaged = d]]
            /\ raced' = raced \cup Loaded(c)
            /\ job[c] = "verifyItems" \/ (job[c] = "processRefund" /\ c \in raced)
<1> DEFINE r == ReturnOf[c]
<1>1. r \in Returns /\ copy[c].damaged \in BOOLEAN /\ stage[c] = "items"
  BY Sorts DEF SaveItems, HandlerInv, Loading, Working, ReturnRequest
<1>2. CASE job[c] = "verifyItems"
  <2>1. PICK d \in BOOLEAN : request' = [request EXCEPT ![r].damaged = d]
    BY <1>2 DEF SaveItems
  <2>2. QED
    BY <1>2, <2>1 DEF SaveItems
<1>3. CASE job[c] = "processRefund" /\ request' # request
  <2>1. c \in raced /\ request' = [request EXCEPT ![r].damaged = copy[c].damaged]
    BY <1>3 DEF SaveItems
  <2>2. raced' = raced \cup Loaded(c)
    BY <1>3 DEF SaveItems
  <2>3. QED
    BY <1>1, <1>3, <2>1, <2>2
<1>4. CASE job[c] = "processRefund" /\ request' = request
  BY <1>4 DEF SaveItems
<1>5. QED
  BY <1>2, <1>3, <1>4 DEF SaveItems

LEMMA Writing ==
  ASSUME HandlerInv, NEW p \in Processes, Act(p)
  PROVE  Writes(p)
<1> USE DEF Writes
<1>1. CASE p \in Calls /\ SaveItems(p)
  <2>1. stage[p] \in Working /\ request[ReturnOf[p]] \in ReturnRequest
    BY <1>1, Sorts DEF SaveItems, HandlerInv, Loading, Working, Exists, ReturnsType
  <2>2. \A d \in BOOLEAN : [request[ReturnOf[p]] EXCEPT !.damaged = d] \in ReturnRequest
    BY <2>1 DEF ReturnRequest
  <2>3. QED
    BY <1>1, <2>1, <2>2, ItemsSaved
<1>2. CASE p \in Calls /\ Save(p)
  BY <1>2, SavedType DEF Save, Working
<1>3. QED
  BY <1>1, <1>2 DEF Act, Check, Load, Pay, Stripe, PayEnds, Restock, Ship, Crash, tables

LEMMA ReturnsTypeNext ==
  ASSUME HandlerInv, NEW p \in Processes, Act(p)
  PROVE  ReturnsType'
<1> USE DEF HandlerInv, ReturnsType, Goto
<1>1. request' \in [Returns -> ReturnRequest \cup {Absent}]
  <2>1. CASE p \in Returns /\ Insert(p)
    <3>1. [status |-> "REQUESTED", total |-> 0, damaged |-> FALSE] \in ReturnRequest
      BY DEF ReturnRequest, ReturnRequestStatus
    <3>2. QED
      BY <2>1, <3>1 DEF Insert
  <2>2. QED
    BY <2>1, Writing DEF Writes
<1>2. CASE p \in Returns /\ (Check(p) \/ Insert(p))
  BY <1>1, <1>2, Sorts DEF Check, Insert, tables, Siblings, Stages
<1>3. CASE p \in Calls /\ Load(p)
  <2>1. ReturnOf[p] \in Returns /\ request[ReturnOf[p]] \in ReturnRequest
    BY <1>3, Sorts DEF Load, Exists
  <2>2. copy' \in [Calls -> ReturnRequest \cup {Absent}] /\ stage' \in [Processes -> Stages]
    BY <1>3, <2>1 DEF Load, First, Stages
  <2>3. QED
    BY <1>3, <2>2 DEF Load, tables
<1>4. CASE p \in Calls /\ SaveItems(p)
  <2>1. raced' \subseteq Processes /\ stage' \in [Processes -> Stages]
    BY <1>4, Sorts DEF SaveItems, Loaded, Stages
  <2>2. QED
    BY <1>1, <1>4, <2>1 DEF SaveItems
<1>5. CASE p \in Calls /\ (Pay(p) \/ Stripe(p))
  BY <1>5 DEF Pay, Stripe, tables, calls
<1>6. CASE p \in Calls /\ PayEnds(p)
  BY <1>6 DEF PayEnds, Stages
<1>7. CASE p \in Calls /\ Save(p)
  <2>1. raced' \subseteq Processes /\ stage' \in [Processes -> Stages]
    BY <1>7, Sorts DEF Save, Loaded, Stages
  <2>2. QED
    BY <1>1, <1>7, <2>1 DEF Save
<1>8. CASE p \in Calls /\ (Restock(p) \/ Ship(p))
  <2>1. CASE Restock(p)
    <3>1. restocked' \in [Items -> Nat] /\ stage' \in [Processes -> Stages]
      BY <2>1 DEF Restock, Stages
    <3>2. QED
      BY <2>1, <3>1 DEF Restock
  <2>2. CASE Ship(p)
    BY <1>8, <2>2, Sorts DEF Ship, Stages
  <2>3. QED
    BY <1>8, <2>1, <2>2
<1>9. CASE Crash(p)
  BY <1>9 DEF Crash, tables, Stages
<1>10. QED
  BY <1>2, <1>3, <1>4, <1>5, <1>6, <1>7, <1>8, <1>9 DEF Act

(* A step moves one call.                                                  *)
LEMMA Local ==
  ASSUME ReturnsType, NEW p \in Processes, Act(p)
  PROVE  /\ \A q \in Processes \ {p} : stage'[q] = stage[q]
         /\ \A c \in Calls \ {p} : copy'[c] = copy[c]
         /\ job' = job
         /\ raced \subseteq raced'
<1> USE DEF ReturnsType, Goto
<1>1. CASE p \in Returns /\ (Check(p) \/ Insert(p))
  BY <1>1 DEF Check, Insert
<1>2. CASE p \in Calls /\ (Load(p) \/ SaveItems(p))
  BY <1>2 DEF Load, SaveItems
<1>3. CASE p \in Calls /\ (Pay(p) \/ Stripe(p) \/ PayEnds(p))
  BY <1>3 DEF Pay, Stripe, PayEnds, calls
<1>4. CASE p \in Calls /\ (Save(p) \/ Restock(p) \/ Ship(p))
  BY <1>4 DEF Save, Restock, Ship
<1>5. CASE Crash(p)
  BY <1>5 DEF Crash
<1>6. QED
  BY <1>1, <1>2, <1>3, <1>4, <1>5 DEF Act

LEMMA Stay ==
  ASSUME HandlerInv, NEW p \in Processes, Act(p)
  PROVE  \A r \in Returns : Exists(r) => Exists(r)'
<1>1. [status |-> "REQUESTED", total |-> 0, damaged |-> FALSE] \in ReturnRequest
  BY DEF ReturnRequest, ReturnRequestStatus
<1>2. CASE UNCHANGED request
  BY <1>2 DEF Exists
<1>3. CASE p \in Returns /\ Insert(p)
  BY <1>1, <1>3, Sorts DEF Insert, Exists, HandlerInv, ReturnsType
<1>4. CASE p \in Calls /\ \E row \in ReturnRequest : request' = [request EXCEPT ![ReturnOf[p]] = row]
  BY <1>4, Sorts DEF Exists, HandlerInv, ReturnsType
<1>5. QED
  BY <1>2, <1>3, <1>4, Writing DEF Writes

LEMMA RoleNext ==
  ASSUME HandlerInv, NEW p \in Processes, Act(p), NEW c \in Calls
  PROVE  Role(c)'
<1> USE DEF HandlerInv, ReturnsType, Goto
<1>0. Role(c) /\ c \in Processes /\ job' = job
  BY Local, Sorts
<1>1. CASE c # p
  BY <1>0, <1>1, Local DEF Role
<1>2. CASE c = p
  <2>1. CASE Load(p)
    BY <1>0, <1>2, <2>1 DEF Load, First, Role
  <2>2. CASE SaveItems(p)
    BY <1>0, <1>2, <2>2 DEF SaveItems, Role
  <2>3. CASE Pay(p) \/ Stripe(p)
    BY <1>0, <1>2, <2>3 DEF Pay, Stripe, calls, Role
  <2>4. CASE PayEnds(p)
    BY <1>0, <1>2, <2>4 DEF PayEnds, Role
  <2>5. CASE Save(p) \/ Restock(p) \/ Ship(p)
    BY <1>0, <1>2, <2>5 DEF Save, Restock, Ship, Role
  <2>6. CASE Crash(p)
    BY <1>0, <1>2, <2>6 DEF Crash, Role
  <2>7. QED
    BY <1>2, <2>1, <2>2, <2>3, <2>4, <2>5, <2>6, Sorts DEF Act
<1>3. QED
  BY <1>1, <1>2

LEMMA LoadingNext ==
  ASSUME HandlerInv, NEW p \in Processes, Act(p), NEW c \in Calls
  PROVE  Loading(c)'
<1> USE DEF HandlerInv, ReturnsType, Goto
<1>0. Loading(c) /\ Role(c) /\ c \in Processes /\ ReturnOf[c] \in Returns /\ job' = job
  BY Local, Sorts
<1>1. CASE c # p
  <2>1. stage'[c] = stage[c] /\ copy'[c] = copy[c]
    BY <1>0, <1>1, Local
  <2>2. CASE stage[c] \in Working /\ c \notin raced'
    <3>1. c \notin raced /\ copy[c] = request[ReturnOf[c]] /\ Exists(ReturnOf[c])
      BY <1>0, <2>2, Local DEF Loading
    <3>2. CASE p \in Returns /\ Insert(p)
      <4>1. ~Exists(p)
        BY <3>2 DEF Insert, Creating
      <4>2. request'[ReturnOf[c]] = request[ReturnOf[c]]
        BY <1>0, <3>1, <3>2, <4>1 DEF Insert
      <4>3. QED
        BY <1>0, <2>1, <2>2, <3>1, <4>2 DEF Loading, From, Exists
    <3>3. CASE /\ p \in Calls /\ stage[p] \in Working
               /\ \E row \in ReturnRequest : request' = [request EXCEPT ![ReturnOf[p]] = row]
               /\ raced' = raced \cup Loaded(p)
      <4>1. ReturnOf[c] # ReturnOf[p]
        BY <1>1, <2>2, <3>3 DEF Loaded, Working
      <4>2. request'[ReturnOf[c]] = request[ReturnOf[c]]
        BY <1>0, <3>3, <4>1
      <4>3. QED
        BY <1>0, <2>1, <2>2, <3>1, <4>2 DEF Loading, From, Exists
    <3>4. CASE UNCHANGED request
      BY <1>0, <2>1, <2>2, <3>1, <3>4 DEF Loading, From, Exists
    <3>5. QED
      BY <3>2, <3>3, <3>4, Writing DEF Writes
  <2>3. CASE stage[c] \in Working /\ c \in raced'
    BY <1>0, <2>1, <2>3, Stay DEF Loading, From
  <2>4. QED
    BY <2>1, <2>2, <2>3 DEF Loading
<1>2. CASE c = p
  <2>1. CASE Load(p)
    <3>1. stage'[p] \in Working =>
            /\ request[ReturnOf[p]].status \in From(job[p])
            /\ copy'[p] = request[ReturnOf[p]]
            /\ Exists(ReturnOf[p]) /\ request' = request
      BY <1>0, <1>2, <2>1 DEF Load, Working, tables
    <3>2. Exists(ReturnOf[p]) => request[ReturnOf[p]] \in ReturnRequest
      BY <1>0, <1>2 DEF Exists
    <3>3. QED
      BY <1>0, <1>2, <3>1, <3>2 DEF Loading, From, Exists
  <2>2. CASE SaveItems(p)
    <3>1. stage[p] = "items" /\ copy' = copy /\ (stage'[p] \in Working => job[p] = "processRefund")
      BY <1>2, <1>0, <2>2 DEF SaveItems, Working
    <3>2. Exists(ReturnOf[p])'
      BY <1>0, <1>2, <3>1, Stay DEF Loading, Working
    <3>3. stage'[p] \in Working => p \in raced \/ request' = request
      BY <1>2, <2>2, <3>1, ItemsSaved
    <3>4. QED
      BY <1>0, <1>2, <3>1, <3>2, <3>3, Local DEF Loading, Working, From
  <2>3. CASE Pay(p) \/ Stripe(p)
    BY <1>0, <1>2, <2>3 DEF Pay, Stripe, calls, tables, Loading, From, Exists
  <2>4. CASE PayEnds(p)
    BY <1>0, <1>2, <2>4 DEF PayEnds, Loading, Working, From, Exists
  <2>5. CASE Save(p) \/ Restock(p) \/ Ship(p) \/ Crash(p)
    <3>1. stage'[p] \notin Working
      BY <1>0, <1>2, <2>5 DEF Save, Restock, Ship, Crash, Working
    <3>2. QED
      BY <1>2, <3>1 DEF Loading
  <2>6. QED
    BY <1>2, <2>1, <2>2, <2>3, <2>4, <2>5, Sorts DEF Act
<1>3. QED
  BY <1>1, <1>2

LEMMA CreatingNext ==
  ASSUME HandlerInv, NEW p \in Processes, Act(p), NEW r \in Returns
  PROVE  Creating(r)'
<1> USE DEF HandlerInv, ReturnsType, Goto
<1>0. Creating(r) /\ r \in Processes /\ r \notin Calls
  BY Sorts
<1>1. CASE p \in Returns /\ Check(p)
  BY <1>0, <1>1 DEF Check, tables, Creating, FirstOf, Exists, Siblings
<1>2. CASE p \in Returns /\ Insert(p)
  <2>1. CASE r = p
    BY <1>0, <1>2, <2>1 DEF Insert, Creating
  <2>2. CASE r # p
    <3>1. stage'[r] = stage[r] /\ request'[r] = request[r]
      BY <1>0, <1>2, <2>2 DEF Insert
    <3>2. stage[r] = "insert" /\ r \notin raced' => p \notin Siblings(r)
      BY <1>2, <2>2 DEF Insert, Siblings
    <3>3. \A s \in Siblings(r) : s # p => request'[s] = request[s]
      BY <1>2 DEF Insert, Siblings
    <3>4. raced \subseteq raced'
      BY <1>2 DEF Insert
    <3>5. QED
      BY <1>0, <3>1, <3>2, <3>3, <3>4 DEF Creating, Exists, Siblings
  <2>3. QED
    BY <2>1, <2>2
<1>3. CASE ~(p \in Returns /\ (Check(p) \/ Insert(p)))
  <2>1. raced \subseteq raced'
    BY Local
  <2>2. \A s \in Returns : Exists(s)' = Exists(s)
    <3>1. \/ UNCHANGED request
          \/ /\ p \in Calls /\ stage[p] \in Working
             /\ \E row \in ReturnRequest : request' = [request EXCEPT ![ReturnOf[p]] = row]
      BY <1>3, Writing DEF Writes
    <3>2. p \in Calls /\ stage[p] \in Working => Exists(ReturnOf[p]) /\ ReturnOf[p] \in Returns
      BY Sorts DEF Loading
    <3>3. QED
      BY <3>1, <3>2, Sorts DEF Exists
  <2>3. stage'[r] = stage[r] \/ stage'[r] = "done"
    <3>1. CASE r # p
      BY <1>0, <3>1, Local
    <3>2. CASE r = p
      BY <1>0, <1>3, <3>2 DEF Act, Crash
    <3>3. QED
      BY <3>1, <3>2
  <2>4. QED
    BY <1>0, <2>1, <2>2, <2>3 DEF Creating, Siblings
<1>4. QED
  BY <1>1, <1>2, <1>3

LEMMA HandlersAlways == Spec => []HandlerInv
<1>1. Init => HandlerInv
  BY Sorts DEF Init, HandlerInv, ReturnsType, Loading, Working, Role, Creating, Exists, Stages
<1>2. HandlerInv /\ [Next]_vars => HandlerInv'
  <2>1. ASSUME HandlerInv, NEW p \in Processes, Act(p) PROVE HandlerInv'
    BY <2>1, ReturnsTypeNext, LoadingNext, RoleNext, CreatingNext DEF HandlerInv
  <2>2. ASSUME HandlerInv, UNCHANGED vars PROVE HandlerInv'
    BY <2>2 DEF HandlerInv, ReturnsType, Loading, Role, Creating, Exists, Siblings, From,
                vars, tables, calls
  <2>3. QED
    BY <2>1, <2>2, Acts
<1>3. QED
  BY <1>1, <1>2, PTL DEF Spec

(***************************************************************************)
(* The refund of a call.  Its key is its own, so nobody else writes its    *)
(* row: the row is COMPLETED exactly when createRefund has answered so,    *)
(* and it is over the amount that was asked.                               *)
(***************************************************************************)
Booked(c) ==
  /\ pc[c] \in {"idle", "reserve"} => refund[c].status = "NONE"
  /\ pc[c] \in Theory!Bound => refund[c].status # "NONE"
  /\ refund[c].status = "COMPLETED" <=> pc[c] = "refunded"
  /\ refund[c].status # "NONE" => refund[c].amount = AskOf[c]

RefundInv ==
  /\ Theory!TypeOK
  /\ shared = {}
  /\ \A c \in Calls : Booked(c)

LEMMA OwnKey ==
  ASSUME NEW c \in Calls
  PROVE  /\ [d \in Calls |-> d][c] = c
         /\ Theory!RefundAmount(c) = AskOf[c]
BY Sorts DEF Theory!RefundAmount

(* A step of createRefund writes the row of its own call, and keeps what   *)
(* is booked there.                                                        *)
LEMMA BookedStep ==
  ASSUME Theory!TypeOK, NEW d \in Calls, Booked(d),
         Theory!Check(d) \/ Theory!Proceed(d) \/ Theory!Crash(d)
           \/ Theory!StripeAccepts(d) \/ Theory!StripeRejects(d)
  PROVE  /\ \A c \in Calls \ {d} : refund'[c] = refund[c] /\ pc'[c] = pc[c]
         /\ Booked(d)'
         /\ pc[d] = "refunded" => pc'[d] = "refunded" /\ refund'[d] = refund[d]
<1> USE OwnKey DEF Theory!TypeOK, Theory!Bound
<1>1. CASE Theory!Check(d)
  BY <1>1 DEF Theory!Check, Booked, Theory!Row
<1>2. CASE Theory!Reserve(d)
  <2>1. CASE refund' = refund /\ pc' = [pc EXCEPT ![d] = "rejected"]
    BY <1>2, <2>1 DEF Theory!Reserve, Booked
  <2>2. ASSUME NEW o, Theory!Row(d).status = "NONE", pc' = [pc EXCEPT ![d] = "send"],
               refund' = [refund EXCEPT ![d] = [status |-> "PROCESSING", payment |-> o,
                                                amount |-> AskOf[d]]]
        PROVE  /\ \A c \in Calls \ {d} : refund'[c] = refund[c] /\ pc'[c] = pc[c]
               /\ pc'[d] = "send" /\ refund'[d].status = "PROCESSING"
               /\ refund'[d].amount = AskOf[d]
    BY <2>2
  <2>3. \/ refund' = refund /\ pc' = [pc EXCEPT ![d] = "rejected"]
        \/ /\ Theory!Row(d).status = "NONE" /\ pc' = [pc EXCEPT ![d] = "send"]
           /\ \E o : refund' = [refund EXCEPT ![d] = [status |-> "PROCESSING", payment |-> o,
                                                     amount |-> AskOf[d]]]
    BY <1>2 DEF Theory!Reserve
  <2>4. pc[d] = "reserve"
    BY <1>2 DEF Theory!Reserve
  <2>5. QED
    BY <2>1, <2>2, <2>3, <2>4 DEF Booked
<1>3. CASE Theory!Send(d) \/ Theory!Answered(d) \/ Theory!CallFails(d)
  BY <1>3 DEF Theory!Send, Theory!Answered, Theory!CallFails, Booked
<1>a. ASSUME NEW new, refund' = [refund EXCEPT ![d].status = new]
      PROVE  /\ \A c \in Calls \ {d} : refund'[c] = refund[c]
             /\ refund'[d].status = new /\ refund'[d].amount = refund[d].amount
  BY <1>a
<1>4. CASE Theory!MarkFailed(d)
  <2>1. refund' = [refund EXCEPT ![d].status = "FAILED"]
    BY <1>4 DEF Theory!MarkFailed
  <2>2. pc[d] = "fail" /\ pc' = [pc EXCEPT ![d] = "failed"]
    BY <1>4 DEF Theory!MarkFailed
  <2>3. refund[d].status # "NONE"
    BY <2>2 DEF Booked, Theory!Bound
  <2>4. QED
    BY <1>a, <2>1, <2>2, <2>3 DEF Booked
<1>5. CASE Theory!Finalise(d)
  BY <1>5 DEF Theory!Finalise, Booked
<1>6. CASE Theory!Commit(d)
  <2>1. refund' = [refund EXCEPT ![d].status = "COMPLETED"]
    BY <1>6 DEF Theory!Commit
  <2>2. pc[d] = "commit" /\ pc' = [pc EXCEPT ![d] = "refunded"]
    BY <1>6 DEF Theory!Commit
  <2>3. refund[d].status # "NONE"
    BY <2>2 DEF Booked, Theory!Bound
  <2>4. QED
    BY <1>a, <2>1, <2>2, <2>3 DEF Booked
<1>7. CASE Theory!Crash(d)
  BY <1>7 DEF Theory!Crash, Theory!Running, Booked
<1>8. CASE Theory!StripeAccepts(d) \/ Theory!StripeRejects(d)
  BY <1>8 DEF Theory!StripeAccepts, Theory!StripeRejects, Booked
<1>9. QED
  BY <1>1, <1>2, <1>3, <1>4, <1>5, <1>6, <1>7, <1>8 DEF Theory!Proceed

LEMMA BookedNext ==
  ASSUME RefundInv, [Next]_vars, NEW c \in Calls
  PROVE  /\ Booked(c)'
         /\ pc[c] = "refunded" => pc'[c] = "refunded" /\ refund'[c] = refund[c]
<1>1. [Theory!Next]_money
  BY RefundSteps
<1>2. CASE UNCHANGED money
  BY <1>2 DEF RefundInv, Booked, Theory!Bound, money
<1>3. CASE \E d \in Calls : Theory!Check(d) \/ Theory!Proceed(d) \/ Theory!Crash(d)
             \/ Theory!StripeAccepts(d) \/ Theory!StripeRejects(d)
  BY <1>3, BookedStep DEF RefundInv, Booked
<1>4. QED
  BY <1>1, <1>2, <1>3 DEF Theory!Next, Theory!AllEnded, Theory!vars, money

(* No other call has the key, so it is never shared.                       *)
LEMMA NeverShared == ASSUME [Next]_vars, shared = {} PROVE shared' = {}
<1>1. \A c \in Calls : Theory!SharedBy(c) = shared
  BY DEF Theory!SharedBy, Theory!SameKey
<1>2. QED
  BY <1>1, RefundSteps
  DEF money, Theory!Next, Theory!Proceed, Theory!Check, Theory!Reserve, Theory!Send,
      Theory!Answered, Theory!CallFails, Theory!MarkFailed, Theory!Finalise, Theory!Commit,
      Theory!Crash, Theory!StripeAccepts, Theory!StripeRejects, Theory!AllEnded, Theory!vars

LEMMA RefundsAlways == Spec => []RefundInv
<1>1. Init => shared = {} /\ \A c \in Calls : Booked(c)
  BY DEF Init, Refunds!Init, Booked, Theory!Bound
<1>2. Spec => []Theory!TypeOK
  <2>1. Theory!BackInv => Theory!TypeOK
    BY DEF Theory!BackInv
  <2>2. QED
    BY <2>1, RefundsHold, PTL
<1>3. Theory!TypeOK /\ Theory!TypeOK' /\ RefundInv /\ [Next]_vars => RefundInv'
  BY BookedNext, NeverShared DEF RefundInv
<1>4. Init /\ Theory!TypeOK => RefundInv
  BY <1>1 DEF RefundInv
<1>5. QED
  BY <1>2, <1>3, <1>4, PTL DEF Spec

(***************************************************************************)
(* Goods follow money.  What a call has accounted for stays so, and the    *)
(* calls that are done only get more.                                      *)
(***************************************************************************)
LEMMA AccountedStays ==
  ASSUME HandlerInv, RefundInv, [Next]_vars, NEW c \in Calls, Accounted(c)
  PROVE  Accounted(c)'
<1>1. logged \subseteq logged'
  BY DEF Next, vars, tables, Check, Insert, Load, SaveItems, Pay, Stripe, PayEnds, Save,
         Restock, Ship, Crash
<1>2. refund[c].status = "COMPLETED" => refund'[c] = refund[c]
  BY BookedNext DEF RefundInv, Booked
<1>3. QED
  BY <1>1, <1>2 DEF Accounted

Recorded(c) ==
  job[c] = "processRefund" /\ stage[c] \in {"save", "restock"} => Accounted(c)

LEMMA RecordedNext ==
  ASSUME HandlerInv, RefundInv, NEW p \in Processes, Act(p), [Next]_vars,
         NEW c \in Calls, Recorded(c)
  PROVE  Recorded(c)'
<1> USE DEF HandlerInv, ReturnsType, Goto
<1>0. /\ c \in Processes /\ job' = job /\ stage[c] # "insert"
      /\ Accounted(c) => Accounted(c)'
  BY Local, Sorts, AccountedStays DEF Role
<1>1. CASE c # p \/ stage'[c] = stage[c]
  BY <1>0, <1>1, Local DEF Recorded
<1>2. CASE c = p
  <2>1. CASE SaveItems(p)
    <3>1. job[c] = "processRefund" /\ stage'[c] \in {"save", "restock"}
            => OrderOf[ReturnOf[c]] \notin Paid
      BY <1>0, <1>2, <2>1 DEF SaveItems
    <3>2. QED
      BY <1>0, <3>1 DEF Recorded, Accounted
  <2>2. CASE PayEnds(p)
    <3>1. pc[c] = "refunded" => refund[c].status = "COMPLETED" /\ refund[c].amount = AskOf[c]
      BY DEF RefundInv, Booked
    <3>2. pc[c] # "refunded" => c \in logged'
      BY <1>2, <2>2 DEF PayEnds
    <3>3. Accounted(c)'
      BY <1>0, <3>1, <3>2 DEF Accounted
    <3>4. QED
      BY <3>3 DEF Recorded
  <2>3. CASE Save(p)
    BY <1>0, <1>2, <2>3 DEF Save, Recorded
  <2>4. CASE Load(p) \/ Restock(p) \/ Ship(p) \/ Crash(p)
    BY <1>0, <1>2, <2>4 DEF Load, First, Restock, Ship, Crash, Recorded
  <2>5. CASE Pay(p) \/ Stripe(p)
    BY <1>1, <1>2, <2>5 DEF Pay, Stripe, calls
  <2>6. QED
    BY <1>2, <2>1, <2>2, <2>3, <2>4, <2>5, Sorts DEF Act
<1>3. QED
  BY <1>1, <1>2

(* The calls that got through stay through, and a restock adds its own.    *)
LEMMA ThroughGrows ==
  ASSUME HandlerInv, RefundInv, NEW p \in Processes, Act(p), [Next]_vars, NEW r \in Returns
  PROVE  Through(r) \subseteq Through(r)'
<1> USE DEF HandlerInv, ReturnsType, Goto
<1> SUFFICES ASSUME NEW c \in Calls, c \in Through(r) PROVE c \in Through(r)'
  BY DEF Through
<1>1. c \in Processes /\ stage[c] = "done" /\ Accounted(c)' /\ job' = job
  BY Local, Sorts, AccountedStays DEF Through
<1>2. stage'[c] = "done"
  <2>1. CASE c # p
    BY <1>1, <2>1, Local
  <2>2. CASE c = p
    BY <1>1, <2>2, Sorts
    DEF Act, Load, SaveItems, Pay, Stripe, PayEnds, Save, Restock, Ship, Crash, calls
  <2>3. QED
    BY <2>1, <2>2
<1>3. QED
  BY <1>1, <1>2 DEF Through

LEMMA FiniteThrough ==
  ASSUME NEW r \in Returns
  PROVE  IsFiniteSet(Through(r)) /\ IsFiniteSet(Through(r)')
<1>1. Through(r) \subseteq Calls /\ Through(r)' \subseteq Calls
  BY DEF Through
<1>2. QED
  BY <1>1, FS_Subset, ConstantsAssumption

Restocks(i) == restocked[i] <= Cardinality(Through(ReturnedIn[i]))

LEMMA RestocksNext ==
  ASSUME HandlerInv, RefundInv, \A c \in Calls : Recorded(c),
         NEW p \in Processes, Act(p), [Next]_vars, NEW i \in Items, Restocks(i)
  PROVE  Restocks(i)'
<1> DEFINE r == ReturnedIn[i]
<1> USE DEF HandlerInv, ReturnsType, Goto
<1>a. r \in Returns
  BY ConstantsAssumption
<1>0. /\ Cardinality(Through(r)) \in Nat /\ Cardinality(Through(r)') \in Nat
      /\ Cardinality(Through(r)) <= Cardinality(Through(r)')
  BY <1>a, FiniteThrough, ThroughGrows, FS_CardinalityType, FS_Subset
<1>1. CASE restocked'[i] = restocked[i]
  BY <1>0, <1>1 DEF Restocks
<1>2. CASE restocked'[i] # restocked[i]
  <2>1. p \in Calls /\ Restock(p)
    BY <1>2 DEF Act, Check, Insert, Load, SaveItems, Pay, Stripe, PayEnds, Save, Ship,
                Crash, tables
  <2>2. ReturnOf[p] = r /\ restocked'[i] = restocked[i] + 1 /\ stage[p] = "restock"
    BY <1>2, <2>1 DEF Restock
  <2>3. p \notin Through(r)
    BY <2>2 DEF Through
  <2>4. p \in Through(r)'
    <3>1. job[p] = "processRefund" /\ Accounted(p)
      BY <2>1, <2>2 DEF Role, Recorded
    <3>2. stage'[p] = "done" /\ job' = job
      BY <2>1 DEF Restock
    <3>3. QED
      BY <2>1, <2>2, <3>1, <3>2, AccountedStays DEF Through
  <2>5. Cardinality(Through(r) \cup {p}) = Cardinality(Through(r)) + 1
    BY <1>a, <2>3, FiniteThrough, FS_AddElement
  <2>6. Cardinality(Through(r) \cup {p}) <= Cardinality(Through(r)')
    BY <1>a, <2>4, ThroughGrows, FiniteThrough, FS_Subset
  <2>7. QED
    BY <1>0, <2>2, <2>5, <2>6 DEF Restocks
<1>3. QED
  BY <1>1, <1>2

LEMMA SameStep == HandlerInv /\ [Next]_vars => (\E p \in Processes : Act(p)) \/ UNCHANGED vars
BY Acts

(* The units of an item are put back in stock at most once for each refund *)
(* of its return that has gone through, and a call past the refund of a    *)
(* paid order has it booked or in the audit (processRefund).               *)
THEOREM GoodsFollow == Spec => []GoodsFollowMoney
<1> DEFINE Inv == (\A c \in Calls : Recorded(c)) /\ (\A i \in Items : Restocks(i))
<1>1. Init => Inv
  <2>1. ASSUME Init, NEW i \in Items PROVE Restocks(i)
    <3>1. Cardinality(Through(ReturnedIn[i])) \in Nat
      BY FS_Subset, FS_CardinalityType, ConstantsAssumption DEF Through
    <3>2. QED
      BY <2>1, <3>1 DEF Init, Restocks
  <2>2. QED
    BY <2>1, Sorts DEF Init, Recorded
<1>2. HandlerInv /\ RefundInv /\ Inv /\ [Next]_vars => Inv'
  <2>1. ASSUME HandlerInv, RefundInv, Inv, [Next]_vars, NEW p \in Processes, Act(p)
        PROVE  Inv'
    BY <2>1, RecordedNext, RestocksNext
  <2>2. ASSUME Inv, UNCHANGED vars PROVE Inv'
    BY <2>2 DEF Recorded, Restocks, Through, Accounted, vars, tables, calls, money
  <2>3. QED
    BY <2>1, <2>2, SameStep
<1>3. Inv => GoodsFollowMoney
  BY DEF GoodsFollowMoney, Recorded, Restocks, Through
<1>4. QED
  BY <1>1, <1>2, <1>3, HandlersAlways, RefundsAlways, PTL DEF Spec

(* However often the returns of an order are refunded, each call with a    *)
(* key of its own, the refunds under way and done stay within its payment: *)
(* the bound that createRefund keeps for a payment none of whose keys two  *)
(* requests ran at once (ReservationsWithinPrice of RefundsProofs).        *)
THEOREM RefundsStayWithinPayment == Spec => []RefundsWithinPayment
<1>1. Spec => []Theory!ReservedWithinPrice
  BY RefundsRun, Theory!ReservationsWithinPrice, RefundsAssumption, PTL
<1>2. RefundInv /\ Theory!ReservedWithinPrice => RefundsWithinPayment
  BY SameTotals
  DEF RefundInv, Theory!ReservedWithinPrice, Theory!Alone, RefundsWithinPayment
<1>3. QED
  BY <1>1, <1>2, RefundsAlways, PTL

(* create gives an order a second return only when both requests were past *)
(* the check and before the insert at the same time.                       *)
THEOREM SecondReturnRaced == Spec => SecondReturnIsRaced
<1> DEFINE Raced ==
      \A r \in Returns :
        ~Exists(r) /\ Exists(r)' => r \in raced \/ \A s \in Siblings(r) : ~Exists(s)
<1>1. HandlerInv /\ [Next]_vars => [Raced]_vars
  <2>1. ASSUME HandlerInv, NEW p \in Processes, Act(p), NEW r \in Returns,
               ~Exists(r), Exists(r)'
        PROVE  r \in raced \/ \A s \in Siblings(r) : ~Exists(s)
    <3>1. CASE p \in Returns /\ Insert(p)
      <4>1. r = p
        BY <2>1, <3>1 DEF Insert, HandlerInv, ReturnsType, Exists
      <4>2. stage[r] = "insert"
        BY <3>1, <4>1 DEF Insert
      <4>3. QED
        BY <2>1, <4>2 DEF HandlerInv, Creating
    <3>2. CASE /\ p \in Calls /\ stage[p] \in Working
               /\ \E row \in ReturnRequest : request' = [request EXCEPT ![ReturnOf[p]] = row]
      <4>1. r = ReturnOf[p]
        BY <2>1, <3>2 DEF HandlerInv, ReturnsType, Exists
      <4>2. Exists(r)
        BY <2>1, <3>2, <4>1 DEF HandlerInv, Loading
      <4>3. QED
        BY <2>1, <4>2
    <3>3. CASE UNCHANGED request
      BY <2>1, <3>3 DEF Exists
    <3>4. QED
      BY <2>1, <3>1, <3>2, <3>3, Writing DEF Writes
  <2>2. QED
    BY <2>1, SameStep
<1>2. QED
  BY <1>1, HandlersAlways, PTL DEF Spec, SecondReturnIsRaced

(* The row of a return changes only by a call about it, or by its own      *)
(* create.                                                                 *)
LEMMA RowWriter ==
  ASSUME HandlerInv, NEW p \in Processes, Act(p), NEW r \in Returns,
         Exists(r), request'[r] # request[r]
  PROVE  /\ p \in Calls /\ ReturnOf[p] = r /\ stage[p] \in Working
         /\ SaveItems(p) \/ Save(p)
<1>1. p \in Calls /\ (SaveItems(p) \/ Save(p))
  <2>1. ~(p \in Returns /\ Insert(p))
    BY DEF Insert, HandlerInv, ReturnsType, Creating
  <2>2. QED
    BY <2>1 DEF Act, Check, Load, Pay, Stripe, PayEnds, Restock, Ship, Crash, tables
<1>2. stage[p] \in Working
  BY <1>1 DEF SaveItems, Save, Working
<1>3. ReturnOf[p] = r
  <2>1. CASE SaveItems(p)
    BY <1>1, <2>1, ItemsSaved DEF HandlerInv, ReturnsType
  <2>2. CASE Save(p)
    BY <2>2 DEF Save, HandlerInv, ReturnsType
  <2>3. QED
    BY <1>1, <2>1, <2>2
<1>4. QED
  BY <1>1, <1>2, <1>3

(* A call that nobody overtook saves over the row it has loaded.           *)
LEMMA Unraced ==
  ASSUME HandlerInv, NEW c \in Calls, stage[c] \in Working, c \notin raced
  PROVE  /\ copy[c] = request[ReturnOf[c]]
         /\ request[ReturnOf[c]].status \in From(job[c])
BY DEF HandlerInv, Loading

LEMMA Saves ==
  ASSUME HandlerInv, NEW c \in Calls, Save(c)
  PROVE  /\ request'[ReturnOf[c]] = Saved(c)
         /\ stage[c] = "save" /\ stage'[c] # stage[c]
<1>1. ReturnOf[c] \in Returns /\ c \in Processes
  BY Sorts
<1>2. request'[ReturnOf[c]] = Saved(c)
  BY <1>1 DEF Save, HandlerInv, ReturnsType
<1>3. stage[c] = "save" /\ stage'[c] # "save"
  BY <1>1 DEF Save, Goto, HandlerInv, ReturnsType
<1>4. QED
  BY <1>2, <1>3

LEMMA ItemsMove ==
  ASSUME HandlerInv, NEW c \in Calls, SaveItems(c)
  PROVE  stage'[c] # stage[c]
BY Sorts DEF SaveItems, Goto, HandlerInv, ReturnsType

(* A refused, refunded or completed return is reopened only by a call that *)
(* checks no status, or by one that another call has overtaken since it    *)
(* looked (approve, reject, cancel, complete and the rest).                *)
THEOREM ReopenedByHand == Spec => ClosedIsReopenedByHand
<1> DEFINE Closed(r) == request[r].status \in {"REJECTED", "REFUNDED", "COMPLETED"}
           Reopens(r) ==
             /\ Exists(r) /\ Closed(r)
             /\ request'[r].status # request[r].status
             /\ <<request[r].status, request'[r].status>> # <<"REFUNDED", "COMPLETED">>
           Excuse(r) ==
             \E c \in Calls : ReturnOf[c] = r /\ stage'[c] # stage[c]
                              /\ (job[c] \in ByHand \/ c \in raced)
<1>1. ASSUME HandlerInv, NEW p \in Processes, Act(p), NEW r \in Returns, Reopens(r)
      PROVE  Excuse(r)
  <2>1. /\ p \in Calls /\ ReturnOf[p] = r /\ stage[p] \in Working
        /\ SaveItems(p) \/ Save(p)
    BY <1>1, RowWriter
  <2>2. CASE SaveItems(p)
    <3>1. request[r] \in ReturnRequest
      BY <1>1 DEF HandlerInv, ReturnsType, Exists
    <3>2. PICK d \in BOOLEAN : request' = [request EXCEPT ![r] = [@ EXCEPT !.damaged = d]]
      BY <1>1, <2>1, <2>2, ItemsSaved
    <3>3. request'[r].status = request[r].status
      BY <3>1, <3>2 DEF HandlerInv, ReturnsType, ReturnRequest
    <3>4. QED
      BY <1>1, <3>3
  <2>3. CASE Save(p)
    <3>1. request'[r].status = Becomes(job[p]) /\ stage[p] = "save" /\ stage'[p] # stage[p]
      <4>1. request'[r] = Saved(p) /\ stage[p] = "save" /\ stage'[p] # stage[p]
        BY <1>1, <2>1, <2>3, Saves
      <4>2. Saved(p).status = Becomes(job[p])
        BY DEF Saved
      <4>3. QED
        BY <4>1, <4>2
    <3>2. CASE p \in raced \/ job[p] \in ByHand
      BY <2>1, <3>1, <3>2
    <3>3. CASE p \notin raced /\ job[p] \notin ByHand
      <4>1. request[r].status \in From(job[p])
        BY <1>1, <2>1, <3>3, Unraced
      <4>2. job[p] \in {"cancel", "approve", "reject", "schedulePickup", "complete"}
        BY <1>1, <2>1, <3>1, <3>3 DEF ByHand, HandlerInv, ReturnsType, Role, Jobs
      <4>3. CASE job[p] = "complete"
        <5>1. request[r].status = "REFUNDED" /\ request'[r].status = "COMPLETED"
          BY <3>1, <4>1, <4>3 DEF From, Becomes
        <5>2. QED
          BY <1>1, <5>1
      <4>4. CASE job[p] # "complete"
        <5>1. request[r].status \in {"REQUESTED", "APPROVED"}
          BY <4>1, <4>2, <4>4 DEF From
        <5>2. QED
          BY <1>1, <5>1
      <4>5. QED
        BY <4>3, <4>4
    <3>4. QED
      BY <3>2, <3>3
  <2>4. QED
    BY <2>1, <2>2, <2>3
<1> DEFINE Excused ==
        \A r \in Returns :
          Exists(r) /\ request[r].status \in {"REJECTED", "REFUNDED", "COMPLETED"}
            /\ request'[r].status # request[r].status
            /\ <<request[r].status, request'[r].status>> # <<"REFUNDED", "COMPLETED">> =>
              \E c \in Calls : ReturnOf[c] = r /\ stage'[c] # stage[c]
                               /\ (job[c] \in ByHand \/ c \in raced)
<1>2. HandlerInv /\ [Next]_vars => [Excused]_vars
  <2>1. HandlerInv /\ [Next]_vars => (\A r \in Returns : Reopens(r) => Excuse(r)) \/ UNCHANGED vars
    BY <1>1, SameStep
  <2>2. (\A r \in Returns : Reopens(r) => Excuse(r)) => Excused
    OBVIOUS
  <2>3. QED
    BY <2>1, <2>2
<1>3. QED
  BY <1>2, HandlersAlways, PTL DEF Spec, ClosedIsReopenedByHand

(* Damage found at the warehouse is taken back only by another             *)
(* verification or by a call that was overtaken since it looked, although  *)
(* every save of a request writes its items too.                           *)
THEOREM DamageStays == Spec => DamageStands
<1> DEFINE Cleared(r) == Exists(r) /\ request[r].damaged /\ ~request'[r].damaged
           Excuse(r) ==
             \E c \in Calls : ReturnOf[c] = r /\ stage'[c] # stage[c]
                              /\ (job[c] = "verifyItems" \/ c \in raced)
<1>1. ASSUME HandlerInv, NEW p \in Processes, Act(p), NEW r \in Returns, Cleared(r)
      PROVE  Excuse(r)
  <2>1. /\ p \in Calls /\ ReturnOf[p] = r /\ stage[p] \in Working
        /\ SaveItems(p) \/ Save(p)
    BY <1>1, RowWriter
  <2>2. CASE SaveItems(p)
    <3>1. job[p] = "verifyItems" \/ p \in raced
      BY <1>1, <2>1, <2>2, ItemsSaved
    <3>2. QED
      BY <1>1, <2>1, <2>2, <3>1, ItemsMove
  <2>3. CASE Save(p)
    <3>1. request'[r] = Saved(p) /\ stage'[p] # stage[p]
      BY <1>1, <2>1, <2>3, Saves
    <3>2. CASE p \in raced
      BY <2>1, <3>1, <3>2
    <3>3. CASE p \notin raced
      <4>1. copy[p] = request[r]
        BY <1>1, <2>1, <3>3, Unraced
      <4>2. request'[r].damaged = request[r].damaged
        BY <2>1, <3>1, <4>1 DEF Saved
      <4>3. QED
        BY <1>1, <4>2
    <3>4. QED
      BY <3>2, <3>3
  <2>4. QED
    BY <2>1, <2>2, <2>3
<1> DEFINE Excused ==
        \A r \in Returns :
          Exists(r) /\ request[r].damaged /\ ~request'[r].damaged =>
            \E c \in Calls : ReturnOf[c] = r /\ stage'[c] # stage[c]
                             /\ (job[c] = "verifyItems" \/ c \in raced)
<1>2. HandlerInv /\ [Next]_vars => [Excused]_vars
  <2>1. HandlerInv /\ [Next]_vars => (\A r \in Returns : Cleared(r) => Excuse(r)) \/ UNCHANGED vars
    BY <1>1, SameStep
  <2>2. (\A r \in Returns : Cleared(r) => Excuse(r)) => Excused
    OBVIOUS
  <2>3. QED
    BY <2>1, <2>2
<1>3. QED
  BY <1>2, HandlersAlways, PTL DEF Spec, DamageStands

(* Every variable of the returns keeps its type, and so do the tables of   *)
(* the refunds they start, for any number of returns and calls             *)
(* (return.service.ts, and createRefund by its own theorem).               *)
THEOREM TypeCorrect == Spec => [](ReturnsType /\ Theory!TypeOK)
<1>1. HandlerInv => ReturnsType
  BY DEF HandlerInv
<1>2. QED
  BY <1>1, HandlersAlways, RefundsRun, Theory!TypeCorrect, RefundsAssumption, PTL

(* The refunds of returns implement the ledger createRefund promises:      *)
(* processRefund makes one promise for each of its keys, which is settled  *)
(* or withdrawn for good, although the call that made it may die at any    *)
(* step and staff may refund one return many times.                        *)
THEOREM ReturnsKeepLedger == Spec => Theory!ImplementsLedger
BY RefundsRun, Theory!RefundsImplementLedger, RefundsAssumption, PTL
=============================================================================
