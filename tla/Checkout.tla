------------------------------ MODULE Checkout ------------------------------
(***************************************************************************)
(* The checkout: from the cart to the order, through Stripe.               *)
(*                                                                         *)
(* A checkout starts as a row of checkout_snapshots with a payment intent. *)
(* Once Stripe has captured the payment, three callers race to run         *)
(* processSuccessfulPayment on it: the browser that confirms, the webhook, *)
(* which Stripe delivers more than once, and the cron job that recovers    *)
(* orphans.  A run of the pipeline is                                      *)
(*                                                                         *)
(*    Lookup  Load  SaveProcessing        statements of their own          *)
(*    BeginTx  LockRow  ReadNumber  LockCoupon  Commit    one transaction  *)
(*                                                                         *)
(* and every wait between two of them lets the others run.  Postgres is at *)
(* READ COMMITTED.  What a transaction writes becomes visible, and meets   *)
(* the unique indexes, in Commit; its row locks are taken one by one.      *)
(*                                                                         *)
(* A snapshot has a line for each row of cart_items, and a cart may have   *)
(* several rows of one variant.                                            *)
(***************************************************************************)
EXTENDS Money, Integers, FiniteSets, Sequences, FiniteSetsExt, Functions

CONSTANTS
  Snapshots,    \* checkout_snapshots.id
  Users,        \* users.id
  Variants,     \* inventory.variant_id
  Requests,     \* confirmations and webhook deliveries
  Cron,         \* the job handleOrphanedPaymentRecovery
  None,         \* no process, no checkout
  UserOf,       \* the user of a checkout
  Lines,        \* the lines of the snapshots
  CheckoutOf,   \* the checkout of a line
  VariantOf,    \* its variant
  UnitsOf,      \* its quantity
  Stocks,       \* what inventory.available_quantity may be at the start
  Withheld,     \* inventory.quantity that is not available
  Couponed,     \* the checkouts that use the coupon
  MaxUses,      \* coupons.max_uses
  Take,         \* candidates in one run of the cron job
  Slow,         \* bound: the checkouts that may outlast expires_at
  Declinable,   \* bound: the checkouts whose card may be declined
  MaxCrashes    \* bound on the crashes of a behaviour

Processes == Requests \cup {Cron}

ASSUME ConstantsAssumption ==
  /\ Cron \notin Requests /\ None \notin Processes
  /\ UserOf \in [Snapshots -> Users]
  /\ IsFiniteSet(Lines)
  /\ CheckoutOf \in [Lines -> Snapshots]
  /\ VariantOf \in [Lines -> Variants]
  /\ UnitsOf \in [Lines -> Nat \ {0}]
  /\ \A s \in Snapshots : \E l \in Lines : CheckoutOf[l] = s
  /\ Stocks \subseteq [Variants -> Nat] /\ Withheld \in [Variants -> Nat]
  /\ Couponed \subseteq Snapshots
  /\ Slow \subseteq Snapshots /\ Declinable \subseteq Snapshots
  /\ MaxUses \in Nat /\ Take \in Nat \ {0} /\ MaxCrashes \in Nat

VARIABLES
  status,     \* checkout_snapshots.status
  items,      \* checkout_snapshots.items, in the order the cart was read
  late,       \* checkout_snapshots.expires_at has passed
  intent,     \* the payment intent at Stripe
  declined,   \* Stripe has sent payment_intent.payment_failed
  handled,    \* payment_webhooks.processed of payment_intent.succeeded
  cart,       \* the users whose cart has items
  stock,      \* inventory
  uses,       \* coupons.usage_count
  timeline,   \* the orders and the open transactions by BEGIN, orders.created_at
  pc,         \* where a process is in the pipeline
  job,        \* the checkout it works on
  via,        \* who called it
  held,       \* inventory rows it has locked, in the order of items
  seen,       \* the order number it has generated
  usage,      \* the usage_count it has read
  queue,      \* candidates the cron job has left
  crashes     \* crashes so far

checkout == <<status, items, late, intent, declined, cart>>
database == <<handled, stock, uses, timeline>>
process == <<pc, job, via, held, seen, usage, queue>>
vars == <<checkout, database, process, crashes>>

SnapshotStatus == {"NONE", "PENDING", "PAYMENT_PROCESSING", "USED", "EXPIRED", "FAILED"}
Stages == {"idle", "lookup", "load", "expire", "process", "begin", "lock",
           "number", "coupon", "commit", "ack", "done"}

LinesOf(s) == {l \in Lines : CheckoutOf[l] = s}

(* What a checkout takes of a variant, all its lines together.             *)
Wants(s, v) == Total({l \in LinesOf(s) : VariantOf[l] = v}, UnitsOf)

OrderAt == {i \in DOMAIN timeline : timeline[i].by = None}
OrderOf(s) == {i \in OrderAt : timeline[i].snapshot = s}
Sold(s) == OrderOf(s) # {}
Captured(s) == intent[s] = "succeeded"

(* Each line is checked alone.                                             *)
InStock(s) == \A l \in LinesOf(s) : UnitsOf[l] <= stock[VariantOf[l]].available

Init ==
  /\ status = [s \in Snapshots |-> "NONE"]
  /\ items = [s \in Snapshots |-> <<>>]
  /\ late = {}
  /\ intent = [s \in Snapshots |-> "none"]
  /\ declined = {}
  /\ handled = {}
  /\ cart = Users
  /\ \E units \in Stocks :
       stock = [v \in Variants |->
                  [quantity |-> units[v] + Withheld[v], available |-> units[v]]]
  /\ uses = 0
  /\ timeline = <<>>
  /\ pc = [p \in Processes |-> "idle"]
  /\ job = [p \in Processes |-> None]
  /\ via = [p \in Processes |-> "confirm"]
  /\ held = [p \in Processes |-> 0]
  /\ seen = [p \in Processes |-> 0]
  /\ usage = [p \in Processes |-> 0]
  /\ queue = {}
  /\ crashes = 0

-----------------------------------------------------------------------------
(* createPaymentIntent saves the snapshot of the cart.  The stock and the  *)
(* coupon are read without a lock, so nothing is kept for the customer.    *)
CreateSnapshot(s) ==
  /\ status[s] = "NONE"
  /\ UserOf[s] \in cart
  /\ InStock(s)
  /\ s \in Couponed => uses < MaxUses
  /\ status' = [status EXCEPT ![s] = "PENDING"]
  /\ \E order \in Bijection(1 .. Cardinality(LinesOf(s)), LinesOf(s)) :
       items' = [items EXCEPT ![s] = order]
  /\ UNCHANGED <<late, intent, declined, cart, database, process, crashes>>

(* It then creates the intent and saves its id; only now can the customer  *)
(* pay.  A crash between the two leaves a snapshot that expires.           *)
SaveIntent(s) ==
  /\ status[s] = "PENDING"
  /\ intent[s] = "none"
  /\ s \notin late
  /\ intent' = [intent EXCEPT ![s] = "open"]
  /\ UNCHANGED <<status, items, late, declined, cart, database, process, crashes>>

FillCart(u) ==
  /\ u \notin cart
  /\ cart' = cart \cup {u}
  /\ UNCHANGED <<status, items, late, intent, declined, database, process, crashes>>

(* The 30 minutes of expires_at pass.                                      *)
Expire(s) ==
  /\ status[s] # "NONE"
  /\ s \in Slow \ late
  /\ late' = late \cup {s}
  /\ UNCHANGED <<status, items, intent, declined, cart, database, process, crashes>>

(* Stripe knows nothing of expires_at: an open intent can be paid at any   *)
(* time, also after an attempt that was declined.                          *)
Pay(s) ==
  /\ intent[s] = "open"
  /\ intent' = [intent EXCEPT ![s] = "succeeded"]
  /\ UNCHANGED <<status, items, late, declined, cart, database, process, crashes>>

Decline(s) ==
  /\ intent[s] = "open"
  /\ s \in Declinable \ declined
  /\ declined' = declined \cup {s}
  /\ UNCHANGED <<status, items, late, intent, cart, database, process, crashes>>

(* handleWebhook for payment_intent.payment_failed, delivered late or more *)
(* than once, whatever the snapshot has become since.                      *)
PaymentFailed(s) ==
  /\ s \in declined
  /\ status' = [status EXCEPT ![s] = "FAILED"]
  /\ UNCHANGED <<items, late, intent, declined, cart, database, process, crashes>>

(* handleSnapshotCleanup: one UPDATE.                                      *)
Cleanup ==
  /\ status' = [s \in Snapshots |->
                  IF status[s] = "PENDING" /\ s \in late THEN "EXPIRED" ELSE status[s]]
  /\ UNCHANGED <<items, late, intent, declined, cart, database, process, crashes>>
-----------------------------------------------------------------------------
(* A process leaves the pipeline: a request ends, the cron job goes on to  *)
(* its next candidate.                                                     *)
Leave(p) ==
  /\ pc' = [pc EXCEPT ![p] = IF p = Cron THEN "idle" ELSE "done"]
  /\ job' = [job EXCEPT ![p] = None]
  /\ via' = [via EXCEPT ![p] = "confirm"]

Goto(p, stage) ==
  /\ pc' = [pc EXCEPT ![p] = stage]
  /\ UNCHANGED <<job, via>>

(* The answer is a success; a webhook still has to save its event.         *)
Succeed(p) == IF via[p] = "webhook" THEN Goto(p, "ack") ELSE Leave(p)

Release(p) ==
  /\ held' = [held EXCEPT ![p] = 0]
  /\ seen' = [seen EXCEPT ![p] = 0]
  /\ usage' = [usage EXCEPT ![p] = 0]

(* Where the open transaction of a process is in the timeline, if it has   *)
(* one, and the timeline without an entry.                                 *)
BegunAt(p) == {i \in DOMAIN timeline : timeline[i].by = p}

Without(i) == [j \in 1 .. Len(timeline) - 1 |-> timeline[IF j < i THEN j ELSE j + 1]]

(* A rollback drops the transaction and its locks.                         *)
Rollback(p) ==
  /\ Leave(p)
  /\ Release(p)
  /\ \/ BegunAt(p) = {} /\ timeline' = timeline
     \/ \E i \in BegunAt(p) : timeline' = Without(i)

Enter(p, s, caller) ==
  /\ pc' = [pc EXCEPT ![p] = "lookup"]
  /\ job' = [job EXCEPT ![p] = s]
  /\ via' = [via EXCEPT ![p] = caller]

(* confirmPayment, or a delivery of payment_intent.succeeded that has not  *)
(* been processed.  The pipeline asks Stripe for the intent: one that has  *)
(* not succeeded ends the request here, with no effect.                    *)
Request(r) ==
  /\ pc[r] = "idle"
  /\ \E s \in Snapshots :
       /\ Captured(s)
       /\ \/ Enter(r, s, "confirm")
          \/ s \notin handled /\ Enter(r, s, "webhook")
  /\ UNCHANGED <<checkout, database, held, seen, usage, queue, crashes>>

(* 1. The order may exist already.                                         *)
Lookup(p) ==
  /\ pc[p] = "lookup"
  /\ \/ Sold(job[p]) /\ Succeed(p)
     \/ ~Sold(job[p]) /\ Goto(p, "load")
  /\ UNCHANGED <<checkout, database, held, seen, usage, queue, crashes>>

(* 2. Load the snapshot and decide on the status it has now.               *)
Load(p) ==
  LET s == job[p]
      expired == status[s] = "EXPIRED" \/ (status[s] = "PENDING" /\ s \in late)
  IN  /\ pc[p] = "load"
      /\ \/ status[s] = "USED" /\ Sold(s) /\ Succeed(p)
         \/ expired /\ Goto(p, "expire")
         \/ ~expired /\ ~(status[s] = "USED" /\ Sold(s)) /\ Goto(p, "process")
      /\ UNCHANGED <<checkout, database, held, seen, usage, queue, crashes>>

(* Mutant of SaveExpired: the webhook is answered with a success.          *)
SaveExpiredMutant(p) ==
  /\ pc[p] = "expire"
  /\ status' = [status EXCEPT ![job[p]] = "EXPIRED"]
  /\ Succeed(p)
  /\ UNCHANGED <<items, late, intent, declined, cart, database, held, seen, usage, queue, crashes>>

SaveExpired(p) ==
  /\ pc[p] = "expire"
  /\ status' = [status EXCEPT ![job[p]] = "EXPIRED"]
  /\ Leave(p)
  /\ UNCHANGED <<items, late, intent, declined, cart, database, held, seen, usage, queue, crashes>>

SaveStatus(p, new) ==
  /\ pc[p] = "process"
  /\ status' = [status EXCEPT ![job[p]] = new]
  /\ Goto(p, "begin")
  /\ UNCHANGED <<items, late, intent, declined, cart, database, held, seen, usage, queue, crashes>>

(* Mutants of SaveProcessing: another status is saved.                     *)
SavePaidMutant(p) == SaveStatus(p, "PAID")
SaveUsedMutant(p) == SaveStatus(p, "USED")

SaveProcessing(p) == SaveStatus(p, "PAYMENT_PROCESSING")

(* 3. The transaction.  BEGIN fixes the created_at of the order.           *)
BeginTx(p) ==
  /\ pc[p] = "begin"
  /\ timeline' = Append(timeline, [by |-> p, snapshot |-> job[p], number |-> 0])
  /\ Goto(p, "lock")
  /\ UNCHANGED <<checkout, handled, stock, uses, held, seen, usage, queue, crashes>>

Locked(p) == {VariantOf[items[job[p]][i]] : i \in 1 .. held[p]}
NextLine(p) == items[job[p]][held[p] + 1]
NextRow(p) == VariantOf[NextLine(p)]

WaitsFor(p) == {q \in Processes \ {p} : NextRow(p) \in Locked(q)}

(* SELECT ... FOR UPDATE of the next line's row, and the check of its      *)
(* stock, which rolls back when another order was faster.                  *)
LockRow(p) ==
  LET s == job[p]
      v == NextRow(p)
  IN  /\ pc[p] = "lock"
      /\ WaitsFor(p) = {}
      /\ \/ /\ stock[v].available >= UnitsOf[NextLine(p)]
            /\ held' = [held EXCEPT ![p] = held[p] + 1]
            /\ Goto(p, IF held[p] + 1 = Len(items[s]) THEN "number" ELSE "lock")
            /\ UNCHANGED <<timeline, seen, usage>>
         \/ stock[v].available < UnitsOf[NextLine(p)] /\ Rollback(p)
      /\ UNCHANGED <<checkout, handled, stock, uses, queue, crashes>>

(* Two carts with the same rows in another order: Postgres ends one of the *)
(* transactions that wait for each other.                                  *)
Deadlocked(p) ==
  \E D \in SUBSET Processes :
    p \in D /\ \A q \in D : pc[q] = "lock" /\ WaitsFor(q) \cap D # {}

BreakDeadlock(p) ==
  /\ pc[p] = "lock"
  /\ Deadlocked(p)
  /\ Rollback(p)
  /\ UNCHANGED <<checkout, handled, stock, uses, queue, crashes>>

(* generateOrderNumberInTx: one more than the order created last, as far   *)
(* as it is committed.                                                     *)
LastNumber == IF OrderAt = {} THEN 0 ELSE timeline[Max(OrderAt)].number

ReadNumber(p) ==
  /\ pc[p] = "number"
  /\ seen' = [seen EXCEPT ![p] = LastNumber + 1]
  /\ Goto(p, IF job[p] \in Couponed THEN "coupon" ELSE "commit")
  /\ UNCHANGED <<checkout, database, held, usage, queue, crashes>>

(* Mutant of LockCoupon: the count is saved outside the transaction.       *)
LockCouponMutant(p) ==
  /\ pc[p] = "coupon"
  /\ usage' = [usage EXCEPT ![p] = uses]
  /\ uses' = uses + 1
  /\ Goto(p, "commit")
  /\ UNCHANGED <<checkout, handled, stock, timeline, held, seen, queue, crashes>>

(* SELECT ... FOR UPDATE of the coupon; its limit is not looked at again.  *)
LockCoupon(p) ==
  /\ pc[p] = "coupon"
  /\ \A q \in Processes : ~(pc[q] = "commit" /\ job[q] \in Couponed)
  /\ usage' = [usage EXCEPT ![p] = uses]
  /\ Goto(p, "commit")
  /\ UNCHANGED <<checkout, database, held, seen, queue, crashes>>

(* Mutant of Unique: snapshot_id has no unique index.                      *)
UniqueMutant(s, n) == \A i \in OrderAt : timeline[i].number # n

(* orders.order_number, snapshot_id and stripe_payment_intent_id are       *)
(* unique.                                                                 *)
Unique(s, n) == \A i \in OrderAt : timeline[i].snapshot # s /\ timeline[i].number # n

Less(row, n) ==
  [quantity |-> Max({0, row.quantity - n}), available |-> Max({0, row.available - n})]

(* The order, its lines, its payment and its coupon usage appear; the      *)
(* stock goes down line by line, never below zero, the snapshot is USED,   *)
(* the coupon is saved with one use more than was read, and the cart of    *)
(* the user is emptied, whatever is in it by now.                          *)
Commit(p) ==
  LET s == job[p]
  IN  /\ pc[p] = "commit"
      /\ Unique(s, seen[p])
      /\ timeline' = [i \in DOMAIN timeline |->
                        IF timeline[i].by = p
                        THEN [by |-> None, snapshot |-> s, number |-> seen[p]]
                        ELSE timeline[i]]
      /\ stock' = [v \in Variants |-> Less(stock[v], Wants(s, v))]
      /\ uses' = IF s \in Couponed THEN usage[p] + 1 ELSE uses
      /\ status' = [status EXCEPT ![s] = "USED"]
      /\ cart' = cart \ {UserOf[s]}
      /\ Release(p)
      /\ Succeed(p)
      /\ UNCHANGED <<items, late, intent, declined, handled, queue, crashes>>

CommitFails(p) ==
  /\ pc[p] = "commit"
  /\ ~Unique(job[p], seen[p])
  /\ Rollback(p)
  /\ UNCHANGED <<checkout, handled, stock, uses, queue, crashes>>

(* handleWebhook saves the event as processed.                             *)
Ack(r) ==
  /\ pc[r] = "ack"
  /\ handled' = handled \cup {job[r]}
  /\ Leave(r)
  /\ UNCHANGED <<checkout, stock, uses, timeline, held, seen, usage, queue, crashes>>
-----------------------------------------------------------------------------
(* Mutant of Candidates: only snapshots that are PAID.                     *)
CandidatesMutant == {s \in Snapshots : status[s] = "PAID"}

(* handleOrphanedPaymentRecovery: up to Take candidates, in any order.     *)
Candidates == {s \in Snapshots : status[s] = "PAYMENT_PROCESSING"}

CronStart ==
  /\ pc[Cron] = "idle"
  /\ queue = {}
  /\ \E batch \in SUBSET Candidates :
       /\ batch # {}
       /\ batch = Candidates \/ Cardinality(batch) = Take
       /\ Cardinality(batch) <= Take
       /\ queue' = batch
  /\ UNCHANGED <<checkout, database, pc, job, via, held, seen, usage, crashes>>

(* Mutant of CronNext: a snapshot whose order exists is passed over.       *)
CronNextMutant(s) ==
  /\ pc[Cron] = "idle"
  /\ s \in queue
  /\ queue' = queue \ {s}
  /\ \/ Sold(s) /\ UNCHANGED <<pc, job, via>>
     \/ ~Sold(s) /\ Captured(s) /\ Enter(Cron, s, "confirm")
  /\ UNCHANGED <<checkout, database, held, seen, usage, crashes>>

(* An order that exists closes the snapshot; a captured payment without    *)
(* one enters the pipeline.  A candidate whose payment is not captured     *)
(* would be FAILED, but there is none: the pipeline saves the status only  *)
(* after it has asked Stripe.                                              *)
CronNext(s) ==
  /\ pc[Cron] = "idle"
  /\ s \in queue
  /\ queue' = queue \ {s}
  /\ \/ /\ Sold(s)
        /\ status' = [status EXCEPT ![s] = "USED"]
        /\ UNCHANGED <<pc, job, via>>
     \/ /\ ~Sold(s) /\ Captured(s)
        /\ Enter(Cron, s, "confirm")
        /\ status' = status
  /\ UNCHANGED <<items, late, intent, declined, cart, database, held, seen, usage, crashes>>

(* The process dies with the request or the job: an open transaction is    *)
(* rolled back, the queue of the job is forgotten.                         *)
Crash(p) ==
  /\ crashes < MaxCrashes
  /\ pc[p] \notin {"idle", "done"}
  /\ crashes' = crashes + 1
  /\ Rollback(p)
  /\ queue' = IF p = Cron THEN {} ELSE queue
  /\ UNCHANGED <<checkout, handled, stock, uses>>
-----------------------------------------------------------------------------
Step(p) ==
  \/ Lookup(p) \/ Load(p) \/ SaveExpired(p) \/ SaveProcessing(p)
  \/ BeginTx(p) \/ LockRow(p) \/ BreakDeadlock(p) \/ ReadNumber(p) \/ LockCoupon(p)
  \/ Commit(p) \/ CommitFails(p) \/ Ack(p)

Next ==
  \/ \E s \in Snapshots :
       \/ CreateSnapshot(s) \/ SaveIntent(s) \/ Expire(s)
       \/ Pay(s) \/ Decline(s) \/ PaymentFailed(s) \/ CronNext(s)
  \/ \E u \in Users : FillCart(u)
  \/ \E r \in Requests : Request(r)
  \/ \E p \in Processes : Step(p) \/ Crash(p)
  \/ Cleanup
  \/ CronStart

Spec == Init /\ [][Next]_vars

(* The event loop runs every ready continuation, Postgres grants a free    *)
(* lock, and the scheduler fires the job every 15 minutes.                 *)
Recovery == CronStart \/ \E s \in Snapshots : CronNext(s)

Fairness == (\A p \in Processes : WF_vars(Step(p))) /\ WF_vars(Recovery)

FairSpec == Spec /\ Fairness
-----------------------------------------------------------------------------
Entries(x) == [by : x, snapshot : Snapshots, number : Nat]

(* Every variable keeps its type.                                          *)
TypeOK ==
  /\ status \in [Snapshots -> SnapshotStatus]
  /\ items \in [Snapshots -> Seq(Lines)]
  /\ late \subseteq Snapshots /\ declined \subseteq Snapshots /\ handled \subseteq Snapshots
  /\ intent \in [Snapshots -> {"none", "open", "succeeded"}]
  /\ cart \subseteq Users
  /\ stock \in [Variants -> [quantity : Nat, available : Nat]]
  /\ uses \in Nat
  /\ timeline \in Seq(Entries(Processes \cup {None}))
  /\ pc \in [Processes -> Stages]
  /\ job \in [Processes -> Snapshots \cup {None}]
  /\ via \in [Processes -> {"confirm", "webhook"}]
  /\ held \in [Processes -> Nat]
  /\ seen \in [Processes -> Nat] /\ usage \in [Processes -> Nat]
  /\ queue \subseteq Snapshots
  /\ crashes \in 0 .. MaxCrashes

(* coupons.usage_count counts the orders that used the coupon, though a    *)
(* transaction that has read it may wait, fail or die before it saves it   *)
(* (processSuccessfulPayment).                                             *)
CouponCountsOrders ==
  uses = Cardinality({i \in OrderAt : timeline[i].snapshot \in Couponed})

(* A snapshot is never closed as USED without its order, whichever of the  *)
(* three callers, the cron job's own shortcut included, closed it.         *)
UsedHasOrder == \A s \in Snapshots : status[s] = "USED" => Sold(s)

(* An event marked as processed is never delivered again, so its payment   *)
(* must have become an order by then.                                      *)
HandledHasOrder == \A s \in handled : Sold(s)

(* The checkout sells like the abstract shop: a paid checkout at most      *)
(* once, under a number of its own, out of stock it really has: unless it  *)
(* has several lines of a variant, of which each is checked alone          *)
(* (createPaymentIntent, processSuccessfulPayment).                        *)
Orders == {[snapshot |-> timeline[i].snapshot, number |-> timeline[i].number] : i \in OrderAt}

Shop == INSTANCE Sales WITH
          paid <- {s \in Snapshots : Captured(s)}, sales <- Orders,
          stock <- [v \in Variants |-> stock[v].available]

ImplementsSales == Shop!Spec

(* The number that the next order will ask for is not taken.               *)
NextNumberIsFree == LastNumber + 1 \notin {timeline[i].number : i \in OrderAt}

(* The candidates that the cron job cannot sell: their stock is gone, or   *)
(* the next order number is taken.  They hide the others when they fill a  *)
(* run of the job.                                                         *)
Sellable(s) == InStock(s) /\ NextNumberIsFree
Stuck == {s \in Candidates : ~Sold(s) /\ ~Sellable(s)}
Hidden == Cardinality(Stuck) >= Take

(* A captured payment whose snapshot has reached PAYMENT_PROCESSING        *)
(* becomes an order, however often the processes on it die, unless its     *)
(* stock is gone, the next order number is taken, another event takes the  *)
(* snapshot out of the cron job's sight, or candidates that cannot be sold *)
(* fill a run of the job (handleOrphanedPaymentRecovery).                  *)
ProcessingIsRecovered ==
  \A s \in Snapshots :
    status[s] = "PAYMENT_PROCESSING" ~>
      Sold(s) \/ ~Sellable(s) \/ status[s] \in {"EXPIRED", "FAILED"} \/ Hidden

(* A sold snapshot that a stale save put back to PAYMENT_PROCESSING does   *)
(* not stay there, unless candidates that cannot be sold hide it from the  *)
(* cron job (handleOrphanedPaymentRecovery).                               *)
SoldIsClosed ==
  \A s \in Snapshots :
    Sold(s) /\ status[s] = "PAYMENT_PROCESSING" ~>
      status[s] # "PAYMENT_PROCESSING" \/ Hidden

(* A captured payment that a pipeline has begun to work on becomes an      *)
(* order as long as there is stock for it: what was interrupted, the cron  *)
(* job recovers.                                                           *)
OrphansAreRecovered ==
  \A s \in Snapshots : (\E p \in Processes : job[p] = s) ~> (Sold(s) \/ ~InStock(s))
=============================================================================
