# Verification of the Jaebees backend

TLA+ models, model-checking runs and proofs for the NestJS backend under
`src/Nest-Backend`. The modules cover the parts of the backend in which money
and stock move between several actors: requests, the webhook, cron jobs,
Postgres transactions and Stripe.

## 1. The system

The backend is one NestJS application over a Postgres database (TypeORM, READ
COMMITTED) with Stripe as the payment provider. It may run in several
processes; within a process the event loop interleaves requests at every
`await`. Components share state only through the database and through Stripe.

| Component | State | Operations | Hard behaviour | What makes it correct |
|---|---|---|---|---|
| Refund engine (`payments/services/refunds.service.ts`) | `payments.status`, `payment_refunds`, refunds at Stripe | `createRefund`: check key, transaction 1, Stripe, transaction 2 | requests with one key, answers that are lost, crashes between the steps, status computed from unlocked reads | completed rows are real refunds; never more than the price; a settled row is final; status agrees with the rows |
| Checkout (`payments.service.ts`, `checkout-cron.service.ts`) | `checkout_snapshots`, `orders`, `inventories`, `coupons.usage_count`, `carts`, `payment_webhooks`, intents at Stripe | `createPaymentIntent`, `confirmPayment`, `processSuccessfulPayment`, `handleWebhook`, `handleSnapshotCleanup`, `handleOrphanedPaymentRecovery` | three callers race for one payment; duplicated and late events; row locks and deadlocks; expiry against a late payment; crashes | one order per captured payment, within stock, with its own number; every captured payment becomes an order |
| Orders (`orders.service.ts`) | `orders.status`, items | `createOrder`, `updateStatus`, `cancelOrder` | no transaction in `createOrder`; cancellation against dispatch; refund failure swallowed | stock goes back once; a cancelled paid order is refunded |
| Shipments (`shipments.service.ts`) | `shipments.status`, log | `createShipment`, `updateStatus` | two updates validated against one old status; a note saves the whole row | only the listed transitions |
| Inventory (`inventory.service.ts`, `inventory-plus`) | `inventories`, adjustments, alerts | `create`, `update`, `adjust`, `reserve`, `release`, `remove`, `adjustStock`, alerts | read-then-save without locks beside code that locks | available = quantity less reserved; no lost update; the rows say what orders and staff have moved |
| Purchasing (`purchase-order.service.ts`, `goods-receipt.service.ts`) | purchase orders, receipts | create, update, approve, cancel, receive | concurrent receipts; status written over a cancellation; a receipt that stops half-way | never more received than ordered; stock, lines and receipts agree |
| Returns (`return.service.ts`) | `return_requests`, items, reverse shipments | create, approve, reject, pick up, receive, verify, refund, complete | unguarded transitions; refund twice; restock twice | one refund and one restock per returned item |
| Coupons (`coupons-promotions`) | `coupons`, `coupon_usages` | validate, record usage | checked at checkout, counted at payment | limits hold |
| Cart (`cart.service.ts`) | `carts`, `cart_items` | add, update, remove, clear | totals recomputed from reads; an order empties a cart that has changed | an order is charged for its lines; no line is lost but a late one |
| Reviews (`reviews.service.ts`, `review-helpful-vote.service.ts`) | `reviews`, votes, ratings of the product | create, update, approve, reject, hide, remove, vote | whole rows saved from memory; ratings read, then written; a vote and its count apart | ratings follow the visible reviews; what was taken down stays down |
| Authentication (`auth.service.ts`) | refresh tokens, one-time passwords | refresh, send, verify | token used twice; attempts counted | a token is used once |
| Catalogue (`products.service.ts`) | `products`, variants; it also writes `inventories` and the ratings of `products` | create, update, publish, archive, `syncVariants` | stock quantities set absolutely from rows read without a lock; products, with their ratings and their stock rows, saved whole from memory; stock rows deleted | the rows of other components survive |
| Content, reports, notifications and the rest | rows of their own | create, read, update, delete | none shared between operations | validation |

Interactions: the refund engine is called by the administrator's payment page,
by `cancelOrder` and by `processRefund` of returns. The checkout pipeline is
called by the browser, by the webhook and by the recovery job; it deducts the
stock that inventory, cancellations, returns, goods receipts and the products
service also write. The products service also saves the ratings that reviews
maintain.
`updateStatus` of an order drives its shipment and the other way round.

## 2. Modules

| Module | Models |
|---|---|
| `Money` | sums over the rows of a table, as cardinalities |
| `Refunds` | `createRefund`, its callers, Postgres and Stripe |
| `RefundLedger` | what the refund engine promises: one promise per key, then settled or withdrawn, for good unless the key is shared |
| `Checkout` | the snapshot flow of the checkout, both cron jobs, the webhook, Stripe |
| `Sales` | what the checkout promises: a paid checkout is sold at most once, and out of real stock unless it repeats a variant |
| `OrderLifecycle` | `cancelOrder` and both `updateStatus`, composed with `Refunds` |
| `Returns` | return requests from creation to refund and restock, composed with `Refunds` |
| `Stock` | the rows of `inventories` and all their writers |
| `Carts` | carts, their totals, and the orders taken from them |
| `PurchaseOrders` | purchase orders and goods receipts, with repeated variants |
| `Reviews` | reviews, moderation, votes, ratings and all who write them |
| `MC...` | small instances for TLC, one for each machine |
| `RefundsProofs`, `CheckoutProofs`, `OrderLifecycleProofs`, `ReturnsProofs`, `StockProofs`, `CartsProofs`, `PurchaseOrdersProofs`, `ReviewsProofs` | proofs, one module for each machine |

One convention runs through the modules: a handler is cut at every `await` that
another client can use, so that one action is what the code does between two
waits. A call that works on an entity it has loaded keeps it in `copy`, and a
save writes the copy whole, because TypeORM writes every column in which the
entity differs from the row. Properties of code without locks have to say when
they may fail; the history variables (`raced`, `behind`, `drifted`, `hurried`,
`broken`, `shared`, `lapped`, `revived`, `struck`, `adrift`) record exactly the calls
or rows on which such a thing has happened, and no action reads them. A property of
this kind excludes every other cause: it is broken by a bug that loses an update
without a race. Where a race itself contradicts what the repository says of the code,
a run of its own shows it (`refund_replay`, `checkout_number`, `checkout_orphan`).

### Refunds

Tables are functions: `payment[p]` is `payments.status`; `refund[k]` is the row
of `payment_refunds` with the unique `idempotency_key` k; `stripe[k]` is what
Stripe refunded under k. A request is a value of `pc` between two waits of
`createRefund`:

| Action | Code (`refunds.service.ts`) |
|---|---|
| `Check` | 45-77: the row of the key, conflict, replay, resume or reserve |
| `Reserve` | 75-137: transaction 1 under the lock of the payment, unique index included |
| `Send`, `StripeAccepts`, `StripeRejects`, `Answered`, `CallFails` | 139-153: the call; Stripe may handle it after the caller gave up |
| `MarkFailed` | 153-160: the catch block saves the entity it holds |
| `Finalise`, `Commit` | 162-197: transaction 2, its unlocked reads apart from its commit |
| `Crash` | any step lost; an open transaction is rolled back |

Data left out: reasons, logs, mail, and the rounding of floating-point sums
(amounts are whole cents). Nothing in the code keeps two requests of one key apart:
an administrator may repeat an `idempotencyKey`, a caller may retry before its first
call has ended, and two cancellations of one order that race share
`cancel_order_<id>`. The model lets them run, and `shared` remembers the keys that two
requests have run at once, `lapped` the payments that two requests have finalised at
once. For a key that is not shared the engine keeps its promises. For one that is, the
catch block of one request (155) frees, or takes back, the row another is refunding or
has completed: two requests of one key can then reserve more than the price, and a
refund that was answered as done says FAILED, which `refund_replay` shows. Two refunds
that together make up the price and finalise at once can leave the payment
PARTIALLY_REFUNDED, because each computes the status without the other; a retry of a
FAILED key meets the unique index and is never sent.

### Checkout

`status`, `items`, `late` are columns of `checkout_snapshots`; `intent` and
`declined` belong to Stripe; `timeline` holds the orders and the open
transactions in the order in which they began, which is the order of
`orders.created_at` (Postgres' `now()` is the start of the transaction). A snapshot
has a line for each row of `cart_items`; nothing stops a cart from having two rows of
one variant, each of which is checked alone. A process of `Requests \cup {Cron}` is in one run of `processSuccessfulPayment`:

| Action | Code (`payments.service.ts`; cron: `checkout-cron.service.ts`) |
|---|---|
| `CreateSnapshot`, `SaveIntent` | 135-329 `createPaymentIntent` |
| `Pay`, `Decline` | Stripe |
| `PaymentFailed`, `Ack` | 642-694 `handleWebhook` |
| `Request` | 401-414, 642-666: a confirmation or a delivery enters the pipeline |
| `Lookup`, `Load`, `SaveExpired`, `SaveProcessing` | 419-468 |
| `BeginTx`, `LockRow`, `BreakDeadlock` | 470-485: rows locked and checked line by line, in the order of the snapshot's items |
| `ReadNumber` | 792-811 `generateOrderNumberInTx` |
| `LockCoupon` | 562-569: the coupon is locked and its count read |
| `Commit`, `CommitFails` | 488-640: order, items, stock line by line, snapshot, the coupon's count, payment, cart, and the unique indexes |
| `Cleanup` | cron 32-54 |
| `CronStart`, `CronNext` | cron 59-114 |
| `Expire`, `FillCart`, `Crash` | the clock, the customer, the operating system |

Data left out: prices, taxes, addresses and the nearest warehouse; the rows
written with the order in the same transaction (items, payment, coupon usage,
shipment) appear with it and have no variable of their own. The status `PAID` of
a snapshot is never written by the code and is not a value of `status`. The
branch of the recovery job that saves `FAILED` is not modelled because it cannot
be reached: a snapshot is saved as PAYMENT_PROCESSING only by a pipeline that has
seen the payment captured (411-414), and a captured intent stays captured.
Numbers are those of one day. `Sales` forgets requests, locks and numbers in
between: it knows which checkouts are paid, what was sold, and what is in stock. It
lets a checkout be sold beyond the stock in one case only: it lists a variant more
than once, and each of its lines is in stock.

### OrderLifecycle

`order`, `shipment` are the status columns; `returned` counts how often the units
of an order went back to `inventories`, which `cancelOrder` does for all items of
the order in one transaction. A call of `Cancels` is one `cancelOrder`; one of
`Staff` is one `updateStatus`, of an order or of a shipment; `behind` records the
staff calls whose shipment was saved by another since they read it. The refund of a cancellation is a request of an
instance of `Refunds`, with the key `cancel_order_<id>` and the whole amount:
`RefundOrder` and `Stripe` take the steps of that module and nothing else does.

| Action | Code (`orders.service.ts`; shipments: `shipments.service.ts`) |
|---|---|
| `ReadOrder` | 570-622: the unlocked read and the checks of a customer |
| `Restore`, `RestoreFails` | 624-656: the transaction |
| `RefundOrder`, `Stripe` | 655-676: `createRefund`, whose errors are only logged |
| `EditOrder`, `SyncShipment` | 478-526: `updateStatus` of an order |
| `EditShipment`, `Validate`, `Relay`, `SaveShipment` | shipments 269-315: `updateStatus` of a shipment |
| `AnnotateShipment` | the same call with notes and no status, which saves the shipment as it read it |
| `Crash` | any step lost |

Data left out: mail, push, tracking logs, dates. `orders.payment_status` is a
constant (`Paid`), because nothing writes it after the order is created. An
order number instead of an id makes the transaction of `cancelOrder` fail, which
is one of the causes of `RestoreFails`; the 24-hour window of a customer may end
at any time. `updateStatus` saves any status over any other: CANCELLED, which returns
neither units nor money, and any status over CANCELLED, which makes an order that can
be cancelled and restocked again. `revived` counts the latter; `struck` records the
cancellations between whose read and transaction `updateStatus` cancelled the order.
`OrderEdits` bounds what staff save by hand.

### Returns

`request[r]` is a row of `return_requests` with its items, of which only the status,
the refunded total and the damage found are kept. A call of `Calls` is one handler
(`job`) about one return; `Returns` are the calls of `create`.

| Action | Code (`return.service.ts`) |
|---|---|
| `Check`, `Insert` | 59-134 `create`: look for a return of the order, insert one |
| `Load`, `Save` | every other handler: `findOne`, the check of the status if it has one, `save` with the items |
| `SaveItems` | 596-682: the items of `verifyItems` and `processRefund` |
| `Pay`, `Stripe`, `PayEnds` | 685-708: `createRefund` with a new key, its error written to the audit only |
| `Restock` | 714-721, item by item; it may stop at any item, and its error is swallowed |
| `Ship` | 771-829 `updateShipmentStatus`, reached from `markInTransit` and `markDelivered` |
| `Crash` | any step lost |

`schedulePickup` creates a reverse shipment and never saves it, so it leaves the
tables as the other checked calls do; `ReverseLogisticsService.updateStatus` is
called by nothing. Data left out: quantities and reasons of the items, images, mail.

### Stock

`row[v]` holds the id and the three counts of an inventory row. Each of its writers is
a process: `Carts` (`createOrder`: check all lines, save the order, then read and
save each row without a lock), `Prepaid` (the transaction of
`processSuccessfulPayment`), `Cancels` (that of `cancelOrder`), and `Staff`, one
call of any other endpoint (`Edited` says what each makes of the row it read,
`Accepts` when it refuses, `Inserts` which insert a missing row). Two lines of an order
may be of one variant. `booked` and `taken` are books kept beside the rows; `raced` says
who wrote over what, `adrift` which orders had their status changed without their units.

| Action | Code |
|---|---|
| `OpenCart`, `CheckLine`, `PlaceOrder`, `ReadLine`, `TakeLine`, `SaveItems` | `orders.service.ts` 114-304 |
| `BeginSale`, `LockLine`, `CommitSale`, `RollBack` | `payments.service.ts` 470-555 |
| `BeginCancel`, `LockLine`, `CommitCancel`, `RollBack` | `orders.service.ts` 624-653 |
| `Relabel` | `orders.service.ts` 478-493: CANCELLED saved by hand, or another status over it |
| `ReadRow`, `InsertRow`, `SaveRow` | `inventory.service.ts` 80-102, 287-430; `inventory-plus.service.ts` 211-242; goods receipts; `return.service.ts` 830-840; `products.service.ts`, see below |
| `RemoveRow` | `inventory.service.ts` 278-285, `products.service.ts` 1094 |
| `Crash` | any step lost |

The kinds of edit for `products.service.ts`: `set` is `update` of a product with a
stock quantity (553-571), `sync` is `syncVariants` (976-1016), which first saves the
variant, with the row as it was read, and then the row; both set the quantity and cut what
is available off at zero. `resave` is a product saved with its variants and their rows
(456, 655, 667). Rows of new variants (162, 538, 907, 1062) are rows no other call knows,
and are among the openings.

Data left out: warehouses, adjustment records, alerts.

### Carts

`total[k]` stands for `subtotal` and `total_items`, which are computed from the
same lines and written together; a unit costs one. `Adds` are calls of `addItem`
and name the cart and the line they insert: nothing in the code stops two first
calls from inserting two carts.

| Action | Code (`cart.service.ts`) |
|---|---|
| `FindOrCreate`, `CreateCart`, `SaveAdd` | 46-107 `addItem`, 190-201 |
| `FindLine`, `SaveLine` | 109-147 `updateItem`, `removeItem` |
| `Sum`, `Write` | 175-188 `recalculateCart`: the lines read, then the total written |
| `Clear`, `Zero` | 150-166 `clearCart`, and the same two steps of `createOrder` (orders 310) |
| `Take`, `Place` | `createOrder` (orders 121-254), `createPaymentIntent` (payments 149-192) |
| `Commit` | `processSuccessfulPayment` (payments 603-616): the cart it finds by then is emptied |

`clearCart` saves the cart together with lines it has just removed. What the ORM
then does with them is not settled by the code, so `Zero` has both outcomes.

### PurchaseOrders

`line` is indexed by the item of the request that inserted it, because `update` replaces
all lines of a draft and an order may list a variant twice. A receipt finds the first
line of a variant in the rows as they came (`FirstLines`), so the other is never booked. `item` and `added` are what a receipt has recorded and what it has put
into the stock.

| Action | Code (`purchase-order.service.ts`; receipts: `goods-receipt.service.ts`) |
|---|---|
| `Create` | 45-87: the order as DRAFT, its lines, the order again with its total |
| `Update` | 128-169: of a DRAFT, lines deleted, then inserted |
| `Decide`, `SaveStatus` | 181-203 `approve`, `cancel` |
| `Deliver`, `BookItem`, `SaveLine`, `AddStock` | receipts 50-121 |
| `ReadStatus`, `SaveStatus` | 206-222 `updateStatusOnReceive` |
| `Crash` | any step lost, or refused by the ORM |

Data left out: suppliers, prices and totals. Nothing writes CLOSED.

### Reviews

`Reviews` are the calls of `create` and the rows they insert; a call of `Calls` is one
other handler, chosen when it loads its row.

| Action | Code (`reviews.service.ts`; votes: `review-helpful-vote.service.ts`) |
|---|---|
| `Look`, `Insert` | 55-108 `create`, with the unique index on the order item |
| `Load`, `Save` | `update`, `approve`, `reject`, `hide`: 164-220 |
| `Remove` | 185-191, a soft deletion |
| `Vote`, `Unvote`, `Count` | votes 20-50 |
| `Aggregate`, `WriteRating` | 231-271 `recalculateProductRating` |
| `LoadProduct`, `SaveProduct`, `GiveUp` | `products.service.ts` 395-456, 646-672: `update`, `publish`, `archive` save the product as loaded, ratings included |
| `Crash` | any step lost |

A new review is APPROVED at once and an approved one may be edited, although
`docs/phase10.md` 289 and 292 say PENDING and no edits: the module follows the code.
Data left out: text, images, reports.

## 3. What the runs show

| Run | Distinct states | Result |
|---|---|---|
| `refunds` | 113,892 | types, `CompletedIsPaidBack`, `CompletedWithinPrice`, `ReservedWithinPrice`, `StatusFollowsRows`, `AnsweredRefundsStand`, refinement of `RefundLedger`, and under fairness `ReservationsSettle` |
| `refund_replay` | | violated `AnsweredRefundsAreReplayed`: a repeated call is refused although its refund was made and answered |
| `checkout_books` | 1,391,583 | types, `CouponCountsOrders`, refinement of `Sales` |
| `checkout_race` | 156,506 | `UsedHasOrder`, `HandledHasOrder`, and under fairness `ProcessingIsRecovered`, `SoldIsClosed` |
| `checkout_orphan` | | violated `OrphansAreRecovered`: an interrupted pipeline leaves a captured payment without an order for good |
| `checkout_number` | | violated `NextNumberIsFree`: the generator hands out an order number that is taken |
| `order_cancel` | 1,668,170 | types, `RestocksFollowRevivals`, `RefundFollowsRestock`, `RefundedInFull`, `OnlyRacesBreakTransitions` |
| `stock` | 1,027,063 | types, `UnitsFollowOrders`, `StockErrsInKnownWays` |
| `returns` | 2,494,894 | `GoodsFollowMoney`, `RefundsWithinPayment`, `SecondReturnIsRaced`, `ClosedIsReopenedByHand`, `DamageStands` |
| `purchase_orders` | 3,411,763 | types, `LineWithinOrder`, `BooksAgree`, `StatusIsEarned`, `CancelledIsReopenedByRace` |
| `reviews` | 787,608 | `RatingsFollowReviews`, `TakenDownStays`, `OnlyRacesMiscount` |
| `carts` | 2,515,929 | types, `TotalFollowsLines`, `ChargedForItsLines`, `OnlyLateLinesAreLost` |

Bounds, and why they are enough.

* `refunds`: two payments, two keys and four requests: two with one key and one amount,
  one that reuses that key for another payment, which was never collected, and one that
  asks for all that remains. So a key is retried, run twice at once, and run twice with a
  third request in between. `refund_replay` needs three requests of one key.
* `checkout_books`: two snapshots of one user with the same two variants, one of which
  lists one of them twice, with the lines read in any order, which gives the row-lock
  races, the deadlock and the sale beyond the stock; two units of each variant, which also
  gives the failed check; one use of the coupon; two requests, the cron job and one
  crash. Two checkouts that start before either is paid exceed the limit of the coupon
  here (`MaxUses` is 1): the limit is read at the start and not again. The property is
  that the count is right, not that the limit holds.
* `checkout_race`: three snapshots of one variant, of which the first may outlast its
  session and the third may be declined; two requests, the cron job, one crash. It starts
  from two states that three checkouts reach, because the way to them alone takes more
  states than the rest: `MCPaidInit`, from one unit, with two snapshots paid and a third
  expired unpaid; and `MCTakenInit`, from three units, with two sold out of the order of
  their numbers, as `checkout_number` shows, one of them put back by a stale save, and a
  third checkout to be paid. In the first, two candidates compete for one unit, and the
  loser is stuck; in the second there is stock but the next number is taken, so a
  captured payment cannot be sold. `Take` is 1 where the code has 50, so one stuck
  candidate fills the job and hides the others. The liveness properties name these
  cases, and no other.
* `order_cancel`: one order, because cancellations of different orders meet only in row
  locks (`RestoreFails`); two cancellations, which is what shares a key; two members
  of staff, which is what it takes to save over a shipment, to revive a cancelled order
  before the second cancellation, and to save CANCELLED between the read of a
  cancellation and its transaction.
* `stock`: one process of each kind of writer and two cancellations on two rows, with two
  lines of one variant in both orders, so that every pair of writers meets, a cancelled
  order can be revived and cancelled again, and lines checked one by one exceed a row;
  four openings: plenty, one unit each, reserved units, a missing row.
* `returns`: two requests of one order, three calls of any handler about the first, an
  order of two cents and refunds of one, so that a third refund must be refused.
* `purchase_orders`: one order with two lines of one variant and one of another, of which
  one has no stock row, an update, an approval, a cancellation, and two receipts, one with
  two items of the repeated variant. Calls of different orders share nothing but stock
  rows, which is the subject of `Stock`.
* `reviews`: two reviews of one order item and one without, two calls of one user about the
  first, two updates of the product. Ratings have one value, because an average is
  computed from the same counts. A third call is beyond a run of minutes; the theorems
  have no such bound.
* `carts`: two units of one variant, two calls of `addItem`, which can make two carts, one
  edit, one order and one checkout.

Deadlock is not checked where calls come to an end (`CHECK_DEADLOCK FALSE`).
`MaxCrashes`, `Slow`, `Declinable`, `OrderEdits`, `Edits`, `Openings` and `Counts` bound what
the environment may do and are named in the modules. Symmetry is used over calls
that no constant tells apart, and in no run with a liveness property.

Fairness. `FairSpec` of `Refunds` is weak fairness of each request's own steps:
the event loop runs ready continuations and the HTTP client ends a call with an
answer or a timeout. `FairSpec` of `Checkout` adds weak fairness of the recovery
job, which a scheduler starts every 15 minutes. Nothing is assumed of Stripe, of
customers or of webhook deliveries.

## 4. What is proved

Proofs hold for every finite set of rows and any processes, prices and requests
that satisfy the `ConstantsAssumption` of the module; `RefundsAssumption` proves
that of `Refunds` for its instances in `OrderLifecycle` and in `Returns`. A module
that adds up rows starts with the facts about sums it needs: adding, removing,
changing, splitting and comparing rows. `PROJECT.json` lists the theorems. Every
safety and action property of the passing runs, the refinements of `RefundLedger` and
`Sales` included, is stated by one of them.

* `RefundsProofs`: `TypeCorrect`, `CompletedRowsArePaidBack`,
  `CompletedRefundsWithinPrice`. `CompletedIsPaidBack` is not inductive: a request
  that is about to complete a row must be known to have been paid under its key.
  The invariant adds that an `ok` answer and every later stage of a request imply
  the refund at Stripe, that a row once written keeps its payment and amount,
  and that Stripe never refunds beyond the charge. The bound on completed rows
  then follows because they are a part of Stripe's refunds.
* `RefundsProofs` too: `ReservationsWithinPrice`, `PaymentStatusFollowsRows`,
  `AnsweredRefundsAreFinal`, `RefundsImplementLedger`, with no assumption on the callers.
  `ControlInv` adds that at most one request runs a key that is not shared, that a
  request of such a key past its reservation finds its row PROCESSING, so that nobody
  frees the amount of a refund that still completes, and that of a payment that is not
  `lapped` one request at a time is in phase 3; `MoneyInv` that the rows of a payment
  whose keys are not shared stay within its price, and that the status it has, or is
  about to get, is the one they call for. Each step of a request is then a promise, a
  settlement, a withdrawal, a sharing or a stutter of `RefundLedger`.
* `CheckoutProofs`: `TypeCorrect`, `UsedIsSold`, `HandledIsSold`, `CouponIsCounted` and
  `Implementation`, which is all the runs check of the checkout but its liveness. The
  invariant `Core` says that the items of a snapshot are its lines in some order, that
  a process in the pipeline works on a captured payment, and that an open transaction
  is in the timeline exactly once; `Closed` that a process about to acknowledge an event
  has its order; `Locks` that no row is held twice and that what a process has found
  enough under its lock still is; `CouponLock` that a process between the read of the
  coupon's count and its save is the only one there, and has read the count as it is. The commit of a sale is then a step of `Sales`
  because the rows it takes from are locked by it alone and each line was found in stock,
  and because the unique indexes leave each checkout one sale; every other step changes nothing `Sales` sees,
  or is a payment.
* `OrderLifecycleProofs`: `TypeCorrect`, `RestocksAreCounted`, `CancelledIsRefundedWhole`,
  `TransitionsBreakByRace` and `MoneyFollowsStock`, whatever statuses staff save. `RefundsRun` shows that the life of an order runs the
  specification of `Refunds` (`Spec => Theory!Spec`), so that `TypeCorrect` and the
  invariant `BackInv` of `RefundsProofs` carry over to it; on top of them, an order
  was restocked at most as often as it was revived, and once more when it is cancelled
  (`RestocksCovered`); a call about to refund has restocked its order, found it
  restocked, or found it cancelled by `updateStatus` (`RestoredFirst`); a refund row is
  about the whole amount (`WholeRows`); and a staff call that nobody overtook still finds
  the status it validated (`Validated`).
* `StockProofs`: `TypeCorrect`, `UnitsFollow`, `KnownErrors`. `Shape` says which lines
  an order has taken at each of its stages, that a cancellation holds or still seeks all
  rows of its order, which nobody else changes meanwhile, and which row a copy is of.
  `Fresh` says that a call nobody overtook still finds enough, and has in its copy the row
  as it is. The save of such a call, like the commit of a transaction under its locks,
  moves the row and the books by the same units, unless Math.max cuts it off: and that
  needs lines that were checked one by one or a quantity below the reservation.
* `PurchaseOrdersProofs`: `TypeCorrect`, `ReceivedWithinOrdered`, `ReopenedByRace`,
  `BooksAlwaysAgree`, `StatusAlwaysEarned`. The first bound needs that the copy of a
  receipt is within the order as well (`CopyWithinOrder`). The books need, for an
  order without races, that one receipt books at a time, that its copy is equal to the
  rows but for the line it is about to save, and that the sums of received, delivered
  and stocked units differ by what that receipt has still to write (`OrderInv`).
* `CartsProofs`: `TypeCorrect`, `TotalAlwaysFollows`, `OrdersChargedForLines`, `OnlyLateLines`.
  The invariants say that a line stays in one cart, which exists (`Shape`), and that a
  call that was not overtaken knows the lines of its cart and, once it has summed
  them, their total (`Known`); the price of an order is then that of its lines (`Priced`).
* `ReturnsProofs`: `TypeCorrect`, `RefundsStayWithinPayment`, `ReturnsKeepLedger`,
  `GoodsFollow`, `SecondReturnRaced`, `ReopenedByHand`, `DamageStays`. `RefundsRun` shows
  that the returns run the specification of `Refunds` with a key for each call, so that no
  key is ever shared, and the bound on the refunds of an order and the ledger carry over.
  `RefundInv` adds to the invariants of `RefundsProofs` that the row of a call has its own
  amount and is COMPLETED exactly when `createRefund` answered so; a call past its refund
  therefore has it in the tables or in the audit (`Recorded`), and a restock ends one
  such call (`Restocks`). For the requests themselves, `HandlerInv` says that a call which
  nobody overtook still has in its copy the row as it is, in a status its handler
  accepts, and that such a call of `create` still finds no other return of the order:
  a closed return is reopened, damage taken back and a second return made by others only.
* `ReviewsProofs`: `TypeCorrect`, `RatingsFollow`, `TakenDown`, `RacesMiscount`. `ReviewInv`
  says that a call nobody overtook has in memory the row as it is but for its own
  edit, a vote that is still there, and the ratings as they are (`Holding`, `Fresh`).
  `UpToDate` then says of each product that its ratings are right, owed by a call, or
  `drifted`; and `Balanced` that the helpful count of a review plus what the calls between
  vote and count still add or take is the number of its votes. An update that holds a
  product is known to hold its ratings as they are unless it was overtaken.

Only model-checked: the liveness properties `ReservationsSettle`,
`ProcessingIsRecovered` and `SoldIsClosed`, since liveness under fairness is out of the
prover's reach.

## 5. Plan

Done: `Refunds` with `RefundLedger`, `Checkout` with `Sales`, `OrderLifecycle`, `Stock`,
`PurchaseOrders`, `Carts`, `Returns` and `Reviews`, each with runs and proofs.

Worth adding next, in this order: the order-first flow of the checkout; one-time
passwords and refresh tokens; per-user coupon limits; stock alerts.

## 6. Not modelled

* The order-first flow of `createPaymentIntent` (`payments.service.ts` 331-398). The
  pipeline knows it only by a missing `snapshotId`. What goes wrong in it goes wrong in
  one sequential call: the PENDING payment it saves has the intent that the pipeline
  then gives to a second payment, under a unique index.
* The rules of coupon validation (dates, minimum amounts, per-user limits, stacking):
  arithmetic over rows that are read once. Only the usage limit and its count are
  shared state, and they are in `Checkout`.
* The rows of the wishlist. `moveToCart` and `saveForLater` act on the cart as `addItem`
  and `removeItem` do; what the ORM does with softly removed rows that are saved again
  is not settled by the code.
* Authentication: refresh tokens and one-time passwords are rows of one user each and
  have no part in money or stock.
* Stock alerts, suppliers and analytics of
  `inventory-plus`; images and reports of reviews.
* Components that create, read, update and delete rows of their own behind validation
  (content, users, roles, addresses, support, and the catalogue but for the stock rows and
  ratings it writes), reports and dashboards that
  only read, mail, SMS and push, file storage, migrations and seeds, and the arithmetic
  of charges and taxes. They are most of the lines of the repository and share no state
  between operations, which is why the modules map a small part of its lines.

`PROJECT.json` lists every component with its reason.
