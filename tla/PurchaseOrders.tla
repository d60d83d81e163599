--------------------------- MODULE PurchaseOrders ---------------------------
(***************************************************************************)
(* Purchase orders and the receipt of their goods.                         *)
(*                                                                         *)
(*    create    save the order as DRAFT, then its lines, then the order    *)
(*              again with its total, as it was in memory                  *)
(*    update    of a DRAFT: delete the lines, then insert the new ones     *)
(*    approve, cancel    read the order, check its status, save it         *)
(*    receive   read the order and its lines once; then for each item of   *)
(*              the delivery find the first line of its variant, check it  *)
(*              against the line as read, insert it, save the line, add    *)
(*              the units to the stock; in the end read the order again    *)
(*              and save the status its lines call for                     *)
(*                                                                         *)
(* The items of an order, and those of a delivery, may repeat a variant.   *)
(*                                                                         *)
(* No call has a transaction, and other clients run at every wait.         *)
(***************************************************************************)
EXTENDS Money, Integers

CONSTANTS
  Purchases,    \* calls of create, and the orders they insert
  Updates, Approvals, Cancels, Receipts,     \* the other calls
  PurchaseOf,   \* the order a call is about
  Items,        \* the items of the DTOs of create, update and receive
  CallOf,       \* the call an item belongs to
  VariantOf,    \* its variant
  UnitsOf,      \* the units it orders, or delivers
  Tracked       \* the variants that have a row in inventories

PurchaseOrderStatus ==
  {"DRAFT", "APPROVED", "PARTIALLY_RECEIVED", "RECEIVED", "CLOSED", "CANCELLED"}
Writers == Purchases \cup Updates
Calls == Updates \cup Approvals \cup Cancels \cup Receipts
Processes == Purchases \cup Calls
LineIds == {i \in Items : CallOf[i] \in Writers}
Goods == {i \in Items : CallOf[i] \in Receipts}
Variants == {VariantOf[i] : i \in Items}
Line == [ordered : Nat, received : Nat]
NoLine == [ordered |-> 0, received |-> 0]

ASSUME ConstantsAssumption ==
  /\ IsFiniteSet(Processes) /\ IsFiniteSet(Items)
  /\ Purchases \cap Calls = {}
  /\ Updates \cap (Approvals \cup Cancels \cup Receipts) = {}
  /\ Approvals \cap (Cancels \cup Receipts) = {} /\ Cancels \cap Receipts = {}
  /\ PurchaseOf \in [Calls -> Purchases]
  /\ CallOf \in [Items -> Writers \cup Receipts]
  /\ DOMAIN VariantOf = Items
  /\ UnitsOf \in [Items -> Nat \ {0}]

VARIABLES
  status,       \* purchase_orders.status; "NONE" before the insert
  line,         \* purchase_order_items, by the item they were made from
  item,         \* goods_receipt_items: the units, by item of a delivery
  added,        \* units added to inventories for an item
  stage,        \* where a call is
  rest,         \* the items a delivery has still to book
  at,           \* the item a delivery is booking, and the line for it
  copy,         \* the lines a delivery has read and may find
  target,       \* the status a call is about to save
  raced,        \* history: calls whose order was changed while they ran
  broken        \* history: deliveries that ended with a line not saved

tables == <<status, line, item, added>>
calls == <<stage, rest, at, copy, target>>
history == <<raced, broken>>
vars == <<tables, calls, history>>

Of(p) == IF p \in Purchases THEN p ELSE PurchaseOf[p]
ItemsOf(c) == {i \in Items : CallOf[i] = c}
OrderOf(i) == Of(CallOf[i])
LinesOf(o) == {l \in LineIds : OrderOf(l) = o /\ line[l].ordered > 0}

Init ==
  /\ status = [o \in Purchases |-> "NONE"]
  /\ line = [l \in LineIds |-> NoLine]
  /\ item = [i \in Goods |-> 0]
  /\ added = [i \in Goods |-> 0]
  /\ stage = [p \in Processes |-> "idle"]
  /\ rest = [g \in Receipts |-> {}]
  /\ at = [g \in Receipts |-> <<>>]
  /\ copy = [g \in Receipts |-> line]
  /\ target = [c \in Calls |-> "NONE"]
  /\ raced = {}
  /\ broken = {}

Goto(p, next) == stage' = [stage EXCEPT ![p] = next]

(* The other calls that have begun with the order and are not done with it. *)
Busy(p) == {c \in Processes \ {p} : Of(c) = Of(p) /\ stage[c] \notin {"idle", "done"}}
Changed(p) == raced' = raced \cup Busy(p) /\ UNCHANGED broken
-----------------------------------------------------------------------------
InsertLines(p) ==
  /\ line' = [l \in LineIds |->
                IF l \in ItemsOf(p) THEN [ordered |-> UnitsOf[l], received |-> 0] ELSE line[l]]
  /\ Changed(p)
  /\ Goto(p, IF p \in Purchases THEN "total" ELSE "done")
  /\ UNCHANGED <<status, item, added, rest, at, copy, target>>

Create(o) ==
  \/ /\ stage[o] = "idle"
     /\ status' = [status EXCEPT ![o] = "DRAFT"]
     /\ Goto(o, "lines")
     /\ UNCHANGED <<line, item, added, rest, at, copy, target, history>>
  \/ stage[o] = "lines" /\ InsertLines(o)
  \/ /\ stage[o] = "total"
     /\ status' = [status EXCEPT ![o] = "DRAFT"]
     /\ Changed(o)
     /\ Goto(o, "done")
     /\ UNCHANGED <<line, item, added, rest, at, copy, target>>

Update(u) ==
  LET o == PurchaseOf[u]
  IN  \/ /\ stage[u] = "idle" /\ status[o] # "NONE"
         /\ Goto(u, IF status[o] = "DRAFT" THEN "delete" ELSE "done")
         /\ UNCHANGED <<tables, rest, at, copy, target, history>>
      \/ /\ stage[u] = "delete"
         /\ line' = [l \in LineIds |-> IF l \in LinesOf(o) THEN NoLine ELSE line[l]]
         /\ Changed(u)
         /\ Goto(u, "lines")
         /\ UNCHANGED <<status, item, added, rest, at, copy, target>>
      \/ stage[u] = "lines" /\ InsertLines(u)
-----------------------------------------------------------------------------
(* Mutant of Accepted: a cancelled order can be approved.                  *)
AcceptedMutant(c) == IF c \in Approvals THEN {"DRAFT", "CANCELLED"}
                     ELSE PurchaseOrderStatus \ {"CLOSED", "CANCELLED"}

(* approve and cancel: the statuses they accept, the status they save.     *)
Accepted(c) == IF c \in Approvals THEN {"DRAFT"}
               ELSE PurchaseOrderStatus \ {"CLOSED", "CANCELLED"}

Decide(c) ==
  LET o == PurchaseOf[c]
  IN  /\ stage[c] = "idle" /\ status[o] # "NONE"
      /\ \/ /\ status[o] \in Accepted(c)
            /\ target' = [target EXCEPT ![c] = IF c \in Approvals THEN "APPROVED" ELSE "CANCELLED"]
            /\ Goto(c, "save")
         \/ /\ status[o] \notin Accepted(c)
            /\ Goto(c, "done")
            /\ UNCHANGED target
      /\ UNCHANGED <<tables, rest, at, copy, history>>

Open(o) == status[o] \in {"APPROVED", "PARTIALLY_RECEIVED"}

(* Lines of an order, one of each variant: those that find may return, as  *)
(* the rows come in no particular order.                                   *)
FirstLines(o) ==
  {F \in SUBSET LinesOf(o) :
     /\ \A l \in LinesOf(o) : \E f \in F : VariantOf[f] = VariantOf[l]
     /\ \A f, h \in F : VariantOf[f] = VariantOf[h] => f = h}

(* receive: the order and its lines are read once.                         *)
Deliver(g) ==
  LET o == PurchaseOf[g]
  IN  /\ stage[g] = "idle" /\ status[o] # "NONE"
      /\ \/ /\ Open(o)
            /\ \E F \in FirstLines(o) :
                 copy' = [copy EXCEPT ![g] = [l \in LineIds |-> IF l \in F THEN line[l] ELSE NoLine]]
            /\ rest' = [rest EXCEPT ![g] = ItemsOf(g)]
            /\ Goto(g, "item")
         \/ ~Open(o) /\ Goto(g, "done") /\ UNCHANGED <<copy, rest>>
      /\ UNCHANGED <<tables, at, target, history>>

(* Mutant of Booked: the delivered units are taken off the count.          *)
BookedMutant(g, i, l) == copy[g][l].received - UnitsOf[i]

(* newReceived.                                                            *)
Booked(g, i, l) == copy[g][l].received + UnitsOf[i]

(* Mutant of Fits: only what came before must fit.                         *)
FitsMutant(g, i, l) == copy[g][l].received <= copy[g][l].ordered

Fits(g, i, l) == Booked(g, i, l) <= copy[g][l].ordered

(* The line that find returns for an item, if there is one.                *)
Read(g, i) ==
  {l \in LineIds : VariantOf[l] = VariantOf[i] /\ OrderOf(l) = Of(g) /\ copy[g][l].ordered > 0}

(* An item is checked against the copy and inserted; one that is not       *)
(* ordered, or too much, ends the call and leaves the items before it.     *)
BookItem(g) ==
  /\ stage[g] = "item"
  /\ \E i \in rest[g] :
       \/ \E l \in Read(g, i) :
            /\ Fits(g, i, l)
            /\ item' = [item EXCEPT ![i] = UnitsOf[i]]
            /\ copy' = [copy EXCEPT ![g][l].received = Booked(g, i, l)]
            /\ rest' = [rest EXCEPT ![g] = @ \ {i}]
            /\ at' = [at EXCEPT ![g] = <<i, l>>]
            /\ Changed(g)
            /\ Goto(g, "line")
       \/ /\ \A l \in Read(g, i) : ~Fits(g, i, l)
          /\ Goto(g, "done")
          /\ UNCHANGED <<item, copy, rest, at, history>>
  /\ UNCHANGED <<status, line, added, target>>

(* The line is saved as it was read, with the units added; a line deleted  *)
(* meanwhile is inserted again.                                            *)
SaveLine(g) ==
  /\ stage[g] = "line"
  /\ line' = [line EXCEPT ![at[g][2]] = copy[g][at[g][2]]]
  /\ Changed(g)
  /\ Goto(g, "stock")
  /\ UNCHANGED <<status, item, added, rest, at, copy, target>>

(* Mutant of AddStock: the whole count of the line is added to the stock.  *)
AddStockMutant(g) ==
  LET i == at[g][1]
  IN  /\ stage[g] = "stock"
      /\ added' = IF VariantOf[i] \in Tracked
                    THEN [added EXCEPT ![i] = copy[g][at[g][2]].received] ELSE added
      /\ Goto(g, IF rest[g] = {} THEN "status" ELSE "item")
      /\ UNCHANGED <<status, line, item, rest, at, copy, target, history>>

AddStock(g) ==
  LET i == at[g][1]
  IN  /\ stage[g] = "stock"
      /\ added' = IF VariantOf[i] \in Tracked THEN [added EXCEPT ![i] = UnitsOf[i]] ELSE added
      /\ Goto(g, IF rest[g] = {} THEN "status" ELSE "item")
      /\ UNCHANGED <<status, line, item, rest, at, copy, target, history>>
-----------------------------------------------------------------------------
Ordered(o) == Total(LinesOf(o), [l \in LineIds |-> line[l].ordered])
Received(o) == Total(LinesOf(o), [l \in LineIds |-> line[l].received])

(* Mutant of StatusFor: anything received makes the order RECEIVED.        *)
StatusForMutant(o) ==
  CASE Received(o) = 0 -> status[o]
    [] OTHER           -> "RECEIVED"

StatusFor(o) ==
  CASE Received(o) = 0          -> status[o]
    [] Received(o) >= Ordered(o) -> "RECEIVED"
    [] OTHER                    -> "PARTIALLY_RECEIVED"

(* updateStatusOnReceive reads the order and its lines again ...           *)
ReadStatus(g) ==
  LET o == PurchaseOf[g]
  IN  /\ stage[g] = "status"
      /\ target' = [target EXCEPT ![g] = StatusFor(o)]
      /\ Goto(g, IF Received(o) = 0 THEN "done" ELSE "save")
      /\ UNCHANGED <<tables, rest, at, copy, history>>

(* ... and saves the status, as approve and cancel do, whatever it has     *)
(* become.                                                                 *)
SaveStatus(c) ==
  /\ stage[c] = "save"
  /\ status' = [status EXCEPT ![PurchaseOf[c]] = target[c]]
  /\ Changed(c)
  /\ Goto(c, "done")
  /\ UNCHANGED <<line, item, added, rest, at, copy, target>>

(* The process dies, or the ORM refuses the statement (as it does for an   *)
(* order whose lines were replaced since it was read).                     *)
Crash(p) ==
  /\ stage[p] \notin {"idle", "done"}
  /\ broken' = IF stage[p] = "line" THEN broken \cup {p} ELSE broken
  /\ Goto(p, "done")
  /\ UNCHANGED <<tables, rest, at, copy, target, raced>>
-----------------------------------------------------------------------------
Next ==
  \/ \E o \in Purchases : Create(o)
  \/ \E u \in Updates : Update(u)
  \/ \E c \in Approvals \cup Cancels : Decide(c)
  \/ \E g \in Receipts : \/ Deliver(g) \/ BookItem(g) \/ SaveLine(g)
                         \/ AddStock(g) \/ ReadStatus(g)
  \/ \E c \in Approvals \cup Cancels \cup Receipts : SaveStatus(c)
  \/ \E p \in Processes : Crash(p)

Spec == Init /\ [][Next]_vars
-----------------------------------------------------------------------------
(* Every variable keeps its type.                                          *)
TypeOK ==
  /\ status \in [Purchases -> PurchaseOrderStatus \cup {"NONE"}]
  /\ line \in [LineIds -> Line]
  /\ item \in [Goods -> Nat]
  /\ added \in [Goods -> Nat]
  /\ stage \in [Processes -> {"idle", "lines", "total", "delete", "item", "line",
                              "stock", "status", "save", "done"}]
  /\ rest \in [Receipts -> SUBSET Goods]
  /\ at \in [Receipts -> (Goods \X LineIds) \cup {<<>>}]
  /\ copy \in [Receipts -> [LineIds -> Line]]
  /\ target \in [Calls -> PurchaseOrderStatus \cup {"NONE"}]
  /\ raced \subseteq Processes
  /\ broken \subseteq Receipts

(* No line ever says that more was received than was ordered, however many *)
(* deliveries are booked at once: every one writes a count it has checked  *)
(* (receive; it is the count that is then lost).                           *)
LineWithinOrder == \A l \in LineIds : line[l].received <= line[l].ordered

(* As long as no call saves over a change it has not seen, the books of an *)
(* order agree, also when deliveries break off half-way: for each variant  *)
(* the stock has gained no more than the lines say, the lines say no more  *)
(* than was delivered, and no more was delivered than was ordered unless a *)
(* delivery broke off between its item and the line.                       *)
Unraced(o) == \A c \in raced : Of(c) # o
GoodsFor(o, v) == {i \in Goods : OrderOf(i) = o /\ VariantOf[i] = v}
LinesFor(o, v) == {l \in LinesOf(o) : VariantOf[l] = v}
BooksAgree ==
  \A o \in Purchases : Unraced(o) => \A v \in Variants :
    LET stocked   == Total(GoodsFor(o, v), added)
        received  == Total(LinesFor(o, v), [l \in LineIds |-> line[l].received])
        delivered == Total(GoodsFor(o, v), item)
        ordered   == Total(LinesFor(o, v), [l \in LineIds |-> line[l].ordered])
    IN  /\ stocked <= received /\ received <= delivered
        /\ delivered <= ordered \/ \E g \in broken : PurchaseOf[g] = o

(* An order is RECEIVED only when all of it is, and PARTIALLY_RECEIVED     *)
(* only when some of it is, unless a call saved over a change it has not   *)
(* seen (updateStatusOnReceive).                                           *)
StatusIsEarned ==
  \A o \in Purchases : Unraced(o) =>
    /\ status[o] = "RECEIVED" => Received(o) = Ordered(o)
    /\ status[o] = "PARTIALLY_RECEIVED" => Received(o) > 0

(* A cancelled order comes back only through a call that had read it       *)
(* before it was cancelled, such as a delivery under way, or its create,   *)
(* which saves the order twice: none can be started, and none that was is  *)
(* told.                                                                   *)
CancelledIsReopenedByRace ==
  [][\A o \in Purchases :
       status[o] = "CANCELLED" /\ status'[o] # "CANCELLED" =>
         \E c \in raced : Of(c) = o /\ stage[c] \in {"save", "total"} /\ stage'[c] = "done"]_vars
=============================================================================
