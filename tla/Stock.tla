------------------------------- MODULE Stock --------------------------------
(***************************************************************************)
(* The rows of inventories and everything that writes them.                *)
(*                                                                         *)
(*    createOrder     check every line, save the order, then read and save *)
(*                    the row of each line, then save the items; no lock   *)
(*    processSuccessfulPayment    a transaction that locks the rows of an  *)
(*                    order, checks each line, and takes its units         *)
(*    cancelOrder     a transaction that locks the order and its rows and  *)
(*                    puts the units back                                  *)
(*    updateStatus    makes an order CANCELLED, or revives it, and leaves  *)
(*                    the stock alone                                      *)
(*    staff           the endpoints of products, inventory and             *)
(*                    inventory-plus, goods receipts and returns: read a   *)
(*                    row, save it; insert it; delete it; no lock          *)
(*                                                                         *)
(* A line is a row of cart_items or order_items; two lines of an order may *)
(* be of one variant.  A save writes the whole row from memory.  The       *)
(* module keeps books beside the rows and asks which steps can make the    *)
(* two differ.                                                             *)
(***************************************************************************)
EXTENDS Money, Integers

CONSTANTS
  Variants,     \* product_variants.id
  Carts,        \* orders placed by createOrder
  Prepaid,      \* orders placed by processSuccessfulPayment
  Lines,        \* their lines
  OrderOf,      \* the order of a line
  VariantOf,    \* its variant
  UnitsOf,      \* its quantity
  Cancels,      \* calls of cancelOrder
  Staff,        \* calls of the other endpoints
  Edits,        \* bound: what these calls ask for
  Openings,     \* bound: the rows at the start
  Absent,       \* no row
  None

Orders == Carts \cup Prepaid
Processes == Orders \cup Cancels \cup Staff
Row == [id : Staff \cup {None}, quantity : Nat, reserved : Nat, available : Int]
Kinds == {"create", "update", "both", "hold", "adjust", "reserve", "release",
          "adjustStock", "receive", "restock", "set", "sync", "resave", "remove"}
Inserts == {"create", "adjustStock", "set", "sync"}
Edit == [kind : Kinds, variant : Variants, units : Int, hold : Nat]
OrderStates == {"none", "placed", "itemised"}
Stages == {"idle", "check", "place", "read", "save", "again", "items", "insert", "lock", "done"}

ASSUME ConstantsAssumption ==
  /\ IsFiniteSet(Lines)
  /\ OrderOf \in [Lines -> Orders]
  /\ VariantOf \in [Lines -> Variants]
  /\ UnitsOf \in [Lines -> Nat \ {0}]
  /\ \A o \in Orders : \E l \in Lines : OrderOf[l] = o
  /\ Carts \cap Prepaid = {} /\ Orders \cap Cancels = {}
  /\ Orders \cap Staff = {} /\ Cancels \cap Staff = {}
  /\ Edits \subseteq Edit
  /\ \A e \in Edits : e.kind \notin {"adjust", "adjustStock"} => e.units >= 0
  /\ Openings \subseteq [Variants -> Row \cup {Absent}]
  /\ \A rows \in Openings, v \in Variants :
       rows[v] # Absent => rows[v].available = rows[v].quantity - rows[v].reserved
  /\ Absent \notin Row

VARIABLES
  row,          \* inventories: id, quantity, reserved_quantity, available_quantity
  locked,       \* the lines whose rows a transaction has locked
  order,        \* orders and order_items, as far as stock is concerned
  cancelled,    \* the orders with status CANCELLED
  stage,        \* where a call is
  rest,         \* the lines a call has still to look at
  copy,         \* the row a call has read, and of which variant
  task,         \* what a call works on: an edit, an order, or a line
  booked,       \* history: units staff have put in less those they took out
  taken,        \* history: the lines whose units are out of the stock
  raced,        \* history: rows written since a call looked at them
  adrift        \* history: orders whose status was changed without their units

tables == <<row, locked, order, cancelled>>
calls == <<stage, rest, copy, task>>
history == <<booked, taken, raced, adrift>>
vars == <<tables, calls, history>>

LinesOf(o) == {l \in Lines : OrderOf[l] = o}
UnitsIn(S, v) == Total({l \in S : VariantOf[l] = v}, UnitsOf)

Init ==
  /\ row \in Openings
  /\ locked = [p \in Processes |-> {}]
  /\ order = [o \in Orders |-> "none"]
  /\ cancelled = {}
  /\ stage = [p \in Processes |-> "idle"]
  /\ rest = [p \in Processes |-> {}]
  /\ copy = [p \in Processes |-> Absent]
  /\ task = [p \in Processes |-> None]
  /\ booked = [v \in Variants |-> IF row[v] = Absent THEN 0 ELSE row[v].quantity]
  /\ taken = {}
  /\ raced = {}
  /\ adrift = {}
-----------------------------------------------------------------------------
Goto(p, next) == stage' = [stage EXCEPT ![p] = next]

(* A call that ends forgets what it had in its hands.                      *)
Ends(p) ==
  /\ Goto(p, "done")
  /\ rest' = [rest EXCEPT ![p] = {}]
  /\ copy' = [copy EXCEPT ![p] = Absent]
  /\ task' = [task EXCEPT ![p] = None]

(* Mutant of Minus: no Math.max.                                           *)
MinusMutant(x, n) == x - n

(* Math.max(0, x - n), and what it makes of a row.                         *)
Minus(x, n) == IF x > n THEN x - n ELSE 0
Less(r, n) == [id |-> r.id, quantity |-> Minus(r.quantity, n), reserved |-> r.reserved,
               available |-> Minus(r.available, n)]
More(r, n) == [id |-> r.id, quantity |-> r.quantity + n, reserved |-> r.reserved,
               available |-> r.available + n]

(* The calls that have looked at a row and not written it yet.             *)
Pending(o) ==
  CASE stage[o] = "check"            -> LinesOf(o) \ rest[o]
    [] stage[o] = "place"            -> LinesOf(o)
    [] stage[o] \in {"read", "save"} -> rest[o]
    [] OTHER                         -> {}

Watches(p, v) ==
  \/ stage[p] \in {"save", "again"} /\ copy[p].variant = v
  \/ p \in Carts /\ \E l \in Pending(p) : VariantOf[l] = v

Written(p, V) ==
  raced' = (raced \ ({p} \X V)) \cup
           {w \in (Processes \ {p}) \X V : Watches(w[1], w[2])}

(* What a transaction has locked cannot be written by another call: a row, *)
(* and the order it cancels, with its items.                               *)
Held(p) == {VariantOf[l] : l \in locked[p]}
Free(p, v) == \A q \in Processes \ {p} : v \notin Held(q)
Settled(o) == \A c \in Cancels : stage[c] = "lock" => task[c] # o

(* A save of a copy updates the row, or inserts it again when it is gone;  *)
(* it fails when another row of the variant has taken its place.           *)
Saves(p) ==
  LET v == copy[p].variant
  IN  Free(p, v) /\ (row[v] # Absent => row[v].id = copy[p].row.id)
-----------------------------------------------------------------------------
(* createOrder looks at each line of the cart ...                          *)
OpenCart(o) ==
  /\ stage[o] = "idle"
  /\ rest' = [rest EXCEPT ![o] = LinesOf(o)]
  /\ Goto(o, "check")
  /\ UNCHANGED <<tables, copy, task, history>>

(* Mutant of Enough: the reservations are not looked at.                   *)
EnoughMutant(r, n) == r # Absent /\ n <= r.quantity

Enough(r, n) == r # Absent /\ n <= r.available

CheckLine(o) ==
  /\ stage[o] = "check"
  /\ \E l \in rest[o] :
       \/ /\ Enough(row[VariantOf[l]], UnitsOf[l])
          /\ rest' = [rest EXCEPT ![o] = @ \ {l}]
          /\ Goto(o, IF rest[o] = {l} THEN "place" ELSE "check")
          /\ UNCHANGED <<copy, task>>
       \/ /\ ~Enough(row[VariantOf[l]], UnitsOf[l])
          /\ Ends(o)
  /\ UNCHANGED <<tables, history>>

(* ... saves the order ...                                                 *)
PlaceOrder(o) ==
  /\ stage[o] = "place"
  /\ order' = [order EXCEPT ![o] = "placed"]
  /\ rest' = [rest EXCEPT ![o] = LinesOf(o)]
  /\ Goto(o, "read")
  /\ UNCHANGED <<row, locked, cancelled, copy, task, history>>

(* ... reads the row of each line again, and skips a line without one ...  *)
ReadLine(o) ==
  /\ stage[o] = "read"
  /\ \E l \in rest[o] :
       LET v == VariantOf[l]
       IN  /\ rest' = [rest EXCEPT ![o] = @ \ {l}]
           /\ \/ /\ row[v] # Absent
                 /\ copy' = [copy EXCEPT ![o] = [variant |-> v, row |-> row[v]]]
                 /\ task' = [task EXCEPT ![o] = l]
                 /\ raced' = IF Enough(row[v], UnitsOf[l]) THEN raced \ {<<o, v>>} ELSE raced
                 /\ Goto(o, "save")
                 /\ UNCHANGED adrift
              \/ /\ row[v] = Absent
                 /\ adrift' = adrift \cup {o}
                 /\ Goto(o, IF rest[o] = {l} THEN "items" ELSE "read")
                 /\ UNCHANGED <<copy, task, raced>>
  /\ UNCHANGED <<tables, booked, taken>>

(* ... and saves it less the units of the line, never below zero ...       *)
TakeLine(o) ==
  LET v == copy[o].variant
  IN  /\ stage[o] = "save" /\ o \in Carts
      /\ Saves(o)
      /\ row' = [row EXCEPT ![v] = Less(copy[o].row, UnitsOf[task[o]])]
      /\ taken' = taken \cup {task[o]}
      /\ Written(o, {v})
      /\ Goto(o, IF rest[o] = {} THEN "items" ELSE "read")
      /\ UNCHANGED <<locked, order, cancelled, rest, copy, task, booked, adrift>>

(* ... and saves the items, also of an order that was cancelled meanwhile. *)
SaveItems(o) ==
  /\ stage[o] = "items"
  /\ Settled(o)
  /\ order' = [order EXCEPT ![o] = "itemised"]
  /\ Ends(o)
  /\ UNCHANGED <<row, locked, cancelled, history>>
-----------------------------------------------------------------------------
(* The transaction of processSuccessfulPayment, and that of cancelOrder,   *)
(* which locks the order, reads its items and locks their rows.  Neither   *)
(* fixes the order of the rows.                                            *)
BeginSale(o) ==
  /\ o \in Prepaid
  /\ stage[o] = "idle"
  /\ rest' = [rest EXCEPT ![o] = LinesOf(o)]
  /\ Goto(o, "lock")
  /\ UNCHANGED <<tables, copy, task, history>>

BeginCancel(c) ==
  /\ stage[c] = "idle"
  /\ \E o \in Orders \ cancelled :
       /\ order[o] # "none"
       /\ Settled(o)
       /\ task' = [task EXCEPT ![c] = o]
       /\ rest' = [rest EXCEPT ![c] = IF order[o] = "itemised" THEN LinesOf(o) ELSE {}]
  /\ Goto(c, "lock")
  /\ UNCHANGED <<tables, copy, history>>

(* A sale needs the row of each line and enough in it; a cancellation      *)
(* passes over a line without a row.                                       *)
LockLine(p) ==
  /\ stage[p] = "lock"
  /\ \E l \in rest[p] :
       /\ Free(p, VariantOf[l])
       /\ p \in Prepaid => Enough(row[VariantOf[l]], UnitsOf[l])
       /\ locked' = [locked EXCEPT ![p] = IF row[VariantOf[l]] = Absent THEN @ ELSE @ \cup {l}]
       /\ rest' = [rest EXCEPT ![p] = @ \ {l}]
  /\ UNCHANGED <<row, order, cancelled, stage, copy, task, history>>

(* Each line was checked alone: together they may ask for more than is     *)
(* available, and Math.max cuts the row off at zero.                       *)
CommitSale(o) ==
  /\ stage[o] = "lock" /\ o \in Prepaid
  /\ rest[o] = {}
  /\ row' = [v \in Variants |->
               IF v \in Held(o) THEN Less(row[v], UnitsIn(locked[o], v)) ELSE row[v]]
  /\ order' = [order EXCEPT ![o] = "itemised"]
  /\ taken' = taken \cup locked[o]
  /\ Written(o, Held(o))
  /\ locked' = [locked EXCEPT ![o] = {}]
  /\ Ends(o)
  /\ UNCHANGED <<cancelled, booked, adrift>>

CommitCancel(c) ==
  LET o == task[c]
  IN  /\ stage[c] = "lock" /\ c \in Cancels
      /\ rest[c] = {}
      /\ row' = [v \in Variants |->
                   IF v \in Held(c) THEN More(row[v], UnitsIn(locked[c], v)) ELSE row[v]]
      /\ cancelled' = cancelled \cup {o}
      /\ taken' = taken \ locked[c]
      /\ adrift' = IF locked[c] = LinesOf(o) THEN adrift ELSE adrift \cup {o}
      /\ Written(c, Held(c))
      /\ locked' = [locked EXCEPT ![c] = {}]
      /\ Ends(c)
      /\ UNCHANGED <<order, booked>>

(* Mutant of RollBack: without a transaction, what is done stays done.     *)
RollBackMutant(p) ==
  /\ stage[p] = "lock"
  /\ taken' = IF p \in Prepaid THEN taken \cup locked[p] ELSE taken
  /\ row' = [v \in Variants |-> IF p \in Prepaid /\ v \in Held(p)
                                  THEN Less(row[v], UnitsIn(locked[p], v)) ELSE row[v]]
  /\ locked' = [locked EXCEPT ![p] = {}]
  /\ Ends(p)
  /\ UNCHANGED <<order, cancelled, booked, raced, adrift>>

(* A line that is short, a deadlock that Postgres breaks, or an error.     *)
RollBack(p) ==
  /\ stage[p] = "lock"
  /\ locked' = [locked EXCEPT ![p] = {}]
  /\ Ends(p)
  /\ UNCHANGED <<row, order, cancelled, history>>

(* updateStatus saves the status it read room for, whatever it is by then. *)
Relabel(o) ==
  /\ order[o] # "none"
  /\ Settled(o)
  /\ cancelled' = IF o \in cancelled THEN cancelled \ {o} ELSE cancelled \cup {o}
  /\ adrift' = adrift \cup {o}
  /\ UNCHANGED <<row, locked, order, calls, booked, taken, raced>>
-----------------------------------------------------------------------------
(* What the endpoints of the staff make of a row, and when they refuse.    *)
Accepts(e, r) ==
  CASE e.kind = "hold"        -> e.units <= r.quantity
    [] e.kind = "both"        -> e.hold <= e.units
    [] e.kind = "adjust"      -> r.quantity + e.units >= r.reserved /\ r.quantity + e.units >= 0
    [] e.kind = "reserve"     -> r.reserved + e.units <= r.quantity
    [] e.kind = "release"     -> r.reserved >= e.units
    [] e.kind = "adjustStock" -> r.quantity + e.units >= 0
    [] OTHER                  -> e.kind # "create"

With(id, quantity, reserved) ==
  [id |-> id, quantity |-> quantity, reserved |-> reserved, available |-> quantity - reserved]

Edited(e, r) ==
  CASE e.kind = "update"  -> With(r.id, e.units, r.reserved)
    [] e.kind = "both"    -> With(r.id, e.units, e.hold)
    [] e.kind = "hold"    -> With(r.id, r.quantity, e.units)
    [] e.kind = "reserve" -> With(r.id, r.quantity, r.reserved + e.units)
    [] e.kind = "release" -> With(r.id, r.quantity, r.reserved - e.units)
    [] e.kind = "restock" -> More(r, e.units)
    [] e.kind = "resave"  -> r
    [] e.kind \in {"set", "sync"} ->
         [id |-> r.id, quantity |-> e.units, reserved |-> r.reserved,
          available |-> Minus(e.units, r.reserved)]
    [] OTHER              -> With(r.id, r.quantity + e.units, r.reserved)

New(w, e) ==
  With(w, IF e.kind = "adjustStock" THEN 0 ELSE e.units, IF e.kind = "create" THEN e.hold ELSE 0)

ReadRow(w) ==
  /\ stage[w] = "idle"
  /\ \E e \in Edits :
       LET r == row[e.variant]
       IN  /\ e.kind # "remove"
           /\ \/ /\ r # Absent /\ Accepts(e, r)
                 /\ copy' = [copy EXCEPT ![w] = [variant |-> e.variant, row |-> r]]
                 /\ task' = [task EXCEPT ![w] = e]
                 /\ Goto(w, "save")
                 /\ UNCHANGED rest
              \/ /\ r = Absent /\ e.kind \in Inserts
                 /\ task' = [task EXCEPT ![w] = e]
                 /\ Goto(w, "insert")
                 /\ UNCHANGED <<rest, copy>>
              \/ /\ IF r = Absent THEN e.kind \notin Inserts ELSE ~Accepts(e, r)
                 /\ Ends(w)
  /\ UNCHANGED <<tables, history>>

(* The first of two inserts of a variant wins: variant_id is unique.       *)
InsertRow(w) ==
  LET e == task[w]
      r == New(w, e)
  IN  /\ stage[w] = "insert"
      /\ \/ /\ row[e.variant] = Absent
            /\ row' = [row EXCEPT ![e.variant] = r]
            /\ booked' = [booked EXCEPT ![e.variant] = r.quantity + UnitsIn(taken, e.variant)]
            /\ IF e.kind = "adjustStock" /\ Accepts(e, r)
                 THEN /\ copy' = [copy EXCEPT ![w] = [variant |-> e.variant, row |-> r]]
                      /\ Goto(w, "save")
                      /\ UNCHANGED <<rest, task>>
                 ELSE Ends(w)
         \/ /\ row[e.variant] # Absent
            /\ Ends(w)
            /\ UNCHANGED <<row, booked>>
      /\ UNCHANGED <<locked, order, cancelled, taken, raced, adrift>>

(* syncVariants first saves the variant, whose cascade writes the row back *)
(* as it was read, and then the row.                                       *)
SaveRow(w) ==
  LET v == copy[w].variant
      first == stage[w] = "save" /\ task[w].kind = "sync"
      r == IF first THEN copy[w].row ELSE Edited(task[w], copy[w].row)
  IN  /\ stage[w] \in {"save", "again"} /\ w \in Staff
      /\ Saves(w)
      /\ row' = [row EXCEPT ![v] = r]
      /\ booked' = [booked EXCEPT ![v] = @ + r.quantity - copy[w].row.quantity]
      /\ Written(w, {v})
      /\ IF first THEN Goto(w, "again") /\ UNCHANGED <<rest, copy, task>> ELSE Ends(w)
      /\ UNCHANGED <<locked, order, cancelled, taken, adrift>>

(* A row is deleted.                                                       *)
RemoveRow(w) ==
  /\ stage[w] = "idle"
  /\ \E e \in Edits :
       /\ e.kind = "remove" /\ row[e.variant] # Absent
       /\ Free(w, e.variant)
       /\ row' = [row EXCEPT ![e.variant] = Absent]
       /\ Written(w, {e.variant})
  /\ Ends(w)
  /\ UNCHANGED <<locked, order, cancelled, booked, taken, adrift>>

(* The process dies, or a save fails; a transaction is rolled back.        *)
Crash(p) ==
  /\ stage[p] \in {"place", "read", "save", "again", "items", "insert"}
  /\ Ends(p)
  /\ UNCHANGED <<tables, history>>
-----------------------------------------------------------------------------
Next ==
  \/ \E o \in Carts :
       OpenCart(o) \/ CheckLine(o) \/ PlaceOrder(o) \/ ReadLine(o) \/ TakeLine(o) \/ SaveItems(o)
  \/ \E o \in Prepaid : BeginSale(o) \/ CommitSale(o)
  \/ \E c \in Cancels : BeginCancel(c) \/ CommitCancel(c)
  \/ \E p \in Prepaid \cup Cancels : LockLine(p) \/ RollBack(p)
  \/ \E o \in Orders : Relabel(o)
  \/ \E w \in Staff : ReadRow(w) \/ InsertRow(w) \/ SaveRow(w) \/ RemoveRow(w)
  \/ \E p \in Processes : Crash(p)

Spec == Init /\ [][Next]_vars
-----------------------------------------------------------------------------
(* Every variable keeps its type.  No quantity, and no reservation, ever   *)
(* falls below zero, whatever overtakes what.                              *)
TypeOK ==
  /\ row \in [Variants -> Row \cup {Absent}]
  /\ locked \in [Processes -> SUBSET Lines]
  /\ order \in [Orders -> OrderStates]
  /\ cancelled \subseteq Orders
  /\ stage \in [Processes -> Stages]
  /\ rest \in [Processes -> SUBSET Lines]
  /\ copy \in [Processes -> [variant : Variants, row : Row] \cup {Absent}]
  /\ task \in [Processes -> Edit \cup Orders \cup Lines \cup {None}]
  /\ booked \in [Variants -> Int]
  /\ taken \subseteq Lines
  /\ raced \subseteq Processes \X Variants
  /\ adrift \subseteq Orders

(* The row says what the books say.                                        *)
Explained(v) ==
  row[v] # Absent =>
    /\ row[v].quantity = booked[v] - UnitsIn(taken, v)
    /\ row[v].available = row[v].quantity - row[v].reserved

(* Why a step of a call may make the row of a variant wrong: it saves a    *)
(* copy that another call has overtaken; it takes several lines of the     *)
(* variant that were checked one by one and are more than is available     *)
(* together; it sets the quantity below the reservation; or it puts back   *)
(* units of an order that was revived after its units were back.           *)
Repeats(o, v) == \E k, l \in LinesOf(o) : k # l /\ VariantOf[k] = v /\ VariantOf[l] = v

Overtaken(p, v) == p \in Carts \cup Staff /\ <<p, v>> \in raced

Oversells(p, v) ==
  \/ /\ p \in Carts /\ stage[p] = "save" /\ copy[p].variant = v
     /\ Repeats(p, v) /\ ~Enough(copy[p].row, UnitsOf[task[p]])
  \/ /\ p \in Prepaid /\ stage[p] = "lock"
     /\ Repeats(p, v) /\ ~Enough(row[v], UnitsIn(locked[p], v))

Undercuts(p, v) ==
  /\ p \in Staff /\ stage[p] \in {"save", "again"} /\ task[p].kind \in {"set", "sync"}
  /\ copy[p].variant = v /\ task[p].units < copy[p].row.reserved

RestocksAgain(p, v) ==
  /\ p \in Cancels /\ stage[p] = "lock" /\ task[p] \in adrift
  /\ \E l \in locked[p] \ taken : VariantOf[l] = v

(* A row stops agreeing with the books only in these four ways: so a call  *)
(* of any service that nobody overtakes, that has one line of a variant,   *)
(* and that sets no quantity below the reservation leaves it right unless  *)
(* it cancels an order that was revived (createOrder, processSuccessful-   *)
(* Payment, cancelOrder, the products and inventory services).             *)
StockErrsInKnownWays ==
  [][\A v \in Variants :
       Explained(v) /\ ~Explained(v)' =>
         \E p \in Processes :
           /\ stage'[p] # stage[p]
           /\ Overtaken(p, v) \/ Oversells(p, v) \/ Undercuts(p, v) \/ RestocksAgain(p, v)]_vars

(* An order with items has its units out of the stock; one cancelled with  *)
(* its items has them back; and a prepaid order takes all of its units or  *)
(* none, though its transaction may be ended at any time: unless its       *)
(* status was changed by hand, or before it had its items, or a row was    *)
(* missing (createOrder, cancelOrder, processSuccessfulPayment).           *)
UnitsFollowOrders ==
  \A o \in Orders :
    /\ o \in Prepaid => order[o] # "placed"
    /\ order[o] = "none" => LinesOf(o) \cap taken = {}
    /\ o \notin adrift /\ order[o] = "itemised" =>
         IF o \in cancelled THEN LinesOf(o) \cap taken = {} ELSE LinesOf(o) \subseteq taken
=============================================================================
