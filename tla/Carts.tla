------------------------------- MODULE Carts --------------------------------
(***************************************************************************)
(* The cart of a customer and the orders taken from it.                    *)
(*                                                                         *)
(*    addItem     find the cart, or insert one; save a line; recalculate   *)
(*    updateItem, removeItem    find the cart, save or remove the line;    *)
(*                recalculate                                              *)
(*    clearCart   find the cart, remove its lines, save it with total 0    *)
(*    createOrder find the cart, save the order, remove the lines, save    *)
(*                the cart with total 0                                    *)
(*    checkout    createPaymentIntent snapshots the cart; the transaction  *)
(*                of processSuccessfulPayment saves the order and empties  *)
(*                the cart it finds by then                                *)
(*                                                                         *)
(* An order takes its items from the lines, and its price from the total   *)
(* the cart keeps.  recalculateCart reads the lines, then writes the       *)
(* total; but for the transaction nothing is locked.                       *)
(*                                                                         *)
(* Every line costs one per unit: subtotal and total_items are computed    *)
(* from the same rows and written together, and "total" is both.           *)
(***************************************************************************)
EXTENDS Money, Integers

CONSTANTS
  Adds,         \* calls of addItem, and the carts and lines they insert
  VariantOf,    \* the variant of a call of addItem
  Edits,        \* calls of updateItem, removeItem and clearCart
  Counts,       \* bound: the units they ask for
  Orders,       \* calls of createOrder
  Checkouts,    \* checkouts, from the intent to the transaction
  Available,    \* inventories.available_quantity, which stays as it is here
  Absent

Processes == Adds \cup Edits \cup Orders \cup Checkouts
Cart == Adds
Line == [cart : Cart, units : Nat]
Copy == [cart : Cart, total : Nat, units : [Adds -> Nat]]
Order == [units : [Adds -> Nat], price : Nat]
Stages == {"idle", "create", "add", "set", "sum", "write", "clear", "zero",
           "place", "paid", "done"}

ASSUME ConstantsAssumption ==
  /\ IsFiniteSet(Adds)
  /\ Adds \cap (Edits \cup Orders \cup Checkouts) = {}
  /\ Edits \cap (Orders \cup Checkouts) = {} /\ Orders \cap Checkouts = {}
  /\ DOMAIN VariantOf = Adds
  /\ Counts \subseteq Nat \ {0}
  /\ Available \in [{VariantOf[a] : a \in Adds} -> Nat]
  /\ Absent \notin Nat \cup Line \cup Copy \cup Order

VARIABLES
  total,        \* carts: subtotal and total_items
  line,         \* cart_items
  order,        \* orders with order_items
  stage,        \* where a call is
  copy,         \* the cart a call has found, with its lines; with the total it
                \* has computed, once it has
  asked,        \* the line an edit is about, and its units; 0 removes it
  raced,        \* history: calls whose cart was changed since they read it
  drifted,      \* history: carts whose total was last written from old lines
  hurried       \* history: orders taken from a cart whose total was behind

tables == <<total, line, order>>
calls == <<stage, copy, asked>>
history == <<raced, drifted, hurried>>
vars == <<tables, calls, history>>

Init ==
  /\ total = [k \in Cart |-> Absent]
  /\ line = [l \in Adds |-> Absent]
  /\ order = [o \in Orders \cup Checkouts |-> Absent]
  /\ stage = [p \in Processes |-> "idle"]
  /\ copy = [p \in Processes |-> Absent]
  /\ asked = [e \in Edits |-> Absent]
  /\ raced = {}
  /\ drifted = {}
  /\ hurried = {}

Goto(p, next) == stage' = [stage EXCEPT ![p] = next]

(* A call ends, and forgets.                                               *)
End(p) ==
  /\ Goto(p, "done")
  /\ copy' = [copy EXCEPT ![p] = Absent]

Carts == {k \in Cart : total[k] # Absent}
Lines(k) == {l \in Adds : line[l] # Absent /\ line[l].cart = k}
UnitsIn(k) == Total(Lines(k), [l \in Adds |-> IF line[l] = Absent THEN 0 ELSE line[l].units])

(* A call finds some cart of the customer: nothing makes it the only one.  *)
Seen(k) == [cart  |-> k, total |-> total[k],
            units |-> [l \in Adds |-> IF l \in Lines(k) THEN line[l].units ELSE 0]]
Find(p, k) == copy' = [copy EXCEPT ![p] = Seen(k)]

(* The lines of a cart are written by p.                                   *)
Changed(p, k) ==
  raced' = IF line' = line THEN raced
           ELSE raced \cup {q \in Processes \ {p} :
             copy[q] # Absent /\ copy[q].cart = k /\ stage[q] \notin {"sum", "done"}}

(* The total of a cart may be behind its lines: a call has still to write  *)
(* it, or the last one to write it was late.                               *)
Behind(k) ==
  \/ k \in drifted
  \/ \E p \in Processes : copy[p] # Absent /\ copy[p].cart = k
                          /\ stage[p] \in {"sum", "write", "zero"}
-----------------------------------------------------------------------------
(* A call that is refused at once leaves no trace and is no step.  getCart *)
(* is a call of addItem that ends with the cart.                           *)
FindOrCreate(a) ==
  /\ stage[a] = "idle"
  /\ \/ \E k \in Carts : Find(a, k) /\ Goto(a, "add")
     \/ Carts = {} /\ Goto(a, "create") /\ UNCHANGED copy
  /\ UNCHANGED <<tables, asked, history>>

CreateCart(a) ==
  /\ stage[a] = "create"
  /\ total' = [total EXCEPT ![a] = 0]
  /\ copy' = [copy EXCEPT ![a] = [cart |-> a, total |-> 0, units |-> [l \in Adds |-> 0]]]
  /\ raced' = raced \cup {b \in Adds \ {a} : stage[b] = "create"}
  /\ Goto(a, "add")
  /\ UNCHANGED <<line, order, asked, drifted, hurried>>

(* The line of the same variant, among those found.                        *)
Same(a) == {l \in Adds : copy[a].units[l] > 0 /\ VariantOf[l] = VariantOf[a]}

(* A unit is added to the line found, or a line is inserted, if there is   *)
(* stock for it.  A line removed meanwhile is inserted again.              *)
SaveAdd(a) ==
  LET k == copy[a].cart
  IN  /\ stage[a] = "add"
      /\ \E l \in IF Same(a) = {} THEN {a} ELSE Same(a) :
           LET n == copy[a].units[l] + 1
           IN  /\ n <= Available[VariantOf[a]]
               /\ line' = [line EXCEPT ![l] = [cart |-> k, units |-> n]]
      /\ Changed(a, k)
      /\ Goto(a, "sum")
      /\ UNCHANGED <<total, order, copy, asked, drifted, hurried>>

FindLine(e) ==
  /\ stage[e] = "idle"
  /\ \E k \in Carts :
       /\ Find(e, k)
       /\ \/ \E l \in Lines(k), n \in Counts \cup {0} :
               /\ n <= Available[VariantOf[l]]
               /\ asked' = [asked EXCEPT ![e] = <<l, n>>]
               /\ Goto(e, "set")
          \/ Goto(e, "clear") /\ UNCHANGED asked
  /\ UNCHANGED <<tables, history>>

(* Mutant of SaveLine: the total is left as it is.                         *)
SaveLineMutant(e) ==
  LET k == copy[e].cart
      l == asked[e][1]
      n == asked[e][2]
  IN  /\ stage[e] = "set"
      /\ line' = [line EXCEPT ![l] = IF n = 0 THEN Absent ELSE [cart |-> k, units |-> n]]
      /\ Changed(e, k)
      /\ asked' = [asked EXCEPT ![e] = Absent]
      /\ End(e)
      /\ UNCHANGED <<total, order, drifted, hurried>>

SaveLine(e) ==
  LET k == copy[e].cart
      l == asked[e][1]
      n == asked[e][2]
  IN  /\ stage[e] = "set"
      /\ line' = [line EXCEPT ![l] = IF n = 0 THEN Absent ELSE [cart |-> k, units |-> n]]
      /\ Changed(e, k)
      /\ asked' = [asked EXCEPT ![e] = Absent]
      /\ Goto(e, "sum")
      /\ UNCHANGED <<total, order, copy, drifted, hurried>>

(* recalculateCart.                                                        *)
Sum(p) ==
  /\ stage[p] = "sum"
  /\ copy' = [copy EXCEPT ![p].total = UnitsIn(copy[p].cart)]
  /\ raced' = raced \ {p}
  /\ Goto(p, "write")
  /\ UNCHANGED <<tables, asked, drifted, hurried>>

Write(p) ==
  LET k == copy[p].cart
  IN  /\ stage[p] = "write"
      /\ total' = [total EXCEPT ![k] = copy[p].total]
      /\ drifted' = IF p \in raced THEN drifted \cup {k} ELSE drifted \ {k}
      /\ raced' = raced \ {p}
      /\ End(p)
      /\ UNCHANGED <<line, order, asked, hurried>>
-----------------------------------------------------------------------------
(* createOrder, and createPaymentIntent, find a cart that has lines.       *)
Take(o) ==
  /\ stage[o] = "idle"
  /\ \E k \in Carts :
       /\ Lines(k) # {}
       /\ Find(o, k)
       /\ hurried' = IF Behind(k) THEN hurried \cup {o} ELSE hurried
  /\ Goto(o, IF o \in Orders THEN "place" ELSE "paid")
  /\ UNCHANGED <<tables, asked, raced, drifted>>

(* Mutant of Ordered: a line that takes all there is is left out.          *)
OrderedMutant(o) ==
  [units |-> [l \in Adds |-> IF copy[o].units[l] = Available[VariantOf[l]]
                               THEN 0 ELSE copy[o].units[l]],
   price |-> copy[o].total]

(* Mutant of Ordered: such a line is left out, and not charged for, but    *)
(* the cart is emptied as before.                                          *)
OrderedPartMutant(o) ==
  LET kept == [l \in Adds |-> IF copy[o].units[l] = Available[VariantOf[l]]
                                THEN 0 ELSE copy[o].units[l]]
  IN  [units |-> kept, price |-> Total(Adds, kept)]

Ordered(o) == [units |-> copy[o].units, price |-> copy[o].total]

Place(o) ==
  /\ stage[o] = "place"
  /\ order' = [order EXCEPT ![o] = Ordered(o)]
  /\ Goto(o, "clear")
  /\ UNCHANGED <<total, line, copy, asked, history>>

(* clearCart and createOrder remove the lines they found ...               *)
Clear(p) ==
  /\ stage[p] = "clear"
  /\ line' = [l \in Adds |-> IF copy[p].units[l] > 0 THEN Absent ELSE line[l]]
  /\ Changed(p, copy[p].cart)
  /\ Goto(p, "zero")
  /\ UNCHANGED <<total, order, copy, asked, drifted, hurried>>

(* Mutant of Zero: the total found is taken off.                           *)
ZeroMutant(p) ==
  /\ stage[p] = "zero"
  /\ total' = [total EXCEPT ![copy[p].cart] = @ - copy[p].total]
  /\ End(p)
  /\ UNCHANGED <<line, order, asked, history>>

(* ... and save the cart.  clearCart saves it with the lines it has just   *)
(* removed, which the ORM may take for new ones.                           *)
Zero(p) ==
  LET k == copy[p].cart
  IN  /\ stage[p] = "zero"
      /\ total' = [total EXCEPT ![k] = 0]
      /\ \/ /\ drifted' = IF p \in raced THEN drifted \cup {k} ELSE drifted \ {k}
            /\ raced' = raced \ {p}
            /\ UNCHANGED line
         \/ /\ p \in Edits /\ \E l \in Adds : copy[p].units[l] > 0
            /\ line' = [l \in Adds |-> IF copy[p].units[l] > 0
                                         THEN [cart |-> k, units |-> copy[p].units[l]]
                                         ELSE line[l]]
            /\ Changed(p, k)
            /\ drifted' = drifted \cup {k}
      /\ End(p)
      /\ UNCHANGED <<order, asked, hurried>>

(* The transaction of processSuccessfulPayment.                            *)
Commit(o) ==
  /\ stage[o] = "paid"
  /\ order' = [order EXCEPT ![o] = Ordered(o)]
  /\ \E k \in Carts :
       \/ /\ Lines(k) # {}
          /\ line' = [l \in Adds |-> IF l \in Lines(k) THEN Absent ELSE line[l]]
          /\ total' = [total EXCEPT ![k] = 0]
          /\ drifted' = drifted \ {k}
          /\ Changed(o, k)
       \/ Lines(k) = {} /\ UNCHANGED <<line, total, drifted, raced>>
  /\ End(o)
  /\ UNCHANGED <<asked, hurried>>

(* The process dies, or the database refuses a statement (as it does when  *)
(* a cart is saved without a line that has been added since).              *)
Crash(p) ==
  /\ stage[p] \notin {"idle", "done"}
  /\ drifted' = IF stage[p] \in {"sum", "write", "zero"}
                  THEN drifted \cup {copy[p].cart} ELSE drifted
  /\ asked' = [e \in Edits |-> IF e = p THEN Absent ELSE asked[e]]
  /\ raced' = raced \ {p}
  /\ End(p)
  /\ UNCHANGED <<tables, hurried>>
-----------------------------------------------------------------------------
Next ==
  \/ \E a \in Adds : FindOrCreate(a) \/ CreateCart(a) \/ SaveAdd(a)
  \/ \E e \in Edits : FindLine(e) \/ SaveLine(e)
  \/ \E o \in Orders \cup Checkouts : Take(o) \/ Place(o) \/ Commit(o)
  \/ \E p \in Processes : Sum(p) \/ Write(p) \/ Clear(p) \/ Zero(p) \/ Crash(p)

Spec == Init /\ [][Next]_vars
-----------------------------------------------------------------------------
(* Every variable keeps its type.                                          *)
TypeOK ==
  /\ total \in [Cart -> Nat \cup {Absent}]
  /\ line \in [Adds -> Line \cup {Absent}]
  /\ order \in [Orders \cup Checkouts -> Order \cup {Absent}]
  /\ stage \in [Processes -> Stages]
  /\ copy \in [Processes -> Copy \cup {Absent}]
  /\ asked \in [Edits -> (Adds \X (Counts \cup {0})) \cup {Absent}]
  /\ raced \subseteq Processes
  /\ drifted \subseteq Cart
  /\ hurried \subseteq Orders \cup Checkouts

(* The total of a cart is that of its lines, or a call is still to bring   *)
(* it up to date; it stays behind only when the last call to write it had  *)
(* counted before another changed a line, or died before it wrote, or when *)
(* the lines that clearCart removed came back (recalculateCart).           *)
TotalFollowsLines == \A k \in Carts : total[k] = UnitsIn(k) \/ Behind(k)

(* An order is charged for exactly the lines it is made of, although its   *)
(* price is the total kept with the cart, unless that total was behind at  *)
(* the moment it was read (createOrder, createPaymentIntent).              *)
ChargedForItsLines ==
  \A o \in Orders \cup Checkouts :
    order[o] # Absent => order[o].price = Total(Adds, order[o].units) \/ o \in hurried

(* What an order takes out of the cart it was made from is what it         *)
(* contains: only a line changed since the order read the cart can be lost *)
(* with it (createOrder, processSuccessfulPayment).                        *)
OnlyLateLinesAreLost ==
  [][\A o \in (Orders \cup Checkouts) \ raced, l \in Adds :
       stage'[o] # stage[o] /\ line[l] # Absent /\ line'[l] = Absent
         /\ line[l].cart = copy[o].cart =>
           order'[o].units[l] = line[l].units]_vars
=============================================================================
