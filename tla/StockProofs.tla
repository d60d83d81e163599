----------------------------- MODULE StockProofs -----------------------------
(***************************************************************************)
(* What holds of the stock for all orders, lines, variants and calls, and  *)
(* every interleaving and crash.                                           *)
(***************************************************************************)
EXTENDS Stock, FiniteSetTheorems, FunctionTheorems, TLAPS

(***************************************************************************)
(* Sums of quantities: the units of a row are counted one by one.          *)
(***************************************************************************)
(* The rows of a finite table hold finitely many cents.                    *)
LEMMA CentsFinite ==
  ASSUME NEW S, IsFiniteSet(S), NEW f, \A k \in S : f[k] \in Nat
  PROVE  IsFiniteSet(Cents(S, f))
<1> DEFINE T == {{k} \X (1 .. f[k]) : k \in S}
           g == [k \in S |-> {k} \X (1 .. f[k])]
<1>1. IsFiniteSet(T)
  <2>1. g \in Surjection(S, T)
    BY DEF Surjection
  <2>2. QED
    BY <2>1, FS_Surjection
<1>2. ASSUME NEW U \in T PROVE IsFiniteSet(U)
  <2>1. PICK k \in S : U = {k} \X (1 .. f[k])
    BY <1>2
  <2>2. IsFiniteSet({k})
    BY FS_Singleton
  <2>3. IsFiniteSet(1 .. f[k])
    BY FS_Interval
  <2>4. QED
    BY <2>1, <2>2, <2>3, FS_Product
<1>3. QED
  BY <1>1, <1>2, FS_UNION DEF Cents

(* One row contributes its amount.                                         *)
LEMMA OneRow ==
  ASSUME NEW k, NEW n \in Nat
  PROVE  IsFiniteSet({k} \X (1 .. n)) /\ Cardinality({k} \X (1 .. n)) = n
<1>1. IsFiniteSet({k}) /\ Cardinality({k}) = 1
  BY FS_Singleton
<1>2. IsFiniteSet(1 .. n) /\ Cardinality(1 .. n) = n
  BY FS_Interval
<1>3. /\ IsFiniteSet({k} \X (1 .. n))
      /\ Cardinality({k} \X (1 .. n)) = Cardinality({k}) * Cardinality(1 .. n)
  BY <1>1, <1>2, FS_Product
<1>4. 1 * n = n
  OBVIOUS
<1>5. QED
  BY <1>1, <1>2, <1>3, <1>4

(* A sum is a natural number.                                              *)
LEMMA TotalType ==
  ASSUME NEW S, IsFiniteSet(S), NEW f, \A k \in S : f[k] \in Nat
  PROVE  Total(S, f) \in Nat
BY CentsFinite, FS_CardinalityType DEF Total

(* Rows without an amount have no sum.                                     *)
LEMMA TotalZero ==
  ASSUME NEW S, NEW f, \A k \in S : f[k] = 0
  PROVE  Total(S, f) = 0
<1>1. Cents(S, f) = {}
  BY DEF Cents
<1>2. QED
  BY <1>1, FS_EmptySet DEF Total

(* The sum over two disjoint sets of rows.                                 *)
LEMMA TotalUnion ==
  ASSUME NEW A, NEW B, IsFiniteSet(A), IsFiniteSet(B), A \cap B = {},
         NEW f, \A k \in A \cup B : f[k] \in Nat
  PROVE  Total(A \cup B, f) = Total(A, f) + Total(B, f)
<1> DEFINE C == Cents(A, f)
           D == Cents(B, f)
<1>1. Cents(A \cup B, f) = C \cup D /\ C \cap D = {}
  BY DEF Cents
<1>2. IsFiniteSet(C) /\ IsFiniteSet(D) /\ Cardinality(C) \in Nat /\ Cardinality(D) \in Nat
  BY CentsFinite, FS_CardinalityType
<1>3. Cardinality(C \cap D) = 0
  BY <1>1, FS_EmptySet
<1>4. Cardinality(C \cup D) = Cardinality(C) + Cardinality(D) - Cardinality(C \cap D)
  BY <1>2, FS_Union
<1> HIDE DEF C, D
<1>5. Cardinality(C \cup D) = Cardinality(C) + Cardinality(D)
  BY <1>2, <1>3, <1>4
<1>6. QED
  BY <1>1, <1>5 DEF Total, C, D

(***************************************************************************)
(* The units of a variant in a set of lines.                               *)
(***************************************************************************)
LEMMA Quantities ==
  /\ IsFiniteSet(Lines) /\ Absent \notin Row
  /\ \A l \in Lines : /\ OrderOf[l] \in Orders /\ VariantOf[l] \in Variants
                       /\ UnitsOf[l] \in Nat /\ UnitsOf[l] > 0
  /\ \A o : LinesOf(o) \subseteq Lines
BY ConstantsAssumption DEF LinesOf

LEMMA UnitsType ==
  ASSUME NEW S \in SUBSET Lines, NEW v
  PROVE  UnitsIn(S, v) \in Nat
<1>1. IsFiniteSet({l \in S : VariantOf[l] = v}) /\ \A l \in S : UnitsOf[l] \in Nat
  BY Quantities, FS_Subset
<1>2. QED
  BY <1>1, TotalType DEF UnitsIn

LEMMA UnitsJoin ==
  ASSUME NEW S \in SUBSET Lines, NEW T \in SUBSET Lines, S \cap T = {}, NEW v
  PROVE  UnitsIn(S \cup T, v) = UnitsIn(S, v) + UnitsIn(T, v)
<1> DEFINE A == {l \in S : VariantOf[l] = v}
           B == {l \in T : VariantOf[l] = v}
<1>1. {l \in S \cup T : VariantOf[l] = v} = A \cup B /\ A \cap B = {}
  OBVIOUS
<1>2. IsFiniteSet(A) /\ IsFiniteSet(B) /\ \A l \in A \cup B : UnitsOf[l] \in Nat
  BY Quantities, FS_Subset
<1> HIDE DEF A, B
<1>3. Total(A \cup B, UnitsOf) = Total(A, UnitsOf) + Total(B, UnitsOf)
  BY <1>1, <1>2, TotalUnion
<1>4. QED
  BY <1>1, <1>3 DEF UnitsIn, A, B

(* The units are those of the only line of the variant.                    *)
LEMMA UnitsOfOne ==
  ASSUME NEW S \in SUBSET Lines, NEW l \in S,
         \A k \in S : VariantOf[k] = VariantOf[l] => k = l
  PROVE  UnitsIn(S, VariantOf[l]) = UnitsOf[l]
<1>1. {k \in S : VariantOf[k] = VariantOf[l]} = {l}
  OBVIOUS
<1>2. Cents({l}, UnitsOf) = {l} \X (1 .. UnitsOf[l])
  BY DEF Cents
<1>3. Cardinality({l} \X (1 .. UnitsOf[l])) = UnitsOf[l]
  BY Quantities, OneRow
<1>4. QED
  BY <1>1, <1>2, <1>3 DEF UnitsIn, Total

(* Lines of another variant play no part.                                  *)
LEMMA UnitsElsewhere ==
  ASSUME NEW S, NEW T, NEW v,
         \A l : VariantOf[l] = v => (l \in S <=> l \in T)
  PROVE  UnitsIn(S, v) = UnitsIn(T, v)
<1>1. {l \in S : VariantOf[l] = v} = {l \in T : VariantOf[l] = v}
  OBVIOUS
<1>2. QED
  BY <1>1 DEF UnitsIn

(* Lines that are taken away take their units with them.                   *)
LEMMA UnitsLess ==
  ASSUME NEW S \in SUBSET Lines, NEW T \in SUBSET Lines, NEW v,
         \A l \in T : VariantOf[l] = v => l \in S
  PROVE  UnitsIn(S \ T, v) = UnitsIn(S, v) - UnitsIn(T, v)
<1> DEFINE U == {l \in T : VariantOf[l] = v}
<1>1. UnitsIn(S \ T, v) = UnitsIn(S \ U, v) /\ UnitsIn(T, v) = UnitsIn(U, v)
  BY UnitsElsewhere
<1>2. U \in SUBSET Lines /\ S \ U \in SUBSET Lines /\ (S \ U) \cap U = {} /\ (S \ U) \cup U = S
  OBVIOUS
<1> HIDE DEF U
<1>3. UnitsIn(S, v) = UnitsIn(S \ U, v) + UnitsIn(U, v)
  BY <1>2, UnitsJoin
<1>4. UnitsIn(S \ U, v) \in Nat /\ UnitsIn(U, v) \in Nat
  BY <1>2, UnitsType
<1>5. QED
  BY <1>1, <1>3, <1>4
-----------------------------------------------------------------------------
Copies == [variant : Variants, row : Row]

(* Who is where, and what it works on.                                     *)
Role(p) ==
  /\ stage[p] \in {"check", "place", "read", "items"} => p \in Carts
  /\ stage[p] = "lock" => p \in Prepaid \cup Cancels
  /\ stage[p] # "lock" => locked[p] = {}
  /\ stage[p] = "insert" => p \in Staff /\ task[p] \in Edits /\ task[p].kind \in Inserts
  /\ stage[p] \in {"save", "again"} =>
       /\ copy[p] \in Copies
       /\ \/ p \in Carts /\ stage[p] = "save" /\ task[p] \in Lines
          \/ /\ p \in Staff /\ task[p] \in Edits
             /\ copy[p].variant = task[p].variant /\ Accepts(task[p], copy[p].row)
             /\ task[p].kind # "remove"

Roles == \A p \in Processes : Role(p)

(* How far an order has come, and which of its lines it has taken.         *)
CartProgress(o) ==
  /\ stage[o] \in {"idle", "check", "place"} => order[o] = "none"
  /\ stage[o] \in {"check", "read", "save"} => rest[o] \subseteq LinesOf(o)
  /\ stage[o] \in {"read", "save", "items"} => order[o] = "placed"
  /\ stage[o] = "read" =>
       rest[o] \cap taken = {} /\ (o \notin adrift => LinesOf(o) \ rest[o] \subseteq taken)
  /\ stage[o] = "save" =>
       /\ task[o] \in LinesOf(o) \ rest[o] /\ copy[o].variant = VariantOf[task[o]]
       /\ (rest[o] \cup {task[o]}) \cap taken = {}
       /\ o \notin adrift => LinesOf(o) \ (rest[o] \cup {task[o]}) \subseteq taken
  /\ stage[o] = "items" => (o \notin adrift => LinesOf(o) \subseteq taken)

SaleProgress(o) ==
  /\ stage[o] \in {"idle", "lock"} => order[o] = "none"
  /\ stage[o] = "lock" => locked[o] \cup rest[o] = LinesOf(o)

CancelProgress(c) ==
  stage[c] = "lock" =>
    /\ task[c] \in Orders \ cancelled
    /\ \/ order[task[c]] = "itemised" /\ locked[c] \cup rest[c] \subseteq LinesOf(task[c])
       \/ order[task[c]] = "placed" /\ locked[c] = {} /\ rest[c] = {}

Single ==
  \A c, d \in Cancels : stage[c] = "lock" /\ stage[d] = "lock" /\ task[c] = task[d] => c = d

Early == \A o \in Orders : o \in cancelled /\ order[o] # "itemised" => o \in adrift

Progress ==
  /\ \A o \in Carts : CartProgress(o)
  /\ \A o \in Prepaid : SaleProgress(o)
  /\ \A c \in Cancels : CancelProgress(c)
  /\ Single
  /\ Early

(* A locked row is there, is locked by one transaction, and has enough for *)
(* each line of the sale that locked it.                                   *)
Locks ==
  /\ \A p \in Processes : \A l \in locked[p] : row[VariantOf[l]] # Absent
  /\ \A p, q \in Processes : p # q => Held(p) \cap Held(q) = {}
  /\ \A o \in Prepaid : \A l \in locked[o] : Enough(row[VariantOf[l]], UnitsOf[l])

Shape == Roles /\ Progress /\ UnitsFollowOrders

(***************************************************************************)
(* A step is one of a process, or a change of status by hand.              *)
(***************************************************************************)
Act(p) ==
  \/ /\ p \in Carts
     /\ OpenCart(p) \/ CheckLine(p) \/ PlaceOrder(p) \/ ReadLine(p) \/ TakeLine(p) \/ SaveItems(p)
  \/ p \in Prepaid /\ (BeginSale(p) \/ CommitSale(p))
  \/ p \in Cancels /\ (BeginCancel(p) \/ CommitCancel(p))
  \/ p \in Prepaid \cup Cancels /\ (LockLine(p) \/ RollBack(p))
  \/ p \in Staff /\ (ReadRow(p) \/ InsertRow(p) \/ SaveRow(p) \/ RemoveRow(p))
  \/ Crash(p)

LEMMA Acts ==
  ASSUME Next
  PROVE  (\E p \in Processes : Act(p)) \/ (\E o \in Orders : Relabel(o))
BY DEF Next, Act, Processes, Orders

LEMMA Sorts ==
  /\ Carts \subseteq Orders /\ Prepaid \subseteq Orders
  /\ Orders \subseteq Processes /\ Cancels \subseteq Processes /\ Staff \subseteq Processes
  /\ Carts \cap Prepaid = {} /\ Orders \cap Cancels = {} /\ Orders \cap Staff = {}
  /\ Cancels \cap Staff = {}
  /\ Processes = Carts \cup Prepaid \cup Cancels \cup Staff
  /\ Orders = Carts \cup Prepaid
BY ConstantsAssumption DEF Orders, Processes

(***************************************************************************)
(* What saves make of a row.                                               *)
(***************************************************************************)
LEMMA LessType ==
  ASSUME NEW r \in Row, NEW n \in Nat
  PROVE  /\ Less(r, n) \in Row
         /\ Less(r, n).quantity = Minus(r.quantity, n)
         /\ Less(r, n).available = Minus(r.available, n)
         /\ Less(r, n).reserved = r.reserved
BY DEF Less, Minus, Row

LEMMA MoreType ==
  ASSUME NEW r \in Row, NEW n \in Nat
  PROVE  /\ More(r, n) \in Row
         /\ More(r, n).quantity = r.quantity + n
         /\ More(r, n).available = r.available + n
         /\ More(r, n).reserved = r.reserved
BY DEF More, Row

LEMMA EditType ==
  ASSUME NEW e \in Edits
  PROVE  /\ e.kind \in Kinds /\ e.variant \in Variants /\ e.units \in Int /\ e.hold \in Nat
         /\ e \in Edit
         /\ e.kind \notin {"adjust", "adjustStock"} => e.units \in Nat
BY ConstantsAssumption DEF Edit

LEMMA WithType ==
  ASSUME NEW i \in Staff \cup {None}, NEW q \in Nat, NEW s \in Nat
  PROVE  /\ With(i, q, s) \in Row /\ With(i, q, s).quantity = q /\ With(i, q, s).reserved = s
         /\ With(i, q, s).available = q - s /\ With(i, q, s).id = i
BY DEF With, Row

LEMMA NewType ==
  ASSUME NEW w \in Staff, NEW e \in Edits, e.kind \in Inserts
  PROVE  New(w, e) \in Row /\ New(w, e).available = New(w, e).quantity - New(w, e).reserved
<1> DEFINE q == IF e.kind = "adjustStock" THEN 0 ELSE e.units
           s == IF e.kind = "create" THEN e.hold ELSE 0
<1>1. q \in Nat /\ s \in Nat
  BY EditType DEF Inserts
<1> HIDE DEF q, s
<1>2. With(w, q, s) \in Row /\ With(w, q, s).available = With(w, q, s).quantity - With(w, q, s).reserved
  BY <1>1, WithType
<1>3. QED
  BY <1>2 DEF New, q, s

LEMMA EditedType ==
  ASSUME NEW e \in Edits, NEW r \in Row, Accepts(e, r), e.kind # "remove"
  PROVE  Edited(e, r) \in Row
<1>1. e.units \in Int /\ e.hold \in Nat /\ e.kind \in Kinds
      /\ (e.kind \notin {"adjust", "adjustStock"} => e.units \in Nat)
  BY EditType
<1>2. r.id \in Staff \cup {None} /\ r.quantity \in Nat /\ r.reserved \in Nat /\ r.available \in Int
  BY DEF Row
<1>3. CASE e.kind = "update"
  BY <1>1, <1>2, <1>3, WithType DEF Edited
<1>4. CASE e.kind = "hold"
  BY <1>1, <1>2, <1>4, WithType DEF Edited
<1>5. CASE e.kind = "reserve"
  BY <1>1, <1>2, <1>5 DEF Edited, With, Row
<1>6. CASE e.kind = "release"
  <2>1. r.reserved - e.units \in Nat
    BY <1>1, <1>2, <1>6 DEF Accepts
  <2>2. Edited(e, r) = With(r.id, r.quantity, r.reserved - e.units)
    BY <1>6 DEF Edited
  <2>3. QED
    BY <1>2, <2>1, <2>2 DEF With, Row
<1>7. CASE e.kind = "both"
  BY <1>1, <1>2, <1>7, WithType DEF Edited
<1>8. CASE e.kind = "restock"
  <2>1. Edited(e, r) = More(r, e.units) /\ e.units \in Nat
    BY <1>1, <1>8 DEF Edited
  <2>2. QED
    BY <2>1, MoreType
<1>9. CASE e.kind = "resave"
  BY <1>9 DEF Edited
<1>10. CASE e.kind \in {"set", "sync"}
  <2>1. Edited(e, r) = [id |-> r.id, quantity |-> e.units, reserved |-> r.reserved,
                        available |-> Minus(e.units, r.reserved)]
    BY <1>10 DEF Edited
  <2>2. e.units \in Nat /\ Minus(e.units, r.reserved) \in Int
    BY <1>1, <1>2, <1>10 DEF Minus
  <2>3. QED
    BY <1>2, <2>1, <2>2 DEF Row
<1>11. CASE e.kind \in {"create", "adjust", "adjustStock", "receive"}
  <2>1. Edited(e, r) = With(r.id, r.quantity + e.units, r.reserved)
    BY <1>11 DEF Edited
  <2>2. r.quantity + e.units \in Nat
    BY <1>1, <1>2, <1>11 DEF Accepts
  <2>3. QED
    BY <1>2, <2>1, <2>2 DEF With, Row
<1>12. QED
  BY <1>1, <1>3, <1>4, <1>5, <1>6, <1>7, <1>8, <1>9, <1>10, <1>11 DEF Kinds

(* A row that added up does so after an edit, unless the edit sets the     *)
(* quantity below the reservation.                                         *)
LEMMA EditedExplained ==
  ASSUME NEW e \in Edits, NEW r \in Row, r.available = r.quantity - r.reserved,
         e.kind \in {"set", "sync"} => e.units >= r.reserved
  PROVE  Edited(e, r).available = Edited(e, r).quantity - Edited(e, r).reserved
<1>1. e.units \in Int /\ r.quantity \in Nat /\ r.reserved \in Nat /\ r.available \in Int
  BY EditType DEF Row
<1>2. \A i, q, s : With(i, q, s).available = With(i, q, s).quantity - With(i, q, s).reserved
  BY DEF With
<1>3. CASE e.kind = "restock"
  <2>1. Edited(e, r) = More(r, e.units)
    BY <1>3 DEF Edited
  <2>2. More(r, e.units).available = More(r, e.units).quantity - More(r, e.units).reserved
    BY <1>1 DEF More
  <2>3. QED
    BY <2>1, <2>2
<1>4. CASE e.kind = "resave"
  BY <1>4 DEF Edited
<1>5. CASE e.kind \in {"set", "sync"}
  <2>1. Edited(e, r) = [id |-> r.id, quantity |-> e.units, reserved |-> r.reserved,
                        available |-> Minus(e.units, r.reserved)]
    BY <1>5 DEF Edited
  <2>2. Minus(e.units, r.reserved) = e.units - r.reserved
    BY <1>1, <1>5 DEF Minus
  <2>3. QED
    BY <2>1, <2>2
<1>6. CASE e.kind \notin {"restock", "resave", "set", "sync"}
  BY <1>2, <1>6 DEF Edited
<1>7. QED
  BY <1>3, <1>4, <1>5, <1>6

(* Enough that is available is enough that is there.                       *)
LEMMA LessExplained ==
  ASSUME NEW r \in Row, NEW n \in Nat, Enough(r, n), r.available = r.quantity - r.reserved
  PROVE  /\ Less(r, n).quantity = r.quantity - n
         /\ Less(r, n).available = Less(r, n).quantity - Less(r, n).reserved
BY DEF Enough, Less, Minus, Row

(***************************************************************************)
(* Type correctness, and the shape of the states.                          *)
(***************************************************************************)
LEMMA TypeInit == Init => TypeOK /\ Shape /\ Locks
<1> SUFFICES ASSUME Init PROVE TypeOK /\ Shape /\ Locks
  OBVIOUS
<1>1. row \in [Variants -> Row \cup {Absent}]
  BY ConstantsAssumption DEF Init
<1>2. \A v \in Variants : row[v] # Absent => row[v].quantity \in Nat
  BY <1>1 DEF Row
<1>3. TypeOK
  BY <1>1, <1>2 DEF Init, TypeOK, OrderStates, Stages
<1>4. Roles
  BY Sorts DEF Init, Roles, Role
<1>5. Progress /\ UnitsFollowOrders
  BY Sorts DEF Init, Progress, CartProgress, SaleProgress, CancelProgress, Single,
     Early, UnitsFollowOrders
<1>6. Locks
  BY Sorts DEF Init, Locks, Held
<1>7. QED
  BY <1>3, <1>4, <1>5, <1>6 DEF Shape

(* What a call has in its hands when it writes or reads a row.             *)
LEMMA Hands ==
  ASSUME TypeOK, Shape, Locks, NEW p \in Processes
  PROVE  /\ stage[p] \in {"save", "again"} => copy[p].variant \in Variants /\ copy[p].row \in Row
         /\ p \in Carts /\ stage[p] = "save" => task[p] \in Lines
         /\ p \in Staff /\ stage[p] \in {"save", "again"} =>
              /\ task[p] \in Edits /\ Accepts(task[p], copy[p].row)
              /\ copy[p].variant = task[p].variant /\ task[p].kind # "remove"
         /\ Held(p) \subseteq Variants /\ \A v \in Held(p) : row[v] \in Row
         /\ locked[p] \in SUBSET Lines /\ rest[p] \in SUBSET Lines
<1>1. Role(p)
  BY DEF Shape, Roles
<1>2. stage[p] \in {"save", "again"} => copy[p].variant \in Variants /\ copy[p].row \in Row
  BY <1>1 DEF Role, Copies
<1>3. p \in Staff => p \notin Carts
  BY Sorts
<1>4. locked[p] \in SUBSET Lines /\ rest[p] \in SUBSET Lines
  BY DEF TypeOK
<1>5. Held(p) \subseteq Variants
  BY <1>4, Quantities DEF Held
<1>6. \A v \in Held(p) : row[v] # Absent
  BY DEF Locks, Held
<1>7. \A v \in Held(p) : row[v] \in Row
  BY <1>5, <1>6 DEF TypeOK
<1>8. QED
  BY <1>1, <1>2, <1>3, <1>4, <1>5, <1>7 DEF Role

(* The primed types of what a call has in its hands.                       *)
LEMMA EndsType ==
  ASSUME TypeOK, NEW p \in Processes, Ends(p)
  PROVE  /\ stage' \in [Processes -> Stages] /\ rest' \in [Processes -> SUBSET Lines]
         /\ copy' \in [Processes -> [variant : Variants, row : Row] \cup {Absent}]
         /\ task' \in [Processes -> Edit \cup Orders \cup Lines \cup {None}]
         /\ stage'[p] = "done"
BY DEF TypeOK, Ends, Goto, Stages

LEMMA WrittenType ==
  ASSUME TypeOK, NEW p \in Processes, NEW V \in SUBSET Variants, Written(p, V)
  PROVE  raced' \subseteq Processes \X Variants
BY DEF TypeOK, Written

(* What a sale and a cancellation make of the rows.                        *)
LEMMA SoldType ==
  ASSUME TypeOK, Shape, Locks, NEW p \in Processes, NEW v \in Variants
  PROVE  /\ v \in Held(p) => Less(row[v], UnitsIn(locked[p], v)) \in Row
         /\ v \in Held(p) => More(row[v], UnitsIn(locked[p], v)) \in Row
         /\ UnitsIn(locked[p], v) \in Nat
BY Hands, UnitsType, LessType, MoreType

LEMMA SavedType ==
  ASSUME TypeOK, Shape, Locks, NEW p \in Staff, stage[p] \in {"save", "again"}
  PROVE  Edited(task[p], copy[p].row) \in Row
BY Hands, Sorts, EditedType

LEMMA TypeNext ==
  ASSUME TypeOK, Shape, Locks, NEW p \in Processes, Act(p)
  PROVE  TypeOK'
<1> USE DEF TypeOK
<1>h. /\ stage[p] \in {"save", "again"} => copy[p].variant \in Variants /\ copy[p].row \in Row
      /\ p \in Carts /\ stage[p] = "save" => task[p] \in Lines
      /\ p \in Staff /\ stage[p] \in {"save", "again"} => task[p] \in Edits
      /\ Held(p) \subseteq Variants /\ \A v \in Held(p) : row[v] \in Row
      /\ locked[p] \in SUBSET Lines /\ rest[p] \in SUBSET Lines
      /\ LinesOf(p) \in SUBSET Lines
  BY Hands, Quantities
<1>1. CASE p \in Carts /\ (OpenCart(p) \/ PlaceOrder(p))
  BY <1>h, <1>1 DEF OpenCart, PlaceOrder, Goto, Stages, OrderStates, tables, history
<1>2. CASE p \in Carts /\ CheckLine(p)
  <2>1. stage' \in [Processes -> Stages] /\ rest' \in [Processes -> SUBSET Lines]
        /\ copy' \in [Processes -> [variant : Variants, row : Row] \cup {Absent}]
        /\ task' \in [Processes -> Edit \cup Orders \cup Lines \cup {None}]
    <3>1. CASE Ends(p)
      BY <3>1, EndsType
    <3>2. CASE ~Ends(p)
      BY <1>2, <3>2 DEF CheckLine, Goto, Stages
    <3>3. QED
      BY <3>1, <3>2
  <2>2. QED
    BY <1>2, <2>1 DEF CheckLine, tables, history
<1>4. CASE p \in Carts /\ ReadLine(p)
  <2>1. PICK l \in rest[p] :
          /\ rest' = [rest EXCEPT ![p] = @ \ {l}]
          /\ \/ /\ row[VariantOf[l]] # Absent
                /\ copy' = [copy EXCEPT ![p] = [variant |-> VariantOf[l], row |-> row[VariantOf[l]]]]
                /\ task' = [task EXCEPT ![p] = l]
                /\ raced' = IF Enough(row[VariantOf[l]], UnitsOf[l])
                              THEN raced \ {<<p, VariantOf[l]>>} ELSE raced
                /\ Goto(p, "save")
                /\ UNCHANGED adrift
             \/ /\ adrift' = adrift \cup {p}
                /\ Goto(p, IF rest[p] = {l} THEN "items" ELSE "read")
                /\ UNCHANGED <<copy, task, raced>>
    BY <1>4 DEF ReadLine
  <2>2. l \in Lines /\ VariantOf[l] \in Variants /\ p \in Orders
    BY <1>h, <1>4, Quantities, Sorts
  <2>3. row[VariantOf[l]] # Absent => row[VariantOf[l]] \in Row
    BY <2>2
  <2>4. copy' \in [Processes -> [variant : Variants, row : Row] \cup {Absent}]
    BY <2>1, <2>2, <2>3
  <2>5. rest' \in [Processes -> SUBSET Lines] /\ stage' \in [Processes -> Stages]
    BY <2>1 DEF Goto, Stages
  <2>6. task' \in [Processes -> Edit \cup Orders \cup Lines \cup {None}]
        /\ adrift' \subseteq Orders /\ raced' \subseteq Processes \X Variants
    BY <2>1, <2>2
  <2>7. QED
    BY <1>4, <2>4, <2>5, <2>6 DEF ReadLine, tables
<1>5. CASE p \in Carts /\ TakeLine(p)
  <2> DEFINE v == copy[p].variant
  <2>1. v \in Variants /\ task[p] \in Lines /\ Less(copy[p].row, UnitsOf[task[p]]) \in Row
    BY <1>h, <1>5, LessType, Quantities DEF TakeLine
  <2>2. row' \in [Variants -> Row \cup {Absent}]
    BY <1>5, <2>1 DEF TakeLine
  <2>3. raced' \subseteq Processes \X Variants
    BY <1>5, <2>1, WrittenType DEF TakeLine
  <2>4. taken' \subseteq Lines /\ stage' \in [Processes -> Stages]
    BY <1>5, <2>1 DEF TakeLine, Goto, Stages
  <2>5. QED
    BY <1>5, <2>2, <2>3, <2>4 DEF TakeLine
<1>6. CASE p \in Carts /\ SaveItems(p)
  BY <1>6, EndsType DEF SaveItems, OrderStates, history
<1>7. CASE p \in Prepaid /\ BeginSale(p)
  BY <1>h, <1>7 DEF BeginSale, Goto, Stages, tables, history
<1>8. CASE p \in Prepaid /\ CommitSale(p)
  <2>1. row' \in [Variants -> Row \cup {Absent}]
    BY <1>8, SoldType DEF CommitSale
  <2>2. raced' \subseteq Processes \X Variants
    BY <1>h, <1>8, WrittenType DEF CommitSale
  <2>3. order' \in [Orders -> OrderStates] /\ locked' \in [Processes -> SUBSET Lines]
        /\ taken' \subseteq Lines
    BY <1>h, <1>8 DEF CommitSale, OrderStates
  <2>4. Ends(p)
    BY <1>8 DEF CommitSale
  <2>5. QED
    BY <1>8, <2>1, <2>2, <2>3, <2>4, EndsType DEF CommitSale
<1>9. CASE p \in Cancels /\ BeginCancel(p)
  <2>1. PICK o \in Orders \ cancelled :
          /\ task' = [task EXCEPT ![p] = o]
          /\ rest' = [rest EXCEPT ![p] = IF order[o] = "itemised" THEN LinesOf(o) ELSE {}]
    BY <1>9 DEF BeginCancel
  <2>2. task' \in [Processes -> Edit \cup Orders \cup Lines \cup {None}]
        /\ rest' \in [Processes -> SUBSET Lines]
    BY <2>1, Quantities
  <2>3. stage' \in [Processes -> Stages]
    BY <1>9 DEF BeginCancel, Goto, Stages
  <2>4. QED
    BY <1>9, <2>2, <2>3 DEF BeginCancel, tables, history
<1>10. CASE p \in Cancels /\ CommitCancel(p)
  <2>1. row' \in [Variants -> Row \cup {Absent}]
    BY <1>10, SoldType DEF CommitCancel
  <2>2. raced' \subseteq Processes \X Variants
    BY <1>h, <1>10, WrittenType DEF CommitCancel
  <2>3. task[p] \in Orders
    BY <1>10 DEF CommitCancel, Shape, Progress, CancelProgress
  <2>4. cancelled' \subseteq Orders /\ locked' \in [Processes -> SUBSET Lines]
        /\ taken' \subseteq Lines /\ adrift' \subseteq Orders
    BY <1>h, <1>10, <2>3 DEF CommitCancel
  <2>5. Ends(p)
    BY <1>10 DEF CommitCancel
  <2>6. QED
    BY <1>10, <2>1, <2>2, <2>4, <2>5, EndsType DEF CommitCancel
<1>11. CASE LockLine(p)
  <2>1. PICK l \in rest[p] :
          /\ locked' = [locked EXCEPT ![p] = IF row[VariantOf[l]] = Absent THEN @ ELSE @ \cup {l}]
          /\ rest' = [rest EXCEPT ![p] = @ \ {l}]
    BY <1>11 DEF LockLine
  <2>2. locked' \in [Processes -> SUBSET Lines] /\ rest' \in [Processes -> SUBSET Lines]
    BY <1>h, <2>1
  <2>3. QED
    BY <1>11, <2>2 DEF LockLine, history
<1>12. CASE RollBack(p)
  BY <1>12, EndsType DEF RollBack, history
<1>13. CASE p \in Staff /\ ReadRow(p)
  <2>1. PICK e \in Edits :
          \/ /\ row[e.variant] # Absent
             /\ copy' = [copy EXCEPT ![p] = [variant |-> e.variant, row |-> row[e.variant]]]
             /\ task' = [task EXCEPT ![p] = e]
             /\ Goto(p, "save")
             /\ UNCHANGED rest
          \/ /\ task' = [task EXCEPT ![p] = e]
             /\ Goto(p, "insert")
             /\ UNCHANGED <<rest, copy>>
          \/ Ends(p)
    BY <1>13 DEF ReadRow
  <2>2. e.variant \in Variants /\ e \in Edit
    BY EditType
  <2>3. row[e.variant] # Absent => row[e.variant] \in Row
    BY <2>2
  <2>4. /\ stage' \in [Processes -> Stages] /\ rest' \in [Processes -> SUBSET Lines]
        /\ copy' \in [Processes -> [variant : Variants, row : Row] \cup {Absent}]
        /\ task' \in [Processes -> Edit \cup Orders \cup Lines \cup {None}]
    <3>1. CASE Ends(p)
      BY <3>1, EndsType
    <3>2. CASE ~Ends(p)
      BY <2>1, <2>2, <2>3, <3>2 DEF Goto, Stages
    <3>3. QED
      BY <3>1, <3>2
  <2>5. QED
    BY <1>13, <2>4 DEF ReadRow, tables, history
<1>14. CASE p \in Staff /\ InsertRow(p)
  <2> DEFINE e == task[p]
             r == New(p, e)
             n == UnitsIn(taken, e.variant)
  <2>1. e \in Edits /\ e.kind \in Inserts
    BY <1>14 DEF InsertRow, Shape, Roles, Role
  <2>2. e.variant \in Variants /\ r \in Row /\ n \in Nat
    BY <1>14, <2>1, EditType, NewType, UnitsType
  <2>3. \/ row' = [row EXCEPT ![e.variant] = r] /\ booked' = [booked EXCEPT ![e.variant] = r.quantity + n]
        \/ UNCHANGED <<row, booked>>
    BY <1>14 DEF InsertRow
  <2>4. \/ /\ copy' = [copy EXCEPT ![p] = [variant |-> e.variant, row |-> r]]
           /\ Goto(p, "save") /\ UNCHANGED <<rest, task>>
        \/ Ends(p)
    BY <1>14 DEF InsertRow
  <2> HIDE DEF r, n
  <2>5. row' \in [Variants -> Row \cup {Absent}] /\ booked' \in [Variants -> Int]
    <3>1. r.quantity + n \in Int
      BY <2>2 DEF Row
    <3>2. QED
      BY <2>2, <2>3, <3>1
  <2>6. /\ stage' \in [Processes -> Stages] /\ rest' \in [Processes -> SUBSET Lines]
        /\ copy' \in [Processes -> [variant : Variants, row : Row] \cup {Absent}]
        /\ task' \in [Processes -> Edit \cup Orders \cup Lines \cup {None}]
    <3>1. CASE Ends(p)
      BY <3>1, EndsType
    <3>2. CASE ~Ends(p)
      BY <2>2, <2>4, <3>2 DEF Goto, Stages
    <3>3. QED
      BY <3>1, <3>2
  <2>7. QED
    BY <1>14, <2>5, <2>6 DEF InsertRow
<1>15. CASE p \in Staff /\ SaveRow(p)
  <2> DEFINE v == copy[p].variant
             first == stage[p] = "save" /\ task[p].kind = "sync"
             r == IF first THEN copy[p].row ELSE Edited(task[p], copy[p].row)
  <2>1. stage[p] \in {"save", "again"}
    BY <1>15 DEF SaveRow
  <2>2. v \in Variants /\ copy[p].row \in Row /\ r \in Row
    BY <1>h, <1>15, <2>1, SavedType DEF Shape, Roles, Role
  <2>3. /\ row' = [row EXCEPT ![v] = r]
        /\ booked' = [booked EXCEPT ![v] = @ + r.quantity - copy[p].row.quantity]
        /\ Written(p, {v})
        /\ IF first THEN Goto(p, "again") /\ UNCHANGED <<rest, copy, task>> ELSE Ends(p)
    BY <1>15 DEF SaveRow
  <2> HIDE DEF r
  <2>4. row' \in [Variants -> Row \cup {Absent}] /\ booked' \in [Variants -> Int]
    <3>1. r.quantity \in Int /\ copy[p].row.quantity \in Int /\ booked[v] \in Int
      BY <2>2 DEF Row
    <3>2. booked[v] + r.quantity - copy[p].row.quantity \in Int
      BY <3>1
    <3>3. QED
      BY <2>2, <2>3, <3>2
  <2>5. raced' \subseteq Processes \X Variants
    BY <2>2, <2>3, WrittenType
  <2>6. /\ stage' \in [Processes -> Stages] /\ rest' \in [Processes -> SUBSET Lines]
        /\ copy' \in [Processes -> [variant : Variants, row : Row] \cup {Absent}]
        /\ task' \in [Processes -> Edit \cup Orders \cup Lines \cup {None}]
    <3>1. CASE Ends(p)
      BY <3>1, EndsType
    <3>2. CASE ~Ends(p)
      BY <2>3, <3>2 DEF Goto, Stages
    <3>3. QED
      BY <3>1, <3>2
  <2>7. QED
    BY <1>15, <2>4, <2>5, <2>6 DEF SaveRow
<1>16. CASE p \in Staff /\ RemoveRow(p)
  <2>1. PICK e \in Edits : row' = [row EXCEPT ![e.variant] = Absent] /\ Written(p, {e.variant})
    BY <1>16 DEF RemoveRow
  <2>2. e.variant \in Variants
    BY EditType
  <2>3. raced' \subseteq Processes \X Variants
    BY <2>1, <2>2, WrittenType
  <2>4. row' \in [Variants -> Row \cup {Absent}]
    BY <2>1
  <2>5. Ends(p)
    BY <1>16 DEF RemoveRow
  <2>6. QED
    BY <1>16, <2>3, <2>4, <2>5, EndsType DEF RemoveRow
<1>17. CASE Crash(p)
  BY <1>17, EndsType DEF Crash, tables, history
<1>18. QED
  BY <1>1, <1>2, <1>4, <1>5, <1>6, <1>7, <1>8, <1>9, <1>10, <1>11, <1>12, <1>13, <1>14,
     <1>15, <1>16, <1>17 DEF Act

(* A step leaves the other calls where they are, ...                       *)
Local(p) ==
  \A q \in Processes \ {p} :
    /\ stage'[q] = stage[q] /\ rest'[q] = rest[q] /\ copy'[q] = copy[q]
    /\ task'[q] = task[q] /\ locked'[q] = locked[q]

(* ... and the other orders, save the one it cancels.                      *)
Own(p) ==
  \A o \in Orders \ {p} :
    /\ order'[o] = order[o]
    /\ \/ /\ o \in cancelled' <=> o \in cancelled
          /\ o \in adrift' <=> o \in adrift
          /\ LinesOf(o) \cap taken' = LinesOf(o) \cap taken
       \/ p \in Cancels /\ CommitCancel(p) /\ o = task[p]

LEMMA Apart ==
  ASSUME NEW o, NEW q, o # q
  PROVE  LinesOf(o) \cap LinesOf(q) = {}
BY DEF LinesOf

LEMMA LocalNext ==
  ASSUME TypeOK, NEW p \in Processes, Act(p)
  PROVE  Local(p)
<1> USE DEF TypeOK, Local, Goto, Ends
<1>1. CASE p \in Carts /\ (OpenCart(p) \/ CheckLine(p))
  BY <1>1 DEF OpenCart, CheckLine, tables, history
<1>2. CASE p \in Carts /\ (PlaceOrder(p) \/ ReadLine(p))
  BY <1>2 DEF PlaceOrder, ReadLine, tables, history
<1>3. CASE p \in Carts /\ (TakeLine(p) \/ SaveItems(p))
  BY <1>3 DEF TakeLine, SaveItems, history
<1>4. CASE p \in Prepaid /\ (BeginSale(p) \/ CommitSale(p))
  BY <1>4 DEF BeginSale, CommitSale, tables, history
<1>5. CASE p \in Cancels /\ (BeginCancel(p) \/ CommitCancel(p))
  BY <1>5 DEF BeginCancel, CommitCancel, tables, history
<1>6. CASE LockLine(p) \/ RollBack(p)
  BY <1>6 DEF LockLine, RollBack, history
<1>7. CASE p \in Staff /\ ReadRow(p)
  BY <1>7 DEF ReadRow, tables, history
<1>8. CASE p \in Staff /\ InsertRow(p)
  BY <1>8 DEF InsertRow
<1>9. CASE p \in Staff /\ SaveRow(p)
  BY <1>9 DEF SaveRow
<1>10. CASE p \in Staff /\ RemoveRow(p)
  BY <1>10 DEF RemoveRow
<1>11. CASE Crash(p)
  BY <1>11 DEF Crash, tables, history
<1>12. QED
  BY <1>1, <1>2, <1>3, <1>4, <1>5, <1>6, <1>7, <1>8, <1>9, <1>10, <1>11 DEF Act

LEMMA OwnNext ==
  ASSUME TypeOK, Shape, NEW p \in Processes, Act(p)
  PROVE  Own(p)
<1> USE DEF TypeOK
<1> SUFFICES ASSUME NEW o \in Orders, o # p, ~(p \in Cancels /\ CommitCancel(p) /\ o = task[p])
             PROVE  /\ order'[o] = order[o]
                    /\ o \in cancelled' <=> o \in cancelled
                    /\ o \in adrift' <=> o \in adrift
                    /\ LinesOf(o) \cap taken' = LinesOf(o) \cap taken
  <2>1. \A o \in Orders : p \in Cancels /\ CommitCancel(p) /\ o = task[p] => order'[o] = order[o]
    BY DEF CommitCancel
  <2>2. QED
    BY <2>1 DEF Own
<1>1. CASE p \in Carts /\ (OpenCart(p) \/ CheckLine(p))
  BY <1>1 DEF OpenCart, CheckLine, tables, history
<1>2. CASE p \in Carts /\ (PlaceOrder(p) \/ ReadLine(p))
  BY <1>2 DEF PlaceOrder, ReadLine, tables, history
<1>3. CASE p \in Carts /\ TakeLine(p)
  <2>1. task[p] \in LinesOf(p)
    BY <1>3 DEF TakeLine, Shape, Progress, CartProgress
  <2>2. task[p] \notin LinesOf(o)
    BY <2>1, Apart
  <2>3. QED
    BY <1>3, <2>2 DEF TakeLine
<1>4. CASE p \in Carts /\ SaveItems(p)
  BY <1>4 DEF SaveItems, history
<1>5. CASE p \in Prepaid /\ BeginSale(p)
  BY <1>5 DEF BeginSale, tables, history
<1>6. CASE p \in Prepaid /\ CommitSale(p)
  <2>1. locked[p] \subseteq LinesOf(p)
    BY <1>6 DEF CommitSale, Shape, Progress, SaleProgress
  <2>2. locked[p] \cap LinesOf(o) = {}
    BY <2>1, Apart
  <2>3. QED
    BY <1>6, <2>2 DEF CommitSale
<1>7. CASE p \in Cancels /\ BeginCancel(p)
  BY <1>7 DEF BeginCancel, tables, history
<1>8. CASE p \in Cancels /\ CommitCancel(p)
  <2>1. locked[p] \subseteq LinesOf(task[p])
    BY <1>8 DEF CommitCancel, Shape, Progress, CancelProgress
  <2>2. locked[p] \cap LinesOf(o) = {}
    BY <1>8, <2>1, Apart
  <2>3. QED
    BY <1>8, <2>2 DEF CommitCancel
<1>9. CASE LockLine(p) \/ RollBack(p)
  BY <1>9 DEF LockLine, RollBack, history
<1>10. CASE p \in Staff /\ (ReadRow(p) \/ InsertRow(p))
  BY <1>10 DEF ReadRow, InsertRow, tables, history
<1>11. CASE p \in Staff /\ (SaveRow(p) \/ RemoveRow(p))
  BY <1>11 DEF SaveRow, RemoveRow
<1>12. CASE Crash(p)
  BY <1>12 DEF Crash, tables, history
<1>13. QED
  BY <1>1, <1>2, <1>3, <1>4, <1>5, <1>6, <1>7, <1>8, <1>9, <1>10, <1>11, <1>12 DEF Act

LEMMA RolesNext ==
  ASSUME TypeOK, Shape, Locks, NEW p \in Processes, Act(p)
  PROVE  Roles'
<1> SUFFICES ASSUME NEW q \in Processes PROVE Role(q)'
  BY DEF Roles
<1> USE DEF TypeOK, Goto
<1>0. Role(q) /\ Role(p)
  BY DEF Shape, Roles
<1>1. CASE q # p
  BY <1>0, <1>1, LocalNext DEF Local, Role
<1>2. CASE q = p
  <2>e. Ends(p) /\ locked'[p] = {} => Role(p)'
    BY DEF Ends, Role
  <2>1. CASE p \in Carts /\ (OpenCart(p) \/ PlaceOrder(p))
    BY <1>0, <1>2, <2>1, Sorts DEF OpenCart, PlaceOrder, tables, history, Role
  <2>2. CASE p \in Carts /\ CheckLine(p)
    <3>1. stage[p] = "check" /\ locked'[p] = {} /\ (Ends(p) \/ stage'[p] \in {"place", "check"})
      BY <1>0, <2>2 DEF CheckLine, tables, Role
    <3>2. QED
      BY <1>2, <2>2, <2>e, <3>1 DEF Role
  <2>3. CASE p \in Carts /\ ReadLine(p)
    <3>1. PICK l \in rest[p] :
            \/ /\ row[VariantOf[l]] # Absent
               /\ copy' = [copy EXCEPT ![p] = [variant |-> VariantOf[l], row |-> row[VariantOf[l]]]]
               /\ task' = [task EXCEPT ![p] = l]
               /\ Goto(p, "save")
            \/ Goto(p, IF rest[p] = {l} THEN "items" ELSE "read")
      BY <2>3 DEF ReadLine
    <3>2. l \in Lines /\ VariantOf[l] \in Variants /\ locked'[p] = {}
      BY <1>0, <2>3, Quantities DEF ReadLine, Role, tables
    <3>3. stage'[p] \in {"save", "items", "read"}
      BY <3>1
    <3>4. stage'[p] = "save" => copy'[p] \in Copies /\ task'[p] \in Lines
      BY <3>1, <3>2 DEF Copies
    <3>5. QED
      BY <1>2, <2>3, <3>2, <3>3, <3>4 DEF Role
  <2>4. CASE p \in Carts /\ TakeLine(p)
    BY <1>0, <1>2, <2>4, Sorts DEF TakeLine, Role
  <2>5. CASE p \in Carts /\ SaveItems(p)
    BY <1>0, <1>2, <2>5, <2>e DEF SaveItems, Role
  <2>6. CASE p \in Prepaid /\ BeginSale(p)
    BY <1>0, <1>2, <2>6, Sorts DEF BeginSale, tables, history, Role
  <2>7. CASE p \in Prepaid /\ CommitSale(p)
    BY <1>2, <2>7, <2>e DEF CommitSale
  <2>8. CASE p \in Cancels /\ BeginCancel(p)
    BY <1>0, <1>2, <2>8, Sorts DEF BeginCancel, tables, history, Role
  <2>9. CASE p \in Cancels /\ CommitCancel(p)
    BY <1>2, <2>9, <2>e DEF CommitCancel
  <2>10. CASE p \in Prepaid \cup Cancels /\ LockLine(p)
    BY <1>0, <1>2, <2>10, Sorts DEF LockLine, history, Role
  <2>11. CASE p \in Prepaid \cup Cancels /\ RollBack(p)
    BY <1>2, <2>11, <2>e DEF RollBack
  <2>12. CASE p \in Staff /\ ReadRow(p)
    <3>1. PICK e \in Edits :
            /\ e.kind # "remove"
            /\ \/ /\ row[e.variant] # Absent /\ Accepts(e, row[e.variant])
                  /\ copy' = [copy EXCEPT ![p] = [variant |-> e.variant, row |-> row[e.variant]]]
                  /\ task' = [task EXCEPT ![p] = e]
                  /\ Goto(p, "save")
               \/ e.kind \in Inserts /\ task' = [task EXCEPT ![p] = e] /\ Goto(p, "insert")
               \/ Ends(p)
      BY <2>12 DEF ReadRow
    <3>2. e.variant \in Variants /\ locked'[p] = {}
      BY <1>0, <2>12, EditType DEF ReadRow, tables, Role
    <3>3. CASE Goto(p, "save") /\ ~Ends(p)
      <4>1. /\ row[e.variant] # Absent /\ Accepts(e, row[e.variant]) /\ task'[p] = e
            /\ copy'[p] = [variant |-> e.variant, row |-> row[e.variant]] /\ stage'[p] = "save"
        BY <3>1, <3>3
      <4>2. copy'[p] \in Copies /\ copy'[p].variant = e.variant /\ Accepts(e, copy'[p].row)
        BY <3>2, <4>1 DEF Copies
      <4>3. QED
        BY <1>2, <2>12, <3>1, <3>2, <4>1, <4>2 DEF Role
    <3>4. CASE e.kind \in Inserts /\ task' = [task EXCEPT ![p] = e] /\ Goto(p, "insert")
      BY <1>2, <2>12, <3>2, <3>4 DEF Role
    <3>5. QED
      BY <1>2, <2>e, <3>1, <3>2, <3>3, <3>4
  <2>13. CASE p \in Staff /\ InsertRow(p)
    <3> DEFINE e == task[p]
               r == New(p, e)
    <3>1. e \in Edits /\ e.kind \in Inserts /\ locked'[p] = {}
      BY <1>0, <2>13 DEF InsertRow, Role
    <3>2. e.variant \in Variants /\ r \in Row
      BY <2>13, <3>1, EditType, NewType
    <3> HIDE DEF r
    <3>3. \/ /\ Accepts(e, r) /\ copy' = [copy EXCEPT ![p] = [variant |-> e.variant, row |-> r]]
             /\ Goto(p, "save") /\ UNCHANGED <<rest, task>>
          \/ Ends(p)
      BY <2>13 DEF InsertRow, r
    <3>4. CASE ~Ends(p)
      <4>1. /\ Accepts(e, r) /\ copy'[p] = [variant |-> e.variant, row |-> r]
            /\ stage'[p] = "save" /\ task'[p] = e
        BY <3>3, <3>4
      <4>2. copy'[p] \in Copies /\ copy'[p].variant = e.variant /\ Accepts(e, copy'[p].row)
        BY <3>2, <4>1 DEF Copies
      <4>3. e.kind # "remove"
        BY <3>1 DEF Inserts
      <4>4. QED
        BY <1>2, <2>13, <3>1, <4>1, <4>2, <4>3 DEF Role
    <3>5. QED
      BY <1>2, <2>e, <3>1, <3>4
  <2>14. CASE p \in Staff /\ SaveRow(p)
    <3>1. /\ stage[p] \in {"save", "again"} /\ locked'[p] = {}
          /\ \/ Goto(p, "again") /\ UNCHANGED <<rest, copy, task>>
             \/ Ends(p)
      BY <1>0, <2>14 DEF SaveRow, Role
    <3>2. CASE Goto(p, "again") /\ UNCHANGED <<rest, copy, task>>
      BY <1>0, <1>2, <2>14, <3>1, <3>2, Sorts DEF Role
    <3>3. QED
      BY <1>2, <2>e, <3>1, <3>2
  <2>15. CASE p \in Staff /\ RemoveRow(p)
    BY <1>0, <1>2, <2>15, <2>e DEF RemoveRow, Role
  <2>16. CASE Crash(p)
    BY <1>0, <1>2, <2>16, <2>e DEF Crash, tables, Role
  <2>17. QED
    BY <2>1, <2>2, <2>3, <2>4, <2>5, <2>6, <2>7, <2>8, <2>9, <2>10, <2>11, <2>12, <2>13,
       <2>14, <2>15, <2>16 DEF Act
<1>3. QED
  BY <1>1, <1>2

(* What a cancellation finds when it commits.                              *)
LEMMA Cancelling ==
  ASSUME TypeOK, Shape, NEW p \in Cancels, CommitCancel(p)
  PROVE  /\ task[p] \in Orders \ cancelled /\ task[p] # p
         /\ locked[p] \subseteq LinesOf(task[p]) /\ taken' = taken \ locked[p]
         /\ \/ order[task[p]] = "itemised"
            \/ /\ order[task[p]] = "placed" /\ locked[p] = {} /\ taken' = taken
               /\ task[p] \in adrift'
         /\ adrift \subseteq adrift'
<1>1. task[p] \in Orders \ cancelled /\ p \in Processes /\ task[p] # p
  BY Sorts DEF CommitCancel, Shape, Progress, CancelProgress
<1>2. taken' = taken \ locked[p] /\ (task[p] \in adrift' \/ locked[p] = LinesOf(task[p]))
      /\ adrift \subseteq adrift'
  BY DEF CommitCancel
<1>3. \/ order[task[p]] = "itemised" /\ locked[p] \subseteq LinesOf(task[p])
      \/ order[task[p]] = "placed" /\ locked[p] = {}
  BY DEF CommitCancel, Shape, Progress, CancelProgress
<1>4. LinesOf(task[p]) # {}
  BY <1>1, ConstantsAssumption DEF LinesOf
<1>5. QED
  BY <1>1, <1>2, <1>3, <1>4

LEMMA CartNext ==
  ASSUME TypeOK, Shape, NEW p \in Processes, Act(p), NEW o \in Carts
  PROVE  CartProgress(o)'
<1> USE DEF TypeOK, Goto
<1>0. /\ CartProgress(o) /\ o \in Orders /\ o \in Processes
      /\ order[o] = "none" => LinesOf(o) \cap taken = {}
      /\ LinesOf(o)' = LinesOf(o)
  BY Sorts DEF Shape, Progress, UnitsFollowOrders, LinesOf
<1>1. CASE o # p
  <2>1. /\ stage'[o] = stage[o] /\ rest'[o] = rest[o] /\ copy'[o] = copy[o] /\ task'[o] = task[o]
        /\ order'[o] = order[o]
        /\ \/ /\ o \in adrift' <=> o \in adrift
              /\ LinesOf(o) \cap taken' = LinesOf(o) \cap taken
           \/ p \in Cancels /\ CommitCancel(p) /\ o = task[p]
    BY <1>0, <1>1, LocalNext, OwnNext DEF Local, Own
  <2>2. CASE /\ o \in adrift' <=> o \in adrift
             /\ LinesOf(o) \cap taken' = LinesOf(o) \cap taken
    <3>1. ASSUME NEW S \in SUBSET LinesOf(o)
          PROVE  (S \cap taken = {} => S \cap taken' = {}) /\ (S \subseteq taken => S \subseteq taken')
      BY <2>2
    <3>2. /\ stage[o] = "read" => rest[o] \in SUBSET LinesOf(o)
          /\ stage[o] = "save" => rest[o] \cup {task[o]} \in SUBSET LinesOf(o)
      BY <1>0 DEF CartProgress
    <3>3. \A S : LinesOf(o) \ S \in SUBSET LinesOf(o)
      OBVIOUS
    <3>4. LinesOf(o) \in SUBSET LinesOf(o)
      OBVIOUS
    <3>5. QED
      BY <1>0, <2>1, <2>2, <3>1, <3>2, <3>3, <3>4 DEF CartProgress
  <2>3. CASE p \in Cancels /\ CommitCancel(p) /\ o = task[p]
    <3>1. \/ order[task[p]] = "itemised"
          \/ order[task[p]] = "placed" /\ taken' = taken /\ task[p] \in adrift'
      BY <2>3, Cancelling
    <3>2. QED
      BY <1>0, <2>1, <2>3, <3>1 DEF CartProgress
  <2>4. QED
    BY <2>1, <2>2, <2>3
<1>2. CASE o = p
  <2>1. CASE OpenCart(p)
    BY <1>0, <1>2, <2>1 DEF OpenCart, CartProgress, tables, history
  <2>2. CASE CheckLine(p)
    <3>1. /\ stage[p] = "check" /\ order'[p] = order[p]
          /\ \/ /\ stage'[p] = "check" \/ stage'[p] = "place"
                /\ rest'[p] \subseteq rest[p]
             \/ stage'[p] = "done"
      BY <1>0, <1>2, <2>2 DEF CheckLine, tables, Ends
    <3>2. QED
      BY <1>0, <1>2, <3>1 DEF CartProgress
  <2>3. CASE PlaceOrder(p)
    BY <1>0, <1>2, <2>3 DEF PlaceOrder, CartProgress, history
  <2>4. CASE ReadLine(p)
    <3>1. PICK l \in rest[p] :
            /\ rest' = [rest EXCEPT ![p] = @ \ {l}]
            /\ \/ /\ copy' = [copy EXCEPT ![p] = [variant |-> VariantOf[l], row |-> row[VariantOf[l]]]]
                  /\ task' = [task EXCEPT ![p] = l]
                  /\ stage' = [stage EXCEPT ![p] = "save"]
                  /\ UNCHANGED adrift
               \/ /\ adrift' = adrift \cup {p}
                  /\ stage' = [stage EXCEPT ![p] = IF rest[p] = {l} THEN "items" ELSE "read"]
      BY <2>4 DEF ReadLine
    <3>2. /\ stage[p] = "read" /\ order' = order /\ taken' = taken /\ rest'[p] = rest[p] \ {l}
      BY <1>0, <1>2, <2>4, <3>1 DEF ReadLine, tables
    <3>3. \/ /\ copy'[p].variant = VariantOf[l] /\ task'[p] = l
             /\ stage'[p] = "save" /\ adrift' = adrift
          \/ p \in adrift' /\ stage'[p] \in {"items", "read"}
      BY <1>0, <1>2, <3>1
    <3>4. QED
      BY <1>0, <1>2, <3>1, <3>2, <3>3 DEF CartProgress
  <2>5. CASE TakeLine(p)
    <3>1. /\ taken' = taken \cup {task[p]} /\ rest'[p] = rest[p] /\ stage[p] = "save"
          /\ order'[p] = order[p] /\ adrift' = adrift
          /\ stage'[p] = IF rest[p] = {} THEN "items" ELSE "read"
      BY <1>0, <1>2, <2>5 DEF TakeLine
    <3>2. QED
      BY <1>0, <1>2, <3>1 DEF CartProgress
  <2>6. CASE SaveItems(p) \/ Crash(p)
    BY <1>0, <1>2, <2>6 DEF SaveItems, Crash, CartProgress, Ends
  <2>7. QED
    BY <1>2, <2>1, <2>2, <2>3, <2>4, <2>5, <2>6, Sorts DEF Act
<1>3. QED
  BY <1>1, <1>2

LEMMA SaleNext ==
  ASSUME TypeOK, Shape, NEW p \in Processes, Act(p), NEW o \in Prepaid
  PROVE  SaleProgress(o)'
<1> USE DEF TypeOK, Goto
<1>0. /\ SaleProgress(o) /\ o \in Orders /\ o \in Processes /\ LinesOf(o)' = LinesOf(o)
      /\ stage[o] # "lock" => locked[o] = {}
  BY Sorts DEF Shape, Progress, Roles, Role, LinesOf
<1>1. CASE o # p
  <2>1. /\ stage'[o] = stage[o] /\ rest'[o] = rest[o] /\ locked'[o] = locked[o]
        /\ order'[o] = order[o]
    BY <1>0, <1>1, LocalNext, OwnNext DEF Local, Own
  <2>2. QED
    BY <1>0, <2>1 DEF SaleProgress
<1>2. CASE o = p
  <2>1. CASE BeginSale(p)
    BY <1>0, <1>2, <2>1 DEF BeginSale, SaleProgress, tables
  <2>2. CASE LockLine(p)
    <3>1. PICK l \in rest[p] :
            /\ p \in Prepaid => row[VariantOf[l]] # Absent
            /\ locked' = [locked EXCEPT ![p] = IF row[VariantOf[l]] = Absent THEN @ ELSE @ \cup {l}]
            /\ rest' = [rest EXCEPT ![p] = @ \ {l}]
      BY <2>2 DEF LockLine, Enough
    <3>2. /\ locked'[p] = locked[p] \cup {l} /\ rest'[p] = rest[p] \ {l}
          /\ stage' = stage /\ order' = order
      BY <1>0, <1>2, <2>2, <3>1 DEF LockLine
    <3>3. QED
      BY <1>0, <1>2, <3>1, <3>2 DEF SaleProgress
  <2>3. CASE CommitSale(p) \/ RollBack(p) \/ Crash(p)
    BY <1>0, <1>2, <2>3 DEF CommitSale, RollBack, Crash, Ends, SaleProgress
  <2>4. QED
    BY <1>2, <2>1, <2>2, <2>3, Sorts DEF Act
<1>3. QED
  BY <1>1, <1>2

(* An order that is being cancelled is left alone by everybody else.       *)
LEMMA Undisturbed ==
  ASSUME TypeOK, Shape, NEW p \in Processes, Act(p),
         NEW c \in Cancels, c # p, stage[c] = "lock"
  PROVE  /\ order'[task[c]] = order[task[c]]
         /\ task[c] \in cancelled' <=> task[c] \in cancelled
<1> USE DEF TypeOK
<1>0. task[c] \in Orders \ cancelled /\ order[task[c]] \in {"placed", "itemised"}
  BY DEF Shape, Progress, CancelProgress
<1>1. CASE task[c] = p
  <2>1. p \in Carts \/ p \in Prepaid
    BY <1>0, <1>1, Sorts
  <2>2. CASE p \in Carts
    <3>1. stage[p] \notin {"idle", "check", "place"} /\ ~SaveItems(p)
      BY <1>0, <1>1, <2>2 DEF Shape, Progress, CartProgress, SaveItems, Settled
    <3>2. CASE ReadLine(p) \/ Crash(p)
      BY <1>1, <3>2 DEF ReadLine, Crash, tables
    <3>3. CASE TakeLine(p)
      BY <3>3 DEF TakeLine
    <3>4. QED
      BY <2>2, <3>1, <3>2, <3>3, Sorts DEF Act, OpenCart, CheckLine, PlaceOrder
  <2>3. CASE p \in Prepaid
    <3>1. stage[p] \notin {"idle", "lock"}
      BY <1>0, <1>1, <2>3 DEF Shape, Progress, SaleProgress
    <3>2. Crash(p)
      BY <2>3, <3>1, Sorts DEF Act, BeginSale, CommitSale, LockLine, RollBack
    <3>3. QED
      BY <3>2 DEF Crash, tables
  <2>4. QED
    BY <2>1, <2>2, <2>3
<1>2. CASE task[c] # p /\ ~(p \in Cancels /\ CommitCancel(p) /\ task[p] = task[c])
  BY <1>0, <1>2, OwnNext DEF Own
<1>3. CASE p \in Cancels /\ CommitCancel(p) /\ task[p] = task[c]
  BY <1>3 DEF CommitCancel, Shape, Progress, Single
<1>4. QED
  BY <1>1, <1>2, <1>3

LEMMA CancelNext ==
  ASSUME TypeOK, Shape, NEW p \in Processes, Act(p), NEW c \in Cancels
  PROVE  CancelProgress(c)'
<1> USE DEF TypeOK, Goto
<1>0. CancelProgress(c) /\ c \in Processes /\ \A o : LinesOf(o)' = LinesOf(o)
      /\ (stage[c] # "lock" => locked[c] = {})
  BY Sorts DEF Shape, Progress, Roles, Role, LinesOf
<1>1. CASE c # p
  <2>1. /\ stage'[c] = stage[c] /\ rest'[c] = rest[c] /\ locked'[c] = locked[c] /\ task'[c] = task[c]
    BY <1>0, <1>1, LocalNext DEF Local
  <2>2. stage[c] = "lock" =>
          order'[task[c]] = order[task[c]] /\ (task[c] \in cancelled' <=> task[c] \in cancelled)
    BY <1>1, Undisturbed
  <2>3. QED
    BY <1>0, <2>1, <2>2 DEF CancelProgress
<1>2. CASE c = p
  <2>1. CASE BeginCancel(p)
    <3>1. PICK o \in Orders \ cancelled :
            /\ order[o] # "none"
            /\ task' = [task EXCEPT ![p] = o]
            /\ rest' = [rest EXCEPT ![p] = IF order[o] = "itemised" THEN LinesOf(o) ELSE {}]
      BY <2>1 DEF BeginCancel
    <3>2. task'[p] = o /\ rest'[p] = IF order[o] = "itemised" THEN LinesOf(o) ELSE {}
      BY <3>1
    <3>3. order[o] \in {"placed", "itemised"}
      BY <3>1 DEF OrderStates
    <3>4. order' = order /\ cancelled' = cancelled /\ locked' = locked /\ stage[p] = "idle"
      BY <2>1 DEF BeginCancel, tables
    <3>5. QED
      BY <1>0, <1>2, <3>2, <3>3, <3>4 DEF CancelProgress
  <2>2. CASE LockLine(p)
    <3>1. PICK l \in rest[p] :
            /\ locked' = [locked EXCEPT ![p] = IF row[VariantOf[l]] = Absent THEN @ ELSE @ \cup {l}]
            /\ rest' = [rest EXCEPT ![p] = @ \ {l}]
      BY <2>2 DEF LockLine
    <3>2. locked'[p] \cup rest'[p] \subseteq locked[p] \cup rest[p]
      BY <3>1
    <3>3. /\ stage' = stage /\ order' = order /\ cancelled' = cancelled /\ task' = task
          /\ stage[p] = "lock" /\ rest[p] # {}
      BY <2>2, <3>1 DEF LockLine
    <3>4. QED
      BY <1>0, <1>2, <3>2, <3>3 DEF CancelProgress
  <2>3. CASE CommitCancel(p) \/ RollBack(p) \/ Crash(p)
    BY <1>0, <1>2, <2>3 DEF CommitCancel, RollBack, Crash, Ends, CancelProgress
  <2>4. QED
    BY <1>2, <2>1, <2>2, <2>3, Sorts DEF Act
<1>3. QED
  BY <1>1, <1>2

LEMMA SingleNext ==
  ASSUME TypeOK, Shape, NEW p \in Processes, Act(p)
  PROVE  Single'
<1> USE DEF TypeOK, Goto
<1> SUFFICES ASSUME NEW c \in Cancels, NEW d \in Cancels, c # d,
                    stage'[c] = "lock", stage'[d] = "lock", task'[c] = task'[d]
             PROVE  FALSE
  BY DEF Single
<1>1. c \in Processes /\ d \in Processes /\ Single
  BY Sorts DEF Shape, Progress
<1>2. ASSUME NEW e \in Cancels, stage'[e] = "lock", ~(e = p /\ BeginCancel(p))
      PROVE  stage[e] = "lock" /\ task'[e] = task[e]
  <2>1. CASE e # p
    BY <1>2, <2>1, LocalNext, Sorts DEF Local
  <2>2. CASE e = p
    <3>1. LockLine(p)
      BY <1>2, <2>2, Sorts DEF Act, CommitCancel, RollBack, Crash, Ends
    <3>2. QED
      BY <1>2, <2>2, <3>1 DEF LockLine
  <2>3. QED
    BY <2>1, <2>2
<1>3. ASSUME NEW e \in Cancels, NEW f \in Cancels, e # f, e = p, BeginCancel(p),
             stage'[f] = "lock", task'[e] = task'[f]
      PROVE  FALSE
  <2>1. stage[f] = "lock" /\ task'[f] = task[f]
    BY <1>2, <1>3
  <2>2. Settled(task'[p])
    <3>1. PICK o \in Orders : task' = [task EXCEPT ![p] = o] /\ Settled(o)
      BY <1>3 DEF BeginCancel
    <3>2. QED
      BY <3>1
  <2>3. QED
    BY <1>3, <2>1, <2>2 DEF Settled
<1>4. CASE (c = p \/ d = p) /\ BeginCancel(p)
  BY <1>3, <1>4
<1>5. CASE ~((c = p \/ d = p) /\ BeginCancel(p))
  BY <1>1, <1>2, <1>5 DEF Single
<1>6. QED
  BY <1>4, <1>5

(* An order that was cancelled before it had its items is known as such.   *)
LEMMA EarlyNext ==
  ASSUME TypeOK, Shape, NEW p \in Processes, Act(p)
  PROVE  Early'
<1> USE DEF TypeOK
<1> SUFFICES ASSUME NEW o \in Orders, o \in cancelled', order'[o] # "itemised"
             PROVE  o \in adrift'
  BY DEF Early
<1>0. o \in cancelled /\ order[o] # "itemised" => o \in adrift
  BY DEF Shape, Progress, Early
<1>1. CASE p \in Cancels /\ CommitCancel(p) /\ o = task[p]
  <2>1. order' = order /\ (order[o] = "itemised" \/ o \in adrift')
    BY <1>1, Cancelling DEF CommitCancel
  <2>2. QED
    BY <2>1
<1>2. CASE o # p /\ ~(p \in Cancels /\ CommitCancel(p) /\ o = task[p])
  BY <1>0, <1>2, OwnNext DEF Own
<1>3. CASE o = p
  <2>1. p \notin Cancels \cup Staff
    BY <1>3, Sorts
  <2>2. o \in cancelled /\ (o \in adrift => o \in adrift')
    BY <2>1 DEF Act, OpenCart, CheckLine, PlaceOrder, ReadLine, TakeLine, SaveItems, BeginSale,
       CommitSale, LockLine, RollBack, Crash, tables, history
  <2>3. order[o] # "itemised"
    BY <1>3, <2>1 DEF Act, OpenCart, CheckLine, PlaceOrder, ReadLine, TakeLine, SaveItems, BeginSale,
       CommitSale, LockLine, RollBack, Crash, tables, history, Shape, Progress, CartProgress, SaleProgress
  <2>4. QED
    BY <1>0, <2>2, <2>3
<1>4. QED
  BY <1>1, <1>2, <1>3

LEMMA ProgressNext ==
  ASSUME TypeOK, Shape, NEW p \in Processes, Act(p)
  PROVE  Progress'
BY CartNext, SaleNext, CancelNext, SingleNext, EarlyNext DEF Progress

LEMMA FollowNext ==
  ASSUME TypeOK, Shape, NEW p \in Processes, Act(p)
  PROVE  UnitsFollowOrders'
<1> USE DEF TypeOK
<1> DEFINE Follows(o) ==
      /\ o \in Prepaid => order[o] # "placed"
      /\ order[o] = "none" => LinesOf(o) \cap taken = {}
      /\ o \notin adrift /\ order[o] = "itemised" =>
           IF o \in cancelled THEN LinesOf(o) \cap taken = {} ELSE LinesOf(o) \subseteq taken
<1> SUFFICES ASSUME NEW o \in Orders PROVE Follows(o)'
  BY DEF UnitsFollowOrders
<1>0. Follows(o) /\ LinesOf(o)' = LinesOf(o) /\ o \in Processes
  BY Sorts DEF Shape, UnitsFollowOrders, LinesOf
<1>1. CASE p \in Cancels /\ CommitCancel(p) /\ o = task[p]
  <2>1. /\ order'[o] = order[o] /\ order[o] \in {"placed", "itemised"} /\ o \in cancelled'
        /\ taken' = taken \ locked[p] /\ (o \in adrift' \/ locked[p] = LinesOf(o))
    BY <1>1, Cancelling DEF CommitCancel
  <2>2. QED
    BY <1>0, <2>1
<1>2. CASE o # p /\ ~(p \in Cancels /\ CommitCancel(p) /\ o = task[p])
  <2>1. /\ order'[o] = order[o]
        /\ o \in cancelled' <=> o \in cancelled
        /\ o \in adrift' <=> o \in adrift
        /\ LinesOf(o) \cap taken' = LinesOf(o) \cap taken
    BY <1>2, OwnNext DEF Own
  <2>2. LinesOf(o) \subseteq taken => LinesOf(o) \subseteq taken'
    BY <2>1
  <2>3. QED
    BY <1>0, <2>1, <2>2
<1>3. CASE o = p
  <2>1. CASE p \in Carts
    <3>1. CartProgress(p) /\ p \notin Prepaid \cup Cancels \cup Staff /\ Early
      BY <2>1, Sorts DEF Shape, Progress
    <3>2. CASE OpenCart(p) \/ CheckLine(p)
      BY <1>0, <3>2 DEF OpenCart, CheckLine, tables, history
    <3>3. CASE PlaceOrder(p)
      BY <1>3, <3>1, <3>3 DEF PlaceOrder
    <3>4. CASE ReadLine(p)
      <4>1. order'[p] = order[p] /\ order[p] = "placed"
        BY <3>1, <3>4 DEF ReadLine, CartProgress, tables
      <4>2. QED
        BY <1>3, <3>1, <4>1
    <3>5. CASE TakeLine(p)
      <4>1. order'[p] = order[p] /\ order[p] = "placed"
        BY <3>1, <3>5 DEF TakeLine, CartProgress
      <4>2. QED
        BY <1>3, <3>1, <4>1
    <3>6. CASE SaveItems(p)
      <4>1. /\ order'[p] = "itemised" /\ order[p] = "placed" /\ cancelled' = cancelled
            /\ taken' = taken /\ adrift' = adrift /\ (p \notin adrift => LinesOf(p) \subseteq taken)
        BY <1>3, <3>1, <3>6 DEF SaveItems, CartProgress, history
      <4>2. p \in cancelled => p \in adrift
        BY <1>3, <3>1, <4>1 DEF Early
      <4>3. QED
        BY <1>0, <1>3, <3>1, <4>1, <4>2
    <3>7. CASE Crash(p)
      BY <1>0, <3>7 DEF Crash, tables, history
    <3>8. QED
      BY <2>1, <3>1, <3>2, <3>3, <3>4, <3>5, <3>6, <3>7 DEF Act
  <2>2. CASE p \in Prepaid
    <3>1. SaleProgress(p) /\ p \notin Carts \cup Cancels \cup Staff /\ Early
      BY <2>2, Sorts DEF Shape, Progress
    <3>2. CASE BeginSale(p) \/ Crash(p)
      BY <1>0, <3>2 DEF BeginSale, Crash, tables, history
    <3>3. CASE LockLine(p) \/ RollBack(p)
      BY <1>0, <3>3 DEF LockLine, RollBack, history
    <3>4. CASE CommitSale(p)
      <4>1. /\ order'[p] = "itemised" /\ order[p] = "none" /\ cancelled' = cancelled
            /\ taken' = taken \cup locked[p] /\ adrift' = adrift /\ locked[p] = LinesOf(p)
        BY <1>3, <3>1, <3>4 DEF CommitSale, SaleProgress
      <4>2. p \in cancelled => p \in adrift
        BY <1>3, <3>1, <4>1 DEF Early
      <4>3. QED
        BY <1>0, <1>3, <4>1, <4>2
    <3>5. QED
      BY <2>2, <3>1, <3>2, <3>3, <3>4 DEF Act
  <2>3. QED
    BY <1>3, <2>1, <2>2, Sorts
<1>4. QED
  BY <1>1, <1>2, <1>3

LEMMA ShapeNext ==
  ASSUME TypeOK, Shape, Locks, NEW p \in Processes, Act(p)
  PROVE  Shape'
BY RolesNext, ProgressNext, FollowNext DEF Shape

(***************************************************************************)
(* Locks and races.  A row written by one call is noted as raced for every *)
(* other call that looks at it, so a call that is not raced still knows    *)
(* the row as it is.                                                       *)
(***************************************************************************)
Knows(p, v) ==
  Watches(p, v) /\ <<p, v>> \notin raced =>
    /\ stage[p] \in {"save", "again"} /\ copy[p].variant = v =>
         /\ copy[p].row = row[v]
         /\ p \in Carts => Repeats(p, v) \/ Enough(row[v], UnitsOf[task[p]])
    /\ p \in Carts =>
         \A l \in Pending(p) : VariantOf[l] = v => Repeats(p, v) \/ Enough(row[v], UnitsOf[l])

Fresh == \A p \in Processes, v \in Variants : Knows(p, v)

IInv == TypeOK /\ Shape /\ Locks /\ Fresh

(* A row that a step changes was absent, or free; the step is noted for    *)
(* every other call that looks at the row.                                 *)
LEMMA Changed ==
  ASSUME TypeOK, Shape, Locks, NEW p \in Processes, Act(p), NEW v \in Variants, row'[v] # row[v]
  PROVE  /\ row[v] = Absent \/ \A q \in Processes \ {p} : v \notin Held(q)
         /\ \/ row[v] = Absent
            \/ \A q \in Processes \ {p} : Watches(q, v) => <<q, v>> \in raced'
<1> USE DEF TypeOK
<1>1. CASE p \in Carts /\ TakeLine(p)
  BY <1>1 DEF TakeLine, Written, Saves, Free
<1>2. CASE p \in Prepaid /\ CommitSale(p)
  <2>1. v \in Held(p) /\ Written(p, Held(p))
    BY <1>2 DEF CommitSale
  <2>2. \A q \in Processes \ {p} : v \notin Held(q)
    BY <2>1 DEF Locks
  <2>3. QED
    BY <2>1, <2>2 DEF Written
<1>3. CASE p \in Cancels /\ CommitCancel(p)
  <2>1. v \in Held(p) /\ Written(p, Held(p))
    BY <1>3 DEF CommitCancel
  <2>2. \A q \in Processes \ {p} : v \notin Held(q)
    BY <2>1 DEF Locks
  <2>3. QED
    BY <2>1, <2>2 DEF Written
<1>4. CASE p \in Staff /\ InsertRow(p)
  <2>1. PICK r : \/ row' = [row EXCEPT ![task[p].variant] = r] /\ row[task[p].variant] = Absent
                 \/ row' = row
    BY <1>4 DEF InsertRow
  <2>2. QED
    BY <2>1
<1>5. CASE p \in Staff /\ SaveRow(p)
  <2>1. PICK r : /\ row' = [row EXCEPT ![copy[p].variant] = r]
                 /\ Free(p, copy[p].variant) /\ Written(p, {copy[p].variant})
    BY <1>5 DEF SaveRow, Saves
  <2>2. v = copy[p].variant
    BY <2>1
  <2>3. QED
    BY <2>1, <2>2 DEF Free, Written
<1>6. CASE p \in Staff /\ RemoveRow(p)
  <2>1. PICK e \in Edits : /\ row' = [row EXCEPT ![e.variant] = Absent]
                           /\ Free(p, e.variant) /\ Written(p, {e.variant})
    BY <1>6 DEF RemoveRow
  <2>2. v = e.variant
    BY <2>1
  <2>3. QED
    BY <2>1, <2>2 DEF Free, Written
<1>7. CASE UNCHANGED row
  BY <1>7
<1>8. QED
  BY <1>1, <1>2, <1>3, <1>4, <1>5, <1>6, <1>7
     DEF Act, OpenCart, CheckLine, PlaceOrder, ReadLine, SaveItems, BeginSale, BeginCancel,
         LockLine, RollBack, ReadRow, Crash, tables

LEMMA LocksNext ==
  ASSUME TypeOK, Shape, Locks, NEW p \in Processes, Act(p)
  PROVE  Locks'
<1> USE DEF TypeOK
<1>1. ASSUME NEW l \in locked'[p], l \notin locked[p]
      PROVE  /\ l \in Lines /\ Free(p, VariantOf[l]) /\ row' = row /\ row[VariantOf[l]] # Absent
             /\ p \in Prepaid => Enough(row[VariantOf[l]], UnitsOf[l])
  <2>1. LockLine(p)
    BY <1>1 DEF Act, OpenCart, CheckLine, PlaceOrder, ReadLine, TakeLine, SaveItems,
         BeginSale, CommitSale, BeginCancel, CommitCancel, RollBack, ReadRow, InsertRow,
         SaveRow, RemoveRow, Crash, tables
  <2>2. PICK k \in rest[p] :
          /\ Free(p, VariantOf[k])
          /\ p \in Prepaid => Enough(row[VariantOf[k]], UnitsOf[k])
          /\ locked' = [locked EXCEPT ![p] = IF row[VariantOf[k]] = Absent THEN @ ELSE @ \cup {k}]
    BY <2>1 DEF LockLine
  <2>3. l = k /\ row[VariantOf[k]] # Absent
    BY <1>1, <2>2
  <2>4. QED
    BY <2>1, <2>2, <2>3 DEF LockLine
<1>2. \A q \in Processes \ {p} : locked'[q] = locked[q]
  BY LocalNext DEF Local
<1>3. ASSUME NEW q \in Processes, NEW l \in locked[q], l \in locked'[q]
      PROVE  /\ row'[VariantOf[l]] # Absent
             /\ q \in Prepaid => Enough(row'[VariantOf[l]], UnitsOf[l])
  <2>1. l \in Lines /\ VariantOf[l] \in Variants /\ VariantOf[l] \in Held(q)
        /\ row[VariantOf[l]] # Absent
        /\ (q \in Prepaid => Enough(row[VariantOf[l]], UnitsOf[l]))
    BY <1>3, Quantities DEF Locks, Held
  <2>2. CASE q # p
    <3>1. row'[VariantOf[l]] = row[VariantOf[l]]
      BY <2>1, <2>2, Changed
    <3>2. QED
      BY <2>1, <3>1
  <2>3. CASE q = p
    <3>1. stage[p] = "lock" /\ p \in Prepaid \cup Cancels
      BY <1>3, <2>3 DEF Shape, Roles, Role
    <3>2. row' = row
      BY <1>3, <2>3, <3>1, Sorts
         DEF Act, OpenCart, CheckLine, PlaceOrder, ReadLine, TakeLine, SaveItems, BeginSale, CommitSale,
             BeginCancel, CommitCancel, LockLine, RollBack, Crash, tables
    <3>3. QED
      BY <2>1, <3>2
  <2>4. QED
    BY <2>2, <2>3
<1>4. ASSUME NEW q \in Processes, NEW l \in locked'[q]
      PROVE  /\ row'[VariantOf[l]] # Absent
             /\ q \in Prepaid => Enough(row'[VariantOf[l]], UnitsOf[l])
  <2>1. CASE l \in locked[q]
    BY <1>3, <1>4, <2>1
  <2>2. CASE l \notin locked[q]
    <3>1. q = p
      BY <1>2, <1>4, <2>2
    <3>2. QED
      BY <1>1, <1>4, <2>2, <3>1
  <2>3. QED
    BY <2>1, <2>2
<1>5. ASSUME NEW q \in Processes, NEW r \in Processes, q # r
      PROVE  Held(q)' \cap Held(r)' = {}
  <2>1. \A s \in Processes \ {p} : Held(s)' = Held(s)
    BY <1>2 DEF Held
  <2>2. ASSUME NEW s \in Processes, s # p PROVE Held(s)' \cap Held(p)' = {}
    <3>1. Held(s) \cap Held(p) = {}
      BY <2>2 DEF Locks
    <3>2. \A l \in locked'[p] : VariantOf[l] \in Held(p) \/ VariantOf[l] \notin Held(s)
      BY <1>1, <2>2 DEF Held, Free
    <3>3. Held(p)' = {VariantOf[l] : l \in locked'[p]}
      BY DEF Held
    <3>4. QED
      BY <2>1, <2>2, <3>1, <3>2, <3>3
  <2>3. q # p /\ r # p => Held(q)' \cap Held(r)' = {}
    BY <1>5, <2>1 DEF Locks
  <2>4. QED
    BY <1>5, <2>2, <2>3
<1>6. \A o \in Prepaid : \A l \in locked'[o] : Enough(row[VariantOf[l]], UnitsOf[l])'
  BY <1>4, Sorts DEF Enough
<1>7. QED
  BY <1>4, <1>5, <1>6 DEF Locks

(* What a call that does not move has in view stays in view.               *)
LEMMA RacedStays ==
  ASSUME TypeOK, NEW p \in Processes, Act(p), NEW q \in Processes, q # p, NEW v
  PROVE  <<q, v>> \in raced => <<q, v>> \in raced'
<1>1. CASE p \in Carts /\ ReadLine(p)
  <2>1. PICK u : raced' = raced \ {<<p, u>>} \/ raced' = raced
    BY <1>1 DEF ReadLine
  <2>2. QED
    BY <2>1
<1>2. CASE \E V : Written(p, V)
  BY <1>2 DEF Written
<1>3. CASE raced' = raced
  BY <1>3
<1>4. QED
  BY <1>1, <1>2, <1>3
     DEF Act, OpenCart, CheckLine, PlaceOrder, TakeLine, SaveItems, BeginSale, CommitSale, BeginCancel,
         CommitCancel, LockLine, RollBack, ReadRow, InsertRow, SaveRow, RemoveRow, Crash, history

LEMMA FreshOthers ==
  ASSUME IInv, NEW p \in Processes, Act(p), NEW q \in Processes, q # p, NEW v \in Variants
  PROVE  Knows(q, v)'
<1> USE DEF IInv
<1>1. stage'[q] = stage[q] /\ rest'[q] = rest[q] /\ copy'[q] = copy[q] /\ task'[q] = task[q]
  BY LocalNext DEF Local
<1>2. Pending(q)' = Pending(q) /\ Repeats(q, v)' = Repeats(q, v)
  BY <1>1 DEF Pending, Repeats, LinesOf
<1>3. Watches(q, v)' = Watches(q, v)
  BY <1>1, <1>2 DEF Watches
<1> SUFFICES ASSUME Watches(q, v), <<q, v>> \notin raced'
             PROVE  /\ stage[q] \in {"save", "again"} /\ copy[q].variant = v =>
                         /\ copy[q].row = row'[v]
                         /\ q \in Carts => Repeats(q, v) \/ Enough(row'[v], UnitsOf[task[q]])
                    /\ q \in Carts => \A l \in Pending(q) :
                         VariantOf[l] = v => Repeats(q, v) \/ Enough(row'[v], UnitsOf[l])
  BY <1>1, <1>2, <1>3 DEF Knows, Enough
<1>4. <<q, v>> \notin raced /\ (row'[v] = row[v] \/ row[v] = Absent)
  BY RacedStays, Changed
<1>5. Knows(q, v)
  BY DEF Fresh
<1>6. CASE row'[v] = row[v]
  BY <1>4, <1>5, <1>6 DEF Knows
<1>7. CASE row[v] = Absent
  <2>1. stage[q] \in {"save", "again"} /\ copy[q].variant = v => copy[q].row \in Row
    BY Hands
  <2>2. ~(stage[q] \in {"save", "again"} /\ copy[q].variant = v)
    BY <1>4, <1>5, <1>7, <2>1, Quantities DEF Knows
  <2>3. q \in Carts => \A l \in Pending(q) : VariantOf[l] = v => Repeats(q, v)
    BY <1>4, <1>5, <1>7 DEF Knows, Enough
  <2>4. QED
    BY <2>2, <2>3
<1>8. QED
  BY <1>4, <1>6, <1>7

(* A call that moves keeps what it had in view, or has just looked.        *)
LEMMA FreshOwn ==
  ASSUME IInv, NEW p \in Processes, Act(p), NEW v \in Variants
  PROVE  Knows(p, v)'
<1> USE DEF IInv, TypeOK, Goto
<1>0. /\ p \in Carts => CartProgress(p) /\ p \in Orders
      /\ Knows(p, v) /\ Role(p)
      /\ p \in Carts => p \notin Prepaid \cup Cancels \cup Staff
      /\ Repeats(p, v)' = Repeats(p, v) /\ LinesOf(p)' = LinesOf(p)
      /\ p \in Staff => p \notin Carts
  BY Sorts DEF Shape, Progress, Roles, Fresh, Repeats, LinesOf
<1>e. ASSUME stage'[p] \in {"done", "lock", "insert", "items"} PROVE Knows(p, v)'
  <2>1. Pending(p)' = {}
    BY <1>e DEF Pending
  <2>2. QED
    BY <1>e, <2>1 DEF Knows, Watches
(* A cart that saves nothing yet and has no more in view than before.      *)
<1>s. ASSUME p \in Carts, row'[v] = row[v], stage'[p] \in {"check", "place", "read"},
             \A l \in Pending(p)' : VariantOf[l] = v =>
               l \in Pending(p) \/ Repeats(p, v) \/ Enough(row[v], UnitsOf[l]),
             <<p, v>> \in raced => <<p, v>> \in raced'
      PROVE  Knows(p, v)'
  <2> SUFFICES ASSUME <<p, v>> \notin raced', NEW l \in Pending(p)', VariantOf[l] = v
               PROVE  Repeats(p, v) \/ Enough(row[v], UnitsOf[l])
    BY <1>0, <1>s DEF Knows, Watches, Enough
  <2>1. CASE l \in Pending(p)
    <3>1. Watches(p, v) /\ <<p, v>> \notin raced
      BY <1>s, <2>1 DEF Watches
    <3>2. QED
      BY <1>0, <1>s, <2>1, <3>1 DEF Knows
  <2>2. QED
    BY <1>s, <2>1
<1>1. CASE p \in Carts /\ OpenCart(p)
  <2>1. stage'[p] = "check" /\ rest'[p] = LinesOf(p) /\ row' = row /\ raced' = raced
    BY <1>1 DEF OpenCart, tables, history
  <2>2. Pending(p)' = {}
    BY <1>0, <2>1 DEF Pending
  <2>3. QED
    BY <1>1, <1>s, <2>1, <2>2
<1>2. CASE p \in Carts /\ CheckLine(p)
  <2>1. /\ stage[p] = "check" /\ row' = row /\ raced' = raced
    BY <1>2 DEF CheckLine, tables, history
  <2>2. CASE Ends(p)
    BY <1>e, <2>2 DEF Ends
  <2>3. CASE ~Ends(p)
    <3>1. PICK l \in rest[p] :
            /\ Enough(row[VariantOf[l]], UnitsOf[l]) /\ rest' = [rest EXCEPT ![p] = @ \ {l}]
            /\ stage' = [stage EXCEPT ![p] = IF rest[p] = {l} THEN "place" ELSE "check"]
      BY <1>2, <2>3 DEF CheckLine
    <3>2. stage'[p] \in {"check", "place"} /\ rest'[p] = rest[p] \ {l}
          /\ (stage'[p] = "place" => rest[p] = {l})
      BY <3>1
    <3>3. \A k \in Pending(p)' : k \in Pending(p) \/ k = l
      BY <1>0, <2>1, <3>2 DEF Pending
    <3>4. QED
      BY <1>2, <1>s, <2>1, <3>1, <3>2, <3>3
  <2>4. QED
    BY <2>2, <2>3
<1>3. CASE p \in Carts /\ PlaceOrder(p)
  <2>1. /\ stage[p] = "place" /\ stage'[p] = "read" /\ rest'[p] = LinesOf(p)
        /\ row' = row /\ raced' = raced
    BY <1>3 DEF PlaceOrder, history
  <2>2. Pending(p)' = Pending(p)
    BY <1>0, <2>1 DEF Pending
  <2>3. QED
    BY <1>3, <1>s, <2>1, <2>2
<1>4. CASE p \in Carts /\ ReadLine(p)
  <2>1. PICK l \in rest[p] :
          /\ rest' = [rest EXCEPT ![p] = @ \ {l}]
          /\ \/ /\ row[VariantOf[l]] # Absent
                /\ copy' = [copy EXCEPT ![p] = [variant |-> VariantOf[l], row |-> row[VariantOf[l]]]]
                /\ task' = [task EXCEPT ![p] = l]
                /\ raced' = IF Enough(row[VariantOf[l]], UnitsOf[l])
                              THEN raced \ {<<p, VariantOf[l]>>} ELSE raced
                /\ stage' = [stage EXCEPT ![p] = "save"]
             \/ /\ stage' = [stage EXCEPT ![p] = IF rest[p] = {l} THEN "items" ELSE "read"]
                /\ raced' = raced
    BY <1>4 DEF ReadLine
  <2>2. /\ stage[p] = "read" /\ row' = row /\ rest'[p] = rest[p] \ {l} /\ Pending(p) = rest[p]
        /\ rest[p] \subseteq LinesOf(p)
    BY <1>0, <1>4, <2>1 DEF ReadLine, tables, Pending, CartProgress
  <2>3. CASE stage'[p] = "read"
    <3>1. Pending(p)' = rest[p] \ {l} /\ raced' = raced
      BY <2>1, <2>2, <2>3 DEF Pending
    <3>2. QED
      BY <1>4, <1>s, <2>2, <2>3, <3>1
  <2>4. CASE stage'[p] = "save"
    <3>1. /\ copy'[p].variant = VariantOf[l] /\ copy'[p].row = row[VariantOf[l]] /\ task'[p] = l
          /\ raced' = IF Enough(row[VariantOf[l]], UnitsOf[l])
                        THEN raced \ {<<p, VariantOf[l]>>} ELSE raced
          /\ Pending(p)' = rest[p] \ {l}
      BY <1>4, <2>1, <2>2, <2>4 DEF Pending
    <3>2. \A k \in rest[p] \ {l} : VariantOf[k] = VariantOf[l] => Repeats(p, VariantOf[l])
      BY <2>2 DEF Repeats
    <3>3. CASE v = VariantOf[l]
      <4>1. <<p, v>> \notin raced' => Repeats(p, v) \/ Enough(row[v], UnitsOf[l])
        <5>1. Watches(p, v)
          BY <1>4, <2>2, <3>3 DEF Watches
        <5>2. <<p, v>> \notin raced => Repeats(p, v) \/ Enough(row[v], UnitsOf[l])
          BY <1>0, <1>4, <2>2, <3>3, <5>1 DEF Knows
        <5>3. QED
          BY <3>1, <3>3, <5>2
      <4>2. QED
        BY <1>0, <2>2, <3>1, <3>2, <3>3, <4>1 DEF Knows, Enough
    <3>4. CASE v # VariantOf[l]
      <4>1. <<p, v>> \in raced => <<p, v>> \in raced'
        BY <3>1, <3>4
      <4>2. \A k \in Pending(p)' : VariantOf[k] = v /\ <<p, v>> \notin raced' =>
              Repeats(p, v) \/ Enough(row[v], UnitsOf[k])
        BY <1>0, <1>4, <2>2, <3>1, <4>1 DEF Knows, Watches
      <4>3. QED
        BY <1>0, <2>2, <3>1, <3>4, <4>2 DEF Knows, Enough
    <3>5. QED
      BY <3>3, <3>4
  <2>5. QED
    BY <1>e, <2>1, <2>3, <2>4
<1>5. CASE p \in Carts /\ TakeLine(p)
  <2> DEFINE u == copy[p].variant
  <2>1. /\ stage[p] = "save" /\ stage'[p] \in {"items", "read"} /\ rest'[p] = rest[p]
        /\ v # u => row'[v] = row[v]
        /\ v # u /\ <<p, v>> \in raced => <<p, v>> \in raced'
        /\ task[p] \in LinesOf(p) \ rest[p] /\ u = VariantOf[task[p]] /\ rest[p] \subseteq LinesOf(p)
    BY <1>0, <1>5 DEF TakeLine, Written, CartProgress
  <2>2. CASE stage'[p] = "read"
    <3>1. Pending(p)' = rest[p] /\ Pending(p) = rest[p]
      BY <2>1, <2>2 DEF Pending
    <3>2. CASE v = u
      <4>1. \A l \in rest[p] : VariantOf[l] = v => Repeats(p, v)
        BY <2>1, <3>2 DEF Repeats
      <4>2. QED
        BY <1>0, <2>2, <3>1, <4>1 DEF Knows
    <3>3. CASE v # u
      BY <1>5, <1>s, <2>1, <2>2, <3>1, <3>3
    <3>4. QED
      BY <3>2, <3>3
  <2>3. QED
    BY <1>e, <2>1, <2>2
<1>6. CASE p \in Staff /\ ReadRow(p)
  <2>1. PICK e \in Edits :
          \/ /\ copy' = [copy EXCEPT ![p] = [variant |-> e.variant, row |-> row[e.variant]]]
             /\ stage' = [stage EXCEPT ![p] = "save"]
          \/ stage' = [stage EXCEPT ![p] = "insert"]
          \/ Ends(p)
    BY <1>6 DEF ReadRow
  <2>2. row' = row
    BY <1>6 DEF ReadRow, tables
  <2>3. CASE Ends(p)
    BY <1>e, <2>3 DEF Ends
  <2>4. CASE ~Ends(p)
    <3>1. CASE stage' = [stage EXCEPT ![p] = "insert"]
      BY <1>e, <3>1
    <3>2. CASE copy' = [copy EXCEPT ![p] = [variant |-> e.variant, row |-> row[e.variant]]]
      <4>1. copy'[p] = [variant |-> e.variant, row |-> row[e.variant]]
        BY <3>2
      <4>2. copy'[p].variant = e.variant /\ copy'[p].row = row[e.variant]
        BY <4>1
      <4>3. QED
        BY <1>0, <1>6, <2>2, <4>2 DEF Knows
    <3>3. QED
      BY <2>1, <2>4, <3>1, <3>2
  <2>5. QED
    BY <2>3, <2>4
<1>7. CASE p \in Staff /\ InsertRow(p)
  <2> DEFINE r == New(p, task[p])
  <2>0. task[p].variant \in Variants
    BY <1>0, <1>7, EditType DEF InsertRow, Role
  <2>1. \/ Ends(p)
        \/ /\ row' = [row EXCEPT ![task[p].variant] = r]
           /\ copy' = [copy EXCEPT ![p] = [variant |-> task[p].variant, row |-> r]]
    BY <1>7 DEF InsertRow
  <2> HIDE DEF r
  <2>2. CASE Ends(p)
    BY <1>e, <2>2 DEF Ends
  <2>3. CASE ~Ends(p)
    <3>1. copy'[p].variant = task[p].variant /\ copy'[p].row = row'[task[p].variant]
      BY <2>0, <2>1, <2>3
    <3>2. QED
      BY <1>0, <1>7, <3>1 DEF Knows
  <2>4. QED
    BY <2>2, <2>3
<1>8. CASE p \in Staff /\ SaveRow(p)
  <2>1. CASE Ends(p)
    BY <1>e, <2>1 DEF Ends
  <2>2. CASE ~Ends(p)
    <3>1. /\ stage[p] = "save" /\ task[p].kind = "sync" /\ UNCHANGED copy
          /\ row' = [row EXCEPT ![copy[p].variant] = copy[p].row]
      BY <1>8, <2>2 DEF SaveRow
    <3>2. copy'[p].row = row'[copy'[p].variant]
      BY <3>1, Hands
    <3>3. QED
      BY <1>0, <1>8, <3>2 DEF Knows
  <2>3. QED
    BY <2>1, <2>2
<1>9. CASE \/ p \in Carts /\ SaveItems(p)
           \/ p \in Prepaid /\ (BeginSale(p) \/ CommitSale(p))
           \/ p \in Cancels /\ (BeginCancel(p) \/ CommitCancel(p))
           \/ p \in Prepaid \cup Cancels /\ (LockLine(p) \/ RollBack(p))
           \/ p \in Staff /\ RemoveRow(p)
           \/ Crash(p)
  <2>1. stage'[p] \in {"done", "lock"}
    BY <1>9 DEF SaveItems, BeginSale, CommitSale, BeginCancel, CommitCancel, LockLine, RollBack,
                RemoveRow, Crash, Ends, history
  <2>2. QED
    BY <1>e, <2>1
<1>10. QED
  BY <1>1, <1>2, <1>3, <1>4, <1>5, <1>6, <1>7, <1>8, <1>9 DEF Act

LEMMA ActKeeps ==
  ASSUME IInv, NEW p \in Processes, Act(p)
  PROVE  IInv'
<1>1. TypeOK' /\ Shape' /\ Locks'
  BY TypeNext, ShapeNext, LocksNext DEF IInv
<1>2. \A q \in Processes, v \in Variants : Knows(q, v)'
  BY FreshOthers, FreshOwn
<1>3. QED
  BY <1>1, <1>2 DEF IInv, Fresh

(* A change of status by hand keeps all of it: the order is known for it.  *)
LEMMA RelabelKeeps ==
  ASSUME IInv, NEW o \in Orders, Relabel(o)
  PROVE  IInv'
<1> USE DEF IInv
<1>1. /\ cancelled' \subseteq cancelled \cup {o} /\ cancelled \subseteq cancelled' \cup {o}
      /\ adrift' = adrift \cup {o} /\ Settled(o)
      /\ row' = row /\ locked' = locked /\ order' = order /\ stage' = stage /\ rest' = rest
      /\ copy' = copy /\ task' = task /\ booked' = booked /\ taken' = taken /\ raced' = raced
  BY DEF Relabel, calls
<1>2. TypeOK'
  <2>1. cancelled' \subseteq Orders /\ adrift' \subseteq Orders
    BY <1>1 DEF TypeOK
  <2>2. QED
    BY <1>1, <2>1 DEF TypeOK
<1>3. Roles'
  BY <1>1 DEF Shape, Roles, Role
<1>4. \A q : LinesOf(q)' = LinesOf(q)
  BY DEF LinesOf
<1>5. ASSUME NEW c \in Carts PROVE CartProgress(c)'
  <2>1. CartProgress(c) /\ (c \notin adrift' => c \notin adrift)
    BY <1>1 DEF Shape, Progress
  <2>2. QED
    BY <1>1, <1>4, <2>1 DEF CartProgress
<1>6. ASSUME NEW c \in Prepaid PROVE SaleProgress(c)'
  <2>1. SaleProgress(c)
    BY DEF Shape, Progress
  <2>2. QED
    BY <1>1, <1>4, <2>1 DEF SaleProgress
<1>7. ASSUME NEW c \in Cancels PROVE CancelProgress(c)'
  <2>1. CancelProgress(c) /\ (stage[c] = "lock" => task[c] # o)
    BY <1>1 DEF Shape, Progress, Settled
  <2>2. QED
    BY <1>1, <1>4, <2>1 DEF CancelProgress
<1>8. Single' /\ Early'
  BY <1>1 DEF Shape, Progress, Single, Early
<1>9. UnitsFollowOrders'
  <2> SUFFICES ASSUME NEW q \in Orders
               PROVE  /\ q \in Prepaid => order'[q] # "placed"
                      /\ order'[q] = "none" => LinesOf(q)' \cap taken' = {}
                      /\ q \notin adrift' /\ order'[q] = "itemised" =>
                           IF q \in cancelled' THEN LinesOf(q)' \cap taken' = {}
                                               ELSE LinesOf(q)' \subseteq taken'
    BY DEF UnitsFollowOrders
  <2>1. q \notin adrift' => q \notin adrift /\ (q \in cancelled' <=> q \in cancelled)
    BY <1>1
  <2>2. QED
    BY <1>1, <1>4, <2>1 DEF Shape, UnitsFollowOrders
<1>10. Locks'
  BY <1>1 DEF Locks, Held, Enough
<1>11. Fresh'
  BY <1>1 DEF Fresh, Knows, Watches, Pending, Repeats, Enough, LinesOf
<1>12. QED
  BY <1>2, <1>3, <1>5, <1>6, <1>7, <1>8, <1>9, <1>10, <1>11 DEF Shape, Progress

LEMMA Still ==
  ASSUME IInv, UNCHANGED vars
  PROVE  IInv'
<1>1. /\ row' = row /\ locked' = locked /\ order' = order /\ cancelled' = cancelled
      /\ stage' = stage /\ rest' = rest /\ copy' = copy /\ task' = task /\ booked' = booked
      /\ taken' = taken /\ raced' = raced /\ adrift' = adrift
  BY DEF vars, tables, calls, history
<1>2. TypeOK' /\ Roles' /\ Locks'
  BY <1>1 DEF IInv, TypeOK, Shape, Roles, Role, Locks, Held, Enough
<1>3. Progress'
  BY <1>1 DEF IInv, Shape, Progress, CartProgress, SaleProgress, CancelProgress, Single, Early, LinesOf
<1>4. UnitsFollowOrders'
  BY <1>1 DEF IInv, Shape, UnitsFollowOrders, LinesOf
<1>5. Fresh'
  BY <1>1 DEF IInv, Fresh, Knows, Watches, Pending, Repeats, Enough, LinesOf
<1>6. QED
  BY <1>2, <1>3, <1>4, <1>5 DEF IInv, Shape

LEMMA Invariance == Spec => []IInv
<1>1. Init => IInv
  <2> SUFFICES ASSUME Init PROVE Fresh
    BY TypeInit DEF IInv
  <2>1. ASSUME NEW p \in Processes, NEW v \in Variants PROVE ~Watches(p, v)
    BY <2>1 DEF Init, Watches, Pending
  <2>2. QED
    BY <2>1 DEF Fresh, Knows
<1>2. IInv /\ [Next]_vars => IInv'
  BY Acts, ActKeeps, RelabelKeeps, Still
<1>3. QED
  BY <1>1, <1>2, PTL DEF Spec

(***************************************************************************)
(* The books: what each kind of write does to a row that agrees with them. *)
(***************************************************************************)
Errs(p, v) == Overtaken(p, v) \/ Oversells(p, v) \/ Undercuts(p, v) \/ RestocksAgain(p, v)

LEMMA TakeLineBooks ==
  ASSUME IInv, NEW p \in Carts, TakeLine(p), NEW v \in Variants, Explained(v), ~Errs(p, v)
  PROVE  Explained(v)'
<1> DEFINE l == task[p]
           u == copy[p].variant
           n == UnitsOf[l]
<1> USE DEF IInv
<1>0. p \in Processes /\ TypeOK
  BY Sorts
<1>1. /\ l \in LinesOf(p) /\ u = VariantOf[l] /\ l \notin taken /\ l \in Lines
      /\ u \in Variants /\ copy[p].row \in Row /\ n \in Nat
      /\ stage[p] = "save" /\ taken' = taken \cup {l} /\ booked' = booked
      /\ row' = [row EXCEPT ![u] = Less(copy[p].row, n)]
  <2>1. CartProgress(p)
    BY DEF Shape, Progress
  <2>2. stage[p] = "save" /\ taken' = taken \cup {l} /\ booked' = booked
        /\ row' = [row EXCEPT ![u] = Less(copy[p].row, n)]
    BY DEF TakeLine
  <2>3. l \in LinesOf(p) /\ u = VariantOf[l] /\ l \notin taken
    BY <2>1, <2>2 DEF CartProgress
  <2>4. u \in Variants /\ copy[p].row \in Row
    BY <1>0, <2>2, Hands
  <2>5. QED
    BY <2>2, <2>3, <2>4, Quantities
<1> HIDE DEF l, u, n
<1>2. CASE v # u
  <2>1. row'[v] = row[v]
    BY <1>0, <1>1, <1>2 DEF TypeOK
  <2>2. UnitsIn(taken', v) = UnitsIn(taken, v)
    BY <1>1, <1>2, UnitsElsewhere
  <2>3. QED
    BY <1>1, <2>1, <2>2 DEF Explained
<1>3. CASE v = u
  <2>1. <<p, v>> \notin raced /\ Watches(p, v)
    BY <1>0, <1>1, <1>3 DEF Errs, Overtaken, Watches, u
  <2>2. Knows(p, v)
    BY <1>0 DEF Fresh
  <2>3. copy[p].row = row[v] /\ (Repeats(p, v) \/ Enough(row[v], n))
    BY <1>1, <1>3, <2>1, <2>2 DEF Knows, l, u, n
  <2>4. Enough(row[v], n)
    BY <1>1, <1>3, <2>3 DEF Errs, Oversells, l, u, n
  <2>5. row[v] \in Row /\ row[v] # Absent
    BY <1>1, <2>3, Quantities
  <2>6. /\ Less(row[v], n).quantity = row[v].quantity - n
        /\ Less(row[v], n).available = Less(row[v], n).quantity - Less(row[v], n).reserved
    BY <1>1, <2>4, <2>5, LessExplained DEF Explained
  <2>7. row'[v] = Less(row[v], n)
    BY <1>0, <1>1, <1>3, <2>3 DEF TypeOK
  <2>8. UnitsIn(taken', v) = UnitsIn(taken, v) + n
    <3>1. {l} \in SUBSET Lines /\ taken \in SUBSET Lines /\ taken \cap {l} = {}
      BY <1>0, <1>1 DEF TypeOK
    <3>2. UnitsIn({l}, v) = UnitsOf[l]
      BY <1>1, <1>3, <3>1, UnitsOfOne
    <3>3. UnitsIn(taken \cup {l}, v) = UnitsIn(taken, v) + UnitsIn({l}, v)
      BY <3>1, UnitsJoin
    <3>4. QED
      BY <1>1, <3>2, <3>3 DEF n
  <2>9. booked[v] \in Int /\ UnitsIn(taken, v) \in Nat /\ row[v].quantity \in Int
    BY <1>0, <2>5, UnitsType DEF TypeOK, Row
  <2>10. row[v].quantity = booked[v] - UnitsIn(taken, v)
    BY <2>5 DEF Explained
  <2>11. row'[v].quantity = booked'[v] - UnitsIn(taken', v)
    BY <1>1, <2>6, <2>7, <2>8, <2>9, <2>10
  <2>12. QED
    BY <2>6, <2>7, <2>11 DEF Explained
<1>4. QED
  BY <1>2, <1>3

LEMMA CommitSaleBooks ==
  ASSUME IInv, NEW p \in Prepaid, CommitSale(p), NEW v \in Variants, Explained(v), ~Errs(p, v)
  PROVE  Explained(v)'
<1> DEFINE S == locked[p]
           n == UnitsIn(S, v)
<1> USE DEF IInv
<1>0. p \in Processes /\ p \in Orders /\ TypeOK
  BY Sorts
<1>1. /\ S \subseteq LinesOf(p) /\ S \cap taken = {} /\ S \in SUBSET Lines /\ taken \in SUBSET Lines
      /\ stage[p] = "lock" /\ taken' = taken \cup S /\ booked' = booked
      /\ row'[v] = IF v \in Held(p) THEN Less(row[v], n) ELSE row[v]
  <2>1. SaleProgress(p) /\ UnitsFollowOrders
    BY DEF Shape, Progress
  <2>2. stage[p] = "lock" /\ taken' = taken \cup S /\ booked' = booked
        /\ row'[v] = IF v \in Held(p) THEN Less(row[v], n) ELSE row[v]
    BY DEF CommitSale
  <2>3. S \subseteq LinesOf(p) /\ order[p] = "none"
    BY <2>1, <2>2 DEF SaleProgress
  <2>4. LinesOf(p) \cap taken = {}
    BY <1>0, <2>1, <2>3 DEF UnitsFollowOrders
  <2>5. QED
    BY <1>0, <2>2, <2>3, <2>4, Quantities DEF TypeOK
<1> HIDE DEF S, n
<1>2. CASE v \notin Held(p)
  <2>1. UnitsIn(taken', v) = UnitsIn(taken, v)
    BY <1>1, <1>2, UnitsElsewhere DEF Held, S
  <2>2. QED
    BY <1>1, <1>2, <2>1 DEF Explained
<1>3. CASE v \in Held(p)
  <2>1. PICK l \in S : VariantOf[l] = v
    BY <1>3 DEF Held, S
  <2>2. row[v] \in Row /\ row[v] # Absent
    BY <1>0, <1>3, Hands, Quantities
  <2>3. Enough(row[v], n)
    <3>1. CASE Repeats(p, v)
      BY <1>1, <3>1 DEF Errs, Oversells, S, n
    <3>2. CASE ~Repeats(p, v)
      <4>1. \A k \in S : VariantOf[k] = VariantOf[l] => k = l
        BY <1>1, <2>1, <3>2 DEF Repeats
      <4>2. n = UnitsOf[l]
        BY <1>1, <2>1, <4>1, UnitsOfOne DEF n
      <4>3. Enough(row[v], UnitsOf[l])
        BY <2>1 DEF Locks, S
      <4>4. QED
        BY <4>2, <4>3
    <3>3. QED
      BY <3>1, <3>2
  <2>4. n \in Nat /\ UnitsIn(taken, v) \in Nat /\ booked[v] \in Int /\ row[v].quantity \in Int
    BY <1>0, <1>1, <2>2, UnitsType DEF n, TypeOK, Row
  <2>5. /\ Less(row[v], n).quantity = row[v].quantity - n
        /\ Less(row[v], n).available = Less(row[v], n).quantity - Less(row[v], n).reserved
    BY <2>2, <2>3, <2>4, LessExplained DEF Explained
  <2>6. UnitsIn(taken', v) = UnitsIn(taken, v) + n
    BY <1>1, UnitsJoin DEF n
  <2>7. row[v].quantity = booked[v] - UnitsIn(taken, v)
    BY <2>2 DEF Explained
  <2>8. row'[v].quantity = booked'[v] - UnitsIn(taken', v)
    BY <1>1, <1>3, <2>4, <2>5, <2>6, <2>7
  <2>9. QED
    BY <1>1, <1>3, <2>5, <2>8 DEF Explained
<1>4. QED
  BY <1>2, <1>3

LEMMA CommitCancelBooks ==
  ASSUME IInv, NEW p \in Cancels, CommitCancel(p), NEW v \in Variants, Explained(v), ~Errs(p, v)
  PROVE  Explained(v)'
<1> DEFINE S == locked[p]
           n == UnitsIn(S, v)
<1> USE DEF IInv
<1>0. p \in Processes /\ TypeOK
  BY Sorts
<1>1. /\ S \in SUBSET Lines /\ taken \in SUBSET Lines
      /\ stage[p] = "lock" /\ taken' = taken \ S /\ booked' = booked
      /\ row'[v] = IF v \in Held(p) THEN More(row[v], n) ELSE row[v]
  BY <1>0 DEF CommitCancel, TypeOK
<1>2. \A l \in S : VariantOf[l] = v => l \in taken
  <2>1. CASE task[p] \in adrift
    BY <1>1, <2>1 DEF Errs, RestocksAgain, S
  <2>2. CASE task[p] \notin adrift
    <3>1. CancelProgress(p) /\ UnitsFollowOrders
      BY DEF Shape, Progress
    <3>2. /\ task[p] \in Orders /\ task[p] \notin cancelled
          /\ S = {} \/ (order[task[p]] = "itemised" /\ S \subseteq LinesOf(task[p]))
      BY <1>1, <3>1 DEF CancelProgress, S
    <3>3. QED
      BY <2>2, <3>1, <3>2 DEF UnitsFollowOrders
  <2>3. QED
    BY <2>1, <2>2
<1> HIDE DEF S, n
<1>3. n \in Nat /\ UnitsIn(taken, v) \in Nat /\ booked[v] \in Int
  BY <1>0, <1>1, UnitsType DEF n, TypeOK
<1>4. UnitsIn(taken', v) = UnitsIn(taken, v) - n
  BY <1>1, <1>2, UnitsLess DEF n
<1>5. CASE v \notin Held(p)
  <2>1. UnitsIn(taken', v) = UnitsIn(taken, v)
    BY <1>1, <1>5, UnitsElsewhere DEF Held, S
  <2>2. QED
    BY <1>1, <1>5, <2>1 DEF Explained
<1>6. CASE v \in Held(p)
  <2>1. row[v] \in Row /\ row[v] # Absent
    BY <1>0, <1>6, Hands, Quantities
  <2>2. /\ More(row[v], n).quantity = row[v].quantity + n
        /\ More(row[v], n).available = row[v].available + n
        /\ More(row[v], n).reserved = row[v].reserved
    BY <1>3, <2>1, MoreType
  <2>3. row[v].quantity \in Int /\ row[v].available \in Int /\ row[v].reserved \in Int
    BY <2>1 DEF Row
  <2>4. row[v].quantity = booked[v] - UnitsIn(taken, v)
        /\ row[v].available = row[v].quantity - row[v].reserved
    BY <2>1 DEF Explained
  <2>5. row'[v] = More(row[v], n)
    BY <1>1, <1>6
  <2>6. row'[v].quantity = booked'[v] - UnitsIn(taken', v)
    BY <1>1, <1>3, <1>4, <2>2, <2>3, <2>4, <2>5
  <2>7. row'[v].available = row'[v].quantity - row'[v].reserved
    BY <1>3, <2>2, <2>3, <2>4, <2>5
  <2>8. QED
    BY <2>6, <2>7 DEF Explained
<1>7. QED
  BY <1>5, <1>6

LEMMA InsertRowBooks ==
  ASSUME IInv, NEW p \in Staff, InsertRow(p), NEW v \in Variants, Explained(v)
  PROVE  Explained(v)'
<1> DEFINE e == task[p]
           r == New(p, e)
           n == UnitsIn(taken, e.variant)
<1> USE DEF IInv
<1>0. p \in Processes /\ TypeOK
  BY Sorts
<1>1. e \in Edits /\ e.kind \in Inserts
  BY <1>0 DEF InsertRow, Shape, Roles, Role
<1>2. /\ e.variant \in Variants /\ r \in Row /\ n \in Nat
      /\ r.available = r.quantity - r.reserved
  BY <1>0, <1>1, EditType, NewType, UnitsType DEF TypeOK
<1>3. /\ \/ /\ row' = [row EXCEPT ![e.variant] = r]
            /\ booked' = [booked EXCEPT ![e.variant] = r.quantity + n]
         \/ row' = row /\ booked' = booked
      /\ taken' = taken
  BY DEF InsertRow
<1> HIDE DEF r, n
<1>4. CASE row' = row /\ booked' = booked
  BY <1>3, <1>4 DEF Explained
<1>5. CASE /\ row' = [row EXCEPT ![e.variant] = r]
           /\ booked' = [booked EXCEPT ![e.variant] = r.quantity + n]
  <2>1. CASE v # e.variant
    <3>1. row'[v] = row[v] /\ booked'[v] = booked[v]
      BY <1>0, <1>5, <2>1 DEF TypeOK
    <3>2. QED
      BY <1>3, <3>1 DEF Explained
  <2>2. CASE v = e.variant
    <3>1. row'[v] = r /\ booked'[v] = r.quantity + n /\ UnitsIn(taken', v) = n
      BY <1>0, <1>3, <1>5, <2>2 DEF TypeOK, n
    <3>2. r.quantity \in Int
      BY <1>2 DEF Row
    <3>3. r.quantity = (r.quantity + n) - n
      BY <1>2, <3>2
    <3>4. QED
      BY <1>2, <3>1, <3>3 DEF Explained
  <2>3. QED
    BY <2>1, <2>2
<1>6. QED
  BY <1>3, <1>4, <1>5

LEMMA SaveRowBooks ==
  ASSUME IInv, NEW p \in Staff, SaveRow(p), NEW v \in Variants, Explained(v), ~Errs(p, v)
  PROVE  Explained(v)'
<1> DEFINE u == copy[p].variant
           first == stage[p] = "save" /\ task[p].kind = "sync"
           r == IF first THEN copy[p].row ELSE Edited(task[p], copy[p].row)
<1> USE DEF IInv
<1>0. p \in Processes /\ TypeOK
  BY Sorts
<1>1. /\ stage[p] \in {"save", "again"} /\ taken' = taken
      /\ row' = [row EXCEPT ![u] = r]
      /\ booked' = [booked EXCEPT ![u] = @ + r.quantity - copy[p].row.quantity]
  BY DEF SaveRow
<1>2. u \in Variants /\ copy[p].row \in Row /\ task[p] \in Edits /\ r \in Row
  BY <1>0, <1>1, Hands, SavedType
<1>3. CASE v # u
  <2>1. row'[v] = row[v] /\ booked'[v] = booked[v]
    BY <1>0, <1>1, <1>3 DEF TypeOK
  <2>2. QED
    BY <1>1, <2>1 DEF Explained
<1>4. CASE v = u
  <2>1. Watches(p, v) /\ <<p, v>> \notin raced /\ Knows(p, v)
    BY <1>0, <1>1, <1>4 DEF Errs, Overtaken, Watches, Fresh
  <2>2. copy[p].row = row[v]
    BY <1>1, <1>4, <2>1 DEF Knows
  <2>3. row[v] \in Row /\ row[v] # Absent
    BY <1>2, <2>2, Quantities
  <2>4. row[v].quantity = booked[v] - UnitsIn(taken, v)
        /\ row[v].available = row[v].quantity - row[v].reserved
    BY <2>3 DEF Explained
  <2>5. r.available = r.quantity - r.reserved
    <3>1. CASE first
      BY <2>2, <2>4, <3>1
    <3>2. CASE ~first
      <4>1. task[p].kind \in {"set", "sync"} => task[p].units >= row[v].reserved
        <5>1. task[p].units \in Int /\ row[v].reserved \in Int
          BY <1>2, <2>3, EditType DEF Row
        <5>2. task[p].kind \in {"set", "sync"} => ~(task[p].units < row[v].reserved)
          BY <1>1, <1>4, <2>2 DEF Errs, Undercuts
        <5>3. QED
          BY <5>1, <5>2
      <4>2. Edited(task[p], row[v]).available
              = Edited(task[p], row[v]).quantity - Edited(task[p], row[v]).reserved
        BY <1>2, <2>3, <2>4, <4>1, EditedExplained
      <4>3. r = Edited(task[p], row[v])
        BY <2>2, <3>2
      <4>4. QED
        BY <4>2, <4>3
    <3>3. QED
      BY <3>1, <3>2
  <2> HIDE DEF r
  <2>6. row'[v] = r /\ booked'[v] = booked[v] + r.quantity - row[v].quantity
    BY <1>0, <1>1, <1>4, <2>2 DEF TypeOK
  <2>7. r.quantity \in Int /\ row[v].quantity \in Int /\ booked[v] \in Int /\ UnitsIn(taken, v) \in Int
    BY <1>0, <1>2, <2>3, UnitsType DEF TypeOK, Row
  <2>8. row'[v].quantity = booked'[v] - UnitsIn(taken', v)
    <3>1. UnitsIn(taken', v) = UnitsIn(taken, v)
      BY <1>1
    <3>2. QED
      BY <2>4, <2>6, <2>7, <3>1
  <2>9. QED
    BY <2>5, <2>6, <2>8 DEF Explained
<1>5. QED
  BY <1>3, <1>4

LEMMA RemoveRowBooks ==
  ASSUME IInv, NEW p \in Staff, RemoveRow(p), NEW v \in Variants, Explained(v)
  PROVE  Explained(v)'
<1>1. PICK e \in Edits : row' = [row EXCEPT ![e.variant] = Absent]
  BY DEF RemoveRow
<1>2. booked' = booked /\ taken' = taken /\ (row'[v] = Absent \/ row'[v] = row[v])
  BY <1>1 DEF RemoveRow, IInv, TypeOK
<1>3. QED
  BY <1>2 DEF Explained

(* No other step touches the rows or the books.                            *)
LEMMA Books ==
  ASSUME IInv, NEW p \in Processes, Act(p), NEW v \in Variants, Explained(v), ~Explained(v)'
  PROVE  stage'[p] # stage[p] /\ Errs(p, v)
<1>1. CASE p \in Carts /\ TakeLine(p)
  BY <1>1, TakeLineBooks DEF TakeLine, Goto, IInv, TypeOK
<1>2. CASE p \in Prepaid /\ CommitSale(p)
  BY <1>2, CommitSaleBooks DEF CommitSale, Ends, Goto, IInv, TypeOK
<1>3. CASE p \in Cancels /\ CommitCancel(p)
  BY <1>3, CommitCancelBooks DEF CommitCancel, Ends, Goto, IInv, TypeOK
<1>4. CASE p \in Staff /\ (InsertRow(p) \/ RemoveRow(p))
  BY <1>4, InsertRowBooks, RemoveRowBooks
<1>5. CASE p \in Staff /\ SaveRow(p)
  <2>1. stage'[p] # stage[p]
    BY <1>5 DEF SaveRow, Ends, Goto, IInv, TypeOK
  <2>2. QED
    BY <1>5, <2>1, SaveRowBooks
<1>6. CASE row' = row /\ booked' = booked /\ taken' = taken
  BY <1>6 DEF Explained
<1>7. QED
  BY <1>1, <1>2, <1>3, <1>4, <1>5, <1>6
     DEF Act, OpenCart, CheckLine, PlaceOrder, ReadLine, SaveItems, BeginSale, BeginCancel,
         LockLine, RollBack, ReadRow, Crash, tables, history

(***************************************************************************)
(* The theorems.                                                           *)
(***************************************************************************)
(* Every variable keeps its type, and no quantity or reservation falls     *)
(* below zero, whoever overtakes whom.                                     *)
THEOREM TypeCorrect == Spec => []TypeOK
<1>1. IInv => TypeOK
  BY DEF IInv
<1>2. QED
  BY <1>1, Invariance, PTL

(* The units of an order are out of the stock, or back in it, as its       *)
(* status says, unless the status was changed by hand, the order was       *)
(* cancelled before it had items, or a row was missing.                    *)
THEOREM UnitsFollow == Spec => []UnitsFollowOrders
<1>1. IInv => UnitsFollowOrders
  BY DEF IInv, Shape
<1>2. QED
  BY <1>1, Invariance, PTL

(* A row stops agreeing with the books in four ways only, each of one      *)
(* call: it was overtaken, it sells several lines that were checked one by *)
(* one, it sets a quantity below the reservation, or it cancels an order   *)
(* that was revived after its units were back.                             *)
THEOREM KnownErrors == Spec => StockErrsInKnownWays
<1>1. IInv /\ [Next]_vars =>
        [\A v \in Variants :
           Explained(v) /\ ~Explained(v)' =>
             \E p \in Processes :
               /\ stage'[p] # stage[p]
               /\ Overtaken(p, v) \/ Oversells(p, v) \/ Undercuts(p, v) \/ RestocksAgain(p, v)]_vars
  <2> SUFFICES ASSUME IInv, Next, NEW v \in Variants, Explained(v), ~Explained(v)'
               PROVE  \E p \in Processes :
                        /\ stage'[p] # stage[p]
                        /\ Overtaken(p, v) \/ Oversells(p, v) \/ Undercuts(p, v) \/ RestocksAgain(p, v)
    OBVIOUS
  <2>1. ASSUME NEW o \in Orders, Relabel(o) PROVE FALSE
    BY <2>1 DEF Relabel, Explained
  <2>2. PICK p \in Processes : Act(p)
    BY <2>1, Acts
  <2>3. stage'[p] # stage[p] /\ Errs(p, v)
    BY <2>2, Books
  <2>4. QED
    BY <2>3 DEF Errs
<1>2. QED
  BY <1>1, Invariance, PTL DEF Spec, StockErrsInKnownWays
=============================================================================
