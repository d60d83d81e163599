------------------------ MODULE PurchaseOrdersProofs ------------------------
(***************************************************************************)
(* What holds of purchase orders for every set of calls, every quantity    *)
(* and every interleaving and crash.                                       *)
(***************************************************************************)
EXTENDS PurchaseOrders, FiniteSetTheorems, FunctionTheorems, TLAPS

(***************************************************************************)
(* Sums of quantities: the units of a row are counted one by one.          *)
(***************************************************************************)
(* The rows of a finite table hold finitely many cents.                    *)
LEMMA CentsFinite ==
  ASSUME NEW S, IsFiniteSet(S), NEW f, \A k \in S : f[k] \in Nat
  PROVE  IsFiniteSet(Cents(S, f))
<1> DEFINE T == {{k} \X (1 .. f[k]) : k \in S}
           g == [k \in S |-> {k} \X (1 .. f[k])]
<1>1. IsFiniteSet(T)
  <2>1. g \in Surjection(S, T)
    BY DEF Surjection
  <2>2. QED
    BY <2>1, FS_Surjection
<1>2. ASSUME NEW U \in T PROVE IsFiniteSet(U)
  <2>1. PICK k \in S : U = {k} \X (1 .. f[k])
    BY <1>2
  <2>2. IsFiniteSet({k})
    BY FS_Singleton
  <2>3. IsFiniteSet(1 .. f[k])
    BY FS_Interval
  <2>4. QED
    BY <2>1, <2>2, <2>3, FS_Product
<1>3. QED
  BY <1>1, <1>2, FS_UNION DEF Cents

(* One row contributes its amount.                                         *)
LEMMA OneRow ==
  ASSUME NEW k, NEW n \in Nat
  PROVE  IsFiniteSet({k} \X (1 .. n)) /\ Cardinality({k} \X (1 .. n)) = n
<1>1. IsFiniteSet({k}) /\ Cardinality({k}) = 1
  BY FS_Singleton
<1>2. IsFiniteSet(1 .. n) /\ Cardinality(1 .. n) = n
  BY FS_Interval
<1>3. /\ IsFiniteSet({k} \X (1 .. n))
      /\ Cardinality({k} \X (1 .. n)) = Cardinality({k}) * Cardinality(1 .. n)
  BY <1>1, <1>2, FS_Product
<1>4. 1 * n = n
  OBVIOUS
<1>5. QED
  BY <1>1, <1>2, <1>3, <1>4

(* A sum is a natural number.                                              *)
LEMMA TotalType ==
  ASSUME NEW S, IsFiniteSet(S), NEW f, \A k \in S : f[k] \in Nat
  PROVE  Total(S, f) \in Nat
BY CentsFinite, FS_CardinalityType DEF Total

(* The sum depends only on the amounts of the rows it adds.                *)
LEMMA TotalAgree ==
  ASSUME NEW S, NEW f, NEW g, \A k \in S : f[k] = g[k]
  PROVE  Total(S, f) = Total(S, g)
<1>1. Cents(S, f) = Cents(S, g)
  BY DEF Cents
<1>2. QED
  BY <1>1 DEF Total

(* Rows without an amount have no sum.                                     *)
LEMMA TotalZero ==
  ASSUME NEW S, NEW f, \A k \in S : f[k] = 0
  PROVE  Total(S, f) = 0
<1>1. Cents(S, f) = {}
  BY DEF Cents
<1>2. QED
  BY <1>1, FS_EmptySet DEF Total

(* Larger amounts have a larger sum.                                       *)
LEMMA TotalMono ==
  ASSUME NEW S, IsFiniteSet(S), NEW f, NEW g,
         \A k \in S : f[k] \in Nat /\ g[k] \in Nat /\ f[k] <= g[k]
  PROVE  Total(S, f) <= Total(S, g)
<1>1. Cents(S, f) \subseteq Cents(S, g)
  <2>1. \A k \in S : 1 .. f[k] \subseteq 1 .. g[k]
    OBVIOUS
  <2>2. QED
    BY <2>1 DEF Cents
<1>2. IsFiniteSet(Cents(S, g))
  BY CentsFinite
<1>3. QED
  BY <1>1, <1>2, FS_Subset DEF Total

(* A sum is that of all rows but one, and of that one.                     *)
LEMMA TotalSplit ==
  ASSUME NEW S, IsFiniteSet(S), NEW k \in S, NEW f, \A x \in S : f[x] \in Nat
  PROVE  Total(S, f) = Total(S \ {k}, f) + f[k] /\ Total(S \ {k}, f) \in Nat
<1> DEFINE A == Cents(S \ {k}, f)
           B == {k} \X (1 .. f[k])
<1>1. Cents(S, f) = A \cup B /\ A \cap B = {}
  BY DEF Cents
<1>2. IsFiniteSet(A) /\ Cardinality(A) \in Nat
  BY CentsFinite, FS_RemoveElement, FS_CardinalityType
<1>3. IsFiniteSet(B) /\ Cardinality(B) = f[k]
  BY OneRow
<1>4. Cardinality(A \cap B) = 0 /\ f[k] \in Nat
  BY <1>1, FS_EmptySet
<1>5. Cardinality(A \cup B) = Cardinality(A) + Cardinality(B) - Cardinality(A \cap B)
  BY <1>2, <1>3, FS_Union
<1> HIDE DEF A, B
<1>6. Cardinality(A \cup B) = Cardinality(A) + f[k]
  BY <1>2, <1>3, <1>4, <1>5
<1>7. QED
  BY <1>1, <1>2, <1>6 DEF Total, A

(* A change of one row changes the sum by as much.                         *)
LEMMA TotalBump ==
  ASSUME NEW S, IsFiniteSet(S), NEW k \in S, NEW n \in Nat, NEW f, NEW g,
         \A x \in S : f[x] \in Nat /\ g[x] \in Nat,
         \A x \in S \ {k} : g[x] = f[x],
         g[k] = f[k] + n
  PROVE  Total(S, g) = Total(S, f) + n
<1>1. Total(S, f) = Total(S \ {k}, f) + f[k] /\ Total(S \ {k}, f) \in Nat
  BY TotalSplit
<1>2. Total(S, g) = Total(S \ {k}, g) + g[k]
  BY TotalSplit
<1>3. Total(S \ {k}, g) = Total(S \ {k}, f)
  BY TotalAgree
<1>4. f[k] \in Nat
  OBVIOUS
<1>5. QED
  BY <1>1, <1>2, <1>3, <1>4
-----------------------------------------------------------------------------
(* The deliveries remember lines that were within the order.               *)
CopyWithinOrder ==
  \A g \in Receipts, l \in LineIds : copy[g][l].received <= copy[g][l].ordered

(* Nothing is known of an order before its create has begun.               *)
Unborn ==
  \A o \in Purchases : stage[o] = "idle" =>
    status[o] = "NONE" /\ \A c \in Calls : PurchaseOf[c] = o => stage[c] = "idle"

(* A call that still runs on a cancelled order began before that, and has  *)
(* been overtaken: the step that cancelled the order marked it.            *)
CancelIsSeen ==
  \A c \in Processes :
    status[Of(c)] = "CANCELLED" /\ stage[c] \notin {"idle", "done"} => c \in raced

(* Only deliveries book goods.                                             *)
Roles == \A p \in Processes : stage[p] \in {"item", "line", "stock", "status"} => p \in Receipts

TypeInv == TypeOK /\ Roles

Stages == {"idle", "lines", "total", "delete", "item", "line", "stock", "status", "save", "done"}

(* Calls are no orders.                                                    *)
LEMMA OfCalls ==
  /\ \A c \in Processes : Of(c) \in Purchases
  /\ \A c \in Calls : Of(c) = PurchaseOf[c]
  /\ \A o \in Purchases : Of(o) = o
BY ConstantsAssumption DEF Of, Processes, Calls

(* The items of a delivery are for the order of the delivery.              *)
LEMMA ItemFacts ==
  /\ IsFiniteSet(Goods) /\ IsFiniteSet(LineIds)
  /\ \A i \in Items : UnitsOf[i] \in Nat /\ UnitsOf[i] > 0 /\ VariantOf[i] \in Variants
  /\ \A l \in LineIds : l \in Items /\ CallOf[l] \in Writers /\ OrderOf(l) \in Purchases
  /\ \A i \in Goods : /\ i \in Items /\ CallOf[i] \in Receipts /\ OrderOf(i) \in Purchases
                      /\ OrderOf(i) = PurchaseOf[CallOf[i]] /\ i \in ItemsOf(CallOf[i])
  /\ \A g \in Receipts : \A i \in ItemsOf(g) : i \in Goods /\ CallOf[i] = g
<1>1. Goods \subseteq Items /\ LineIds \subseteq Items
  BY DEF Goods, LineIds
<1>2. IsFiniteSet(Goods) /\ IsFiniteSet(LineIds)
  BY <1>1, ConstantsAssumption, FS_Subset
<1>3. Writers \subseteq Processes /\ Receipts \subseteq Processes /\ Receipts \subseteq Calls
  BY DEF Writers, Processes, Calls
<1>4. QED
  BY <1>2, <1>3, OfCalls, ConstantsAssumption DEF Goods, LineIds, Variants, OrderOf, ItemsOf

(***************************************************************************)
(* Type correctness.                                                       *)
(***************************************************************************)
LEMMA StatusForType ==
  ASSUME TypeOK, NEW o \in Purchases
  PROVE  StatusFor(o) \in PurchaseOrderStatus \cup {"NONE"}
BY DEF StatusFor, TypeOK, PurchaseOrderStatus

(* What the steps share: they move one call and mark the others.           *)
LEMMA Moves ==
  ASSUME TypeInv, NEW p \in Processes, NEW next \in Stages, Goto(p, next),
         next \in {"item", "line", "stock", "status"} => p \in Receipts
  PROVE  stage' \in [Processes -> Stages] /\ Roles'
BY DEF TypeInv, TypeOK, Roles, Goto, Stages

LEMMA Marks ==
  ASSUME TypeOK, NEW p \in Processes, Changed(p)
  PROVE  raced' \subseteq Processes /\ broken' \subseteq Receipts
BY DEF TypeOK, Changed, Busy

LEMMA TypeInit == Init => TypeInv
BY ConstantsAssumption DEF Init, TypeInv, TypeOK, Roles, NoLine, Line, PurchaseOrderStatus

LEMMA InsertType ==
  ASSUME TypeInv, NEW p \in Writers, InsertLines(p)
  PROVE  TypeInv'
<1>1. p \in Processes
  BY DEF Writers, Processes, Calls
<1>2. stage' \in [Processes -> Stages] /\ Roles'
  <2>1. Goto(p, IF p \in Purchases THEN "total" ELSE "done")
    BY DEF InsertLines
  <2>2. QED
    BY <1>1, <2>1, Moves DEF Stages
<1>3. line' \in [LineIds -> Line]
  <2>1. \A l \in LineIds : [ordered |-> UnitsOf[l], received |-> 0] \in Line
    BY ItemFacts DEF Line
  <2>2. QED
    BY <2>1 DEF InsertLines, TypeInv, TypeOK
<1>4. raced' \subseteq Processes /\ broken' \subseteq Receipts
  BY <1>1, Marks DEF InsertLines, TypeInv
<1>5. QED
  BY <1>2, <1>3, <1>4 DEF InsertLines, TypeInv, TypeOK, Stages

LEMMA BookType ==
  ASSUME TypeInv, NEW g \in Receipts, BookItem(g)
  PROVE  TypeInv'
<1> USE DEF TypeInv
<1>1. PICK i \in rest[g] :
        \/ \E l \in Read(g, i) :
             /\ item' = [item EXCEPT ![i] = UnitsOf[i]]
             /\ copy' = [copy EXCEPT ![g][l].received = Booked(g, i, l)]
             /\ rest' = [rest EXCEPT ![g] = @ \ {i}]
             /\ at' = [at EXCEPT ![g] = <<i, l>>]
             /\ Changed(g)
             /\ Goto(g, "line")
        \/ /\ Goto(g, "done")
           /\ UNCHANGED <<item, copy, rest, at, history>>
  BY DEF BookItem
<1>2. UNCHANGED <<status, line, added, target>>
  BY DEF BookItem
<1>3. g \in Processes
  BY DEF Processes, Calls
<1>4. i \in Goods /\ UnitsOf[i] \in Nat
  BY ItemFacts DEF TypeOK
<1>5. ASSUME NEW l \in Read(g, i),
             item' = [item EXCEPT ![i] = UnitsOf[i]],
             copy' = [copy EXCEPT ![g][l].received = Booked(g, i, l)],
             rest' = [rest EXCEPT ![g] = @ \ {i}],
             at' = [at EXCEPT ![g] = <<i, l>>],
             Changed(g),
             Goto(g, "line")
      PROVE  TypeInv'
  <2>1. l \in LineIds
    BY DEF Read
  <2>2. Booked(g, i, l) \in Nat
    BY <1>4, <2>1 DEF Booked, TypeOK, Line
  <2>3. copy' \in [Receipts -> [LineIds -> Line]]
    <3>1. copy[g][l] \in Line /\ copy[g] \in [LineIds -> Line] /\ copy \in [Receipts -> [LineIds -> Line]]
      BY <2>1 DEF TypeOK
    <3>2. [copy[g][l] EXCEPT !.received = Booked(g, i, l)] \in Line
      BY <2>2, <3>1 DEF Line
    <3>3. QED
      BY <1>5, <3>1, <3>2
  <2>4. item' \in [Goods -> Nat]
    BY <1>4, <1>5 DEF TypeOK
  <2>5. stage' \in [Processes -> Stages] /\ Roles'
    BY <1>3, <1>5, Moves DEF Stages
  <2>6. raced' \subseteq Processes /\ broken' \subseteq Receipts
    BY <1>3, <1>5, Marks
  <2>7. rest' \in [Receipts -> SUBSET Goods]
    BY <1>5 DEF TypeOK
  <2>8. at' \in [Receipts -> (Goods \X LineIds) \cup {<<>>}]
    BY <1>4, <1>5, <2>1 DEF TypeOK
  <2>9. QED
    BY <1>2, <2>3, <2>4, <2>5, <2>6, <2>7, <2>8 DEF TypeOK, Stages
<1>6. CASE Goto(g, "done") /\ UNCHANGED <<item, copy, rest, at, history>>
  <2>1. stage' \in [Processes -> Stages] /\ Roles'
    BY <1>3, <1>6, Moves DEF Stages
  <2>2. QED
    BY <1>2, <1>6, <2>1 DEF TypeOK, Stages, history
<1>7. QED
  BY <1>1, <1>5, <1>6

LEMMA TypeNext == TypeInv /\ [Next]_vars => TypeInv'
<1> SUFFICES ASSUME TypeInv, [Next]_vars
             PROVE  TypeInv'
  OBVIOUS
<1> USE DEF TypeInv, tables, history
<1>1. ASSUME NEW o \in Purchases, Create(o) PROVE TypeInv'
  <2>1. o \in Processes /\ o \in Writers
    BY DEF Processes, Writers
  <2>2. CASE InsertLines(o)
    BY <2>1, <2>2, InsertType
  <2>3. CASE stage[o] = "idle" /\ Create(o) /\ ~InsertLines(o)
    <3>1. Goto(o, "lines") /\ status' = [status EXCEPT ![o] = "DRAFT"]
          /\ UNCHANGED <<line, item, added, rest, at, copy, target, history>>
      BY <2>3 DEF Create
    <3>2. stage' \in [Processes -> Stages] /\ Roles'
      BY <2>1, <3>1, Moves DEF Stages
    <3>3. QED
      BY <3>1, <3>2 DEF TypeOK, Stages, PurchaseOrderStatus
  <2>4. CASE stage[o] = "total" /\ Create(o) /\ ~InsertLines(o)
    <3>1. Goto(o, "done") /\ status' = [status EXCEPT ![o] = "DRAFT"] /\ Changed(o)
          /\ UNCHANGED <<line, item, added, rest, at, copy, target>>
      BY <2>4 DEF Create
    <3>2. stage' \in [Processes -> Stages] /\ Roles'
      BY <2>1, <3>1, Moves DEF Stages
    <3>3. raced' \subseteq Processes /\ broken' \subseteq Receipts
      BY <2>1, <3>1, Marks
    <3>4. QED
      BY <3>1, <3>2, <3>3 DEF TypeOK, Stages, PurchaseOrderStatus
  <2>5. QED
    BY <1>1, <2>2, <2>3, <2>4 DEF Create
<1>2. ASSUME NEW u \in Updates, Update(u) PROVE TypeInv'
  <2>1. u \in Processes /\ u \in Writers
    BY DEF Processes, Writers, Calls
  <2>2. CASE InsertLines(u)
    BY <2>1, <2>2, InsertType
  <2>3. CASE stage[u] = "idle" /\ Update(u) /\ ~InsertLines(u)
    <3>1. \E next \in {"delete", "done"} : Goto(u, next)
      BY <2>3 DEF Update
    <3>2. stage' \in [Processes -> Stages] /\ Roles'
      BY <2>1, <3>1, Moves DEF Stages
    <3>3. UNCHANGED <<tables, rest, at, copy, target, history>>
      BY <2>3 DEF Update
    <3>4. QED
      BY <3>2, <3>3 DEF TypeOK, Stages
  <2>4. CASE stage[u] = "delete" /\ Update(u) /\ ~InsertLines(u)
    <3>1. /\ line' = [l \in LineIds |-> IF l \in LinesOf(PurchaseOf[u]) THEN NoLine ELSE line[l]]
          /\ Changed(u)
          /\ Goto(u, "lines")
          /\ UNCHANGED <<status, item, added, rest, at, copy, target>>
      BY <2>4 DEF Update
    <3>2. stage' \in [Processes -> Stages] /\ Roles'
      BY <2>1, <3>1, Moves DEF Stages
    <3>3. raced' \subseteq Processes /\ broken' \subseteq Receipts
      BY <2>1, <3>1, Marks
    <3>4. line' \in [LineIds -> Line]
      BY <3>1 DEF TypeOK, NoLine, Line
    <3>5. QED
      BY <3>1, <3>2, <3>3, <3>4 DEF TypeOK, Stages
  <2>5. QED
    BY <1>2, <2>2, <2>3, <2>4 DEF Update
<1>3. ASSUME NEW c \in Approvals \cup Cancels, Decide(c) PROVE TypeInv'
  <2>1. c \in Processes /\ c \in Calls
    BY DEF Processes, Calls
  <2>2. \E next \in {"save", "done"} : Goto(c, next)
    BY <1>3 DEF Decide
  <2>3. stage' \in [Processes -> Stages] /\ Roles'
    BY <2>1, <2>2, Moves DEF Stages
  <2>4. target' \in [Calls -> PurchaseOrderStatus \cup {"NONE"}]
    BY <1>3, <2>1 DEF Decide, TypeOK, PurchaseOrderStatus
  <2>5. QED
    BY <1>3, <2>3, <2>4 DEF Decide, TypeOK, Stages
<1>4. ASSUME NEW g \in Receipts, Deliver(g) PROVE TypeInv'
  <2>1. g \in Processes
    BY DEF Processes, Calls
  <2>2. \E next \in {"item", "done"} : Goto(g, next)
    BY <1>4 DEF Deliver
  <2>3. stage' \in [Processes -> Stages] /\ Roles'
    BY <2>1, <2>2, Moves DEF Stages
  <2>4. copy' \in [Receipts -> [LineIds -> Line]]
    <3>1. copy' = copy \/ \E F \in FirstLines(PurchaseOf[g]) :
            copy' = [copy EXCEPT ![g] = [l \in LineIds |-> IF l \in F THEN line[l] ELSE NoLine]]
      BY <1>4 DEF Deliver
    <3>2. ASSUME NEW F, copy' = [copy EXCEPT ![g] = [l \in LineIds |-> IF l \in F THEN line[l] ELSE NoLine]]
          PROVE  copy' \in [Receipts -> [LineIds -> Line]]
      <4>1. \A l \in LineIds : (IF l \in F THEN line[l] ELSE NoLine) \in Line
        BY DEF TypeOK, NoLine, Line
      <4>2. [l \in LineIds |-> IF l \in F THEN line[l] ELSE NoLine] \in [LineIds -> Line]
        BY <4>1
      <4>3. QED
        BY <3>2, <4>2 DEF TypeOK
    <3>3. QED
      BY <3>1, <3>2 DEF TypeOK
  <2>5. rest' \in [Receipts -> SUBSET Goods]
    <3>1. ItemsOf(g) \in SUBSET Goods
      BY ItemFacts
    <3>2. rest' = [rest EXCEPT ![g] = ItemsOf(g)] \/ rest' = rest
      BY <1>4 DEF Deliver
    <3>3. QED
      BY <3>1, <3>2 DEF TypeOK
  <2>6. QED
    BY <1>4, <2>3, <2>4, <2>5 DEF Deliver, TypeOK, Stages
<1>5. ASSUME NEW g \in Receipts, BookItem(g) PROVE TypeInv'
  BY <1>5, BookType
<1>6. ASSUME NEW g \in Receipts, SaveLine(g) PROVE TypeInv'
  <2>1. g \in Processes
    BY DEF Processes, Calls
  <2>2. stage' \in [Processes -> Stages] /\ Roles'
    BY <1>6, <2>1, Moves DEF SaveLine, Stages
  <2>3. raced' \subseteq Processes /\ broken' \subseteq Receipts
    BY <1>6, <2>1, Marks DEF SaveLine
  <2>4. line' \in [LineIds -> Line]
    <3>1. copy[g] \in [LineIds -> Line] /\ line' = [line EXCEPT ![at[g][2]] = copy[g][at[g][2]]]
      BY <1>6 DEF SaveLine, TypeOK
    <3>2. QED
      BY <3>1 DEF TypeOK
  <2>5. QED
    BY <1>6, <2>2, <2>3, <2>4 DEF SaveLine, TypeOK, Stages
<1>7. ASSUME NEW g \in Receipts, AddStock(g) PROVE TypeInv'
  <2>1. g \in Processes
    BY DEF Processes, Calls
  <2>2. \E next \in {"status", "item"} : Goto(g, next)
    BY <1>7 DEF AddStock
  <2>3. stage' \in [Processes -> Stages] /\ Roles'
    BY <2>1, <2>2, Moves DEF Stages
  <2>4. added' \in [Goods -> Nat]
    <3>1. added' = added \/ added' = [added EXCEPT ![at[g][1]] = UnitsOf[at[g][1]]]
      BY <1>7 DEF AddStock
    <3>2. \A i \in Goods : UnitsOf[i] \in Nat
      BY ItemFacts
    <3>3. QED
      BY <3>1, <3>2 DEF TypeOK
  <2>5. QED
    BY <1>7, <2>3, <2>4 DEF AddStock, TypeOK, Stages
<1>8. ASSUME NEW g \in Receipts, ReadStatus(g) PROVE TypeInv'
  <2>1. g \in Processes /\ g \in Calls /\ PurchaseOf[g] \in Purchases
    BY ConstantsAssumption DEF Processes, Calls
  <2>2. \E next \in {"save", "done"} : Goto(g, next)
    BY <1>8 DEF ReadStatus
  <2>3. stage' \in [Processes -> Stages] /\ Roles'
    BY <2>1, <2>2, Moves DEF Stages
  <2>4. target' \in [Calls -> PurchaseOrderStatus \cup {"NONE"}]
    BY <1>8, <2>1, StatusForType DEF ReadStatus, TypeOK
  <2>5. QED
    BY <1>8, <2>3, <2>4 DEF ReadStatus, TypeOK, Stages
<1>9. ASSUME NEW c \in Approvals \cup Cancels \cup Receipts, SaveStatus(c) PROVE TypeInv'
  <2>1. c \in Processes /\ c \in Calls
    BY DEF Processes, Calls
  <2>2. stage' \in [Processes -> Stages] /\ Roles'
    BY <1>9, <2>1, Moves DEF SaveStatus, Stages
  <2>3. raced' \subseteq Processes /\ broken' \subseteq Receipts
    BY <1>9, <2>1, Marks DEF SaveStatus
  <2>4. status' \in [Purchases -> PurchaseOrderStatus \cup {"NONE"}]
    BY <1>9, <2>1 DEF SaveStatus, TypeOK
  <2>5. QED
    BY <1>9, <2>2, <2>3, <2>4 DEF SaveStatus, TypeOK, Stages
<1>10. ASSUME NEW p \in Processes, Crash(p) PROVE TypeInv'
  <2>1. stage' \in [Processes -> Stages] /\ Roles'
    BY <1>10, Moves DEF Crash, Stages
  <2>2. broken' \subseteq Receipts
    BY <1>10 DEF Crash, TypeOK, Roles
  <2>3. QED
    BY <1>10, <2>1, <2>2 DEF Crash, TypeOK, Stages
<1>11. ASSUME UNCHANGED vars PROVE TypeInv'
  BY <1>11 DEF vars, calls, TypeOK, Roles
<1>12. QED
  BY <1>1, <1>2, <1>3, <1>4, <1>5, <1>6, <1>7, <1>8, <1>9, <1>10, <1>11 DEF Next

LEMMA TypeAlways == Spec => []TypeInv
  BY TypeInit, TypeNext, PTL DEF Spec

(* The variables of the purchase orders keep their types.                  *)
THEOREM TypeCorrect == Spec => []TypeOK
<1>1. TypeInv => TypeOK
  BY DEF TypeInv
<1>2. QED
  BY <1>1, TypeAlways, PTL

(***************************************************************************)
(* A delivery checks its units against the copy it keeps, and saves that   *)
(* copy: what it saves is within the order, stale or not.                  *)
(***************************************************************************)
LEMMA WithinNext ==
  TypeInv /\ LineWithinOrder /\ CopyWithinOrder /\ [Next]_vars
    => LineWithinOrder' /\ CopyWithinOrder'
<1> SUFFICES ASSUME TypeInv, LineWithinOrder, CopyWithinOrder, [Next]_vars
             PROVE  LineWithinOrder' /\ CopyWithinOrder'
  OBVIOUS
<1> USE DEF LineWithinOrder, CopyWithinOrder
<1>1. ASSUME NEW p \in Writers, InsertLines(p) PROVE LineWithinOrder' /\ CopyWithinOrder'
  <2>1. \A l \in LineIds : UnitsOf[l] \in Nat
    BY ItemFacts
  <2>2. QED
    BY <1>1, <2>1 DEF InsertLines
<1>2. ASSUME NEW u \in Updates, stage[u] = "delete", Update(u)
      PROVE  LineWithinOrder' /\ CopyWithinOrder'
  BY <1>2 DEF Update, InsertLines, NoLine
<1>3. ASSUME NEW g \in Receipts, Deliver(g) PROVE LineWithinOrder' /\ CopyWithinOrder'
  <2>1. line' = line
    BY <1>3 DEF Deliver, tables
  <2>2. ASSUME NEW F, copy' = [copy EXCEPT ![g] = [l \in LineIds |-> IF l \in F THEN line[l] ELSE NoLine]]
        PROVE  CopyWithinOrder'
    <3> SUFFICES ASSUME NEW h \in Receipts, NEW l \in LineIds
                 PROVE  copy'[h][l].received <= copy'[h][l].ordered
      OBVIOUS
    <3>1. CASE h = g
      <4>1. copy'[h][l] = IF l \in F THEN line[l] ELSE NoLine
        BY <2>2, <3>1 DEF TypeInv, TypeOK
      <4>2. QED
        BY <4>1 DEF NoLine
    <3>2. CASE h # g
      BY <2>2, <3>2 DEF TypeInv, TypeOK
    <3>3. QED
      BY <3>1, <3>2
  <2>3. CASE copy' = copy
    BY <2>1, <2>3
  <2>4. QED
    BY <1>3, <2>1, <2>2, <2>3 DEF Deliver
<1>4. ASSUME NEW g \in Receipts, BookItem(g) PROVE LineWithinOrder' /\ CopyWithinOrder'
  <2>1. line' = line
    BY <1>4 DEF BookItem
  <2>2. ASSUME NEW i \in rest[g], NEW l \in Read(g, i), Fits(g, i, l),
               copy' = [copy EXCEPT ![g][l].received = Booked(g, i, l)]
        PROVE  CopyWithinOrder'
    BY <2>2 DEF Fits, TypeInv, TypeOK, Line
  <2>3. QED
    BY <1>4, <2>1, <2>2 DEF BookItem
<1>5. ASSUME NEW g \in Receipts, SaveLine(g) PROVE LineWithinOrder' /\ CopyWithinOrder'
  BY <1>5 DEF SaveLine, TypeInv, TypeOK
<1>6. CASE UNCHANGED <<line, copy>>
  BY <1>6
<1>7. QED
  BY <1>1, <1>2, <1>3, <1>4, <1>5, <1>6
     DEF Next, Create, Update, Decide, AddStock, ReadStatus, SaveStatus, Crash, Writers,
         vars, tables, calls

(* No line says that more was received than ordered.                       *)
THEOREM ReceivedWithinOrdered == Spec => []LineWithinOrder
<1>1. Init => LineWithinOrder /\ CopyWithinOrder
  BY DEF Init, LineWithinOrder, CopyWithinOrder, NoLine
<1>2. QED
  BY <1>1, TypeAlways, WithinNext, PTL DEF Spec

(***************************************************************************)
(* A cancelled order stays cancelled but for the calls it has overtaken.   *)
(***************************************************************************)
ReopenInv == TypeInv /\ Unborn /\ CancelIsSeen

(* What the steps do to the statuses.  A call reads one when it begins,    *)
(* and writes one when it ends.                                            *)
Reads(p, next) ==
  /\ status' = status
  /\ raced \subseteq raced'
  /\ stage[p] = "idle" =>
       p \in Calls /\ status[Of(p)] # "NONE" /\ (next # "done" => status[Of(p)] # "CANCELLED")

Begins(p, next) ==
  /\ p \in Purchases /\ stage[p] = "idle" /\ next = "lines"
  /\ status' = [status EXCEPT ![p] = "DRAFT"]
  /\ raced' = raced

Writes(p, next) ==
  /\ stage[p] \in {"save", "total"} /\ next = "done"
  /\ \E x \in PurchaseOrderStatus \cup {"NONE"} : status' = [status EXCEPT ![Of(p)] = x]
  /\ raced' = raced \cup Busy(p)

Step(p, next) ==
  /\ stage[p] # "done"
  /\ stage' = [stage EXCEPT ![p] = next]
  /\ Reads(p, next) \/ Begins(p, next) \/ Writes(p, next)

LEMMA Steps ==
  ASSUME TypeInv, Next
  PROVE  \E p \in Processes, next \in Stages \ {"idle"} : Step(p, next)
<1> USE DEF Step, Stages, Goto
<1>1. ASSUME NEW p \in Writers, stage[p] \in {"lines"}, InsertLines(p)
      PROVE  \E next \in Stages \ {"idle"} : Step(p, next)
  BY <1>1 DEF InsertLines, Changed, Reads
<1>2. ASSUME NEW o \in Purchases, Create(o)
      PROVE  \E next \in Stages \ {"idle"} : Step(o, next)
  <2>1. CASE stage[o] = "idle"
    <3>1. Begins(o, "lines") /\ stage' = [stage EXCEPT ![o] = "lines"]
      BY <1>2, <2>1 DEF Create, Begins, history
    <3>2. QED
      BY <2>1, <3>1
  <2>2. CASE stage[o] = "lines"
    BY <1>1, <1>2, <2>2 DEF Create, Writers
  <2>3. CASE stage[o] = "total"
    <3>1. Writes(o, "done") /\ stage' = [stage EXCEPT ![o] = "done"]
      BY <1>2, <2>3, OfCalls DEF Create, Writes, Changed, PurchaseOrderStatus
    <3>2. QED
      BY <2>3, <3>1
  <2>4. QED
    BY <1>2, <2>1, <2>2, <2>3 DEF Create
<1>3. ASSUME NEW u \in Updates, Update(u)
      PROVE  \E next \in Stages \ {"idle"} : Step(u, next)
  <2>1. u \in Calls /\ u \in Writers /\ Of(u) = PurchaseOf[u]
    BY OfCalls DEF Calls, Writers
  <2>2. CASE stage[u] = "idle"
    <3>1. PICK next \in {"delete", "done"} :
            /\ stage' = [stage EXCEPT ![u] = next]
            /\ next = "delete" => status[PurchaseOf[u]] = "DRAFT"
      BY <1>3, <2>2 DEF Update
    <3>2. Reads(u, next)
      BY <1>3, <2>1, <2>2, <3>1 DEF Update, Reads, tables, history
    <3>3. QED
      BY <2>2, <3>1, <3>2
  <2>3. CASE stage[u] = "delete"
    <3>1. Reads(u, "lines") /\ stage' = [stage EXCEPT ![u] = "lines"]
      BY <1>3, <2>3 DEF Update, Reads, Changed
    <3>2. QED
      BY <2>3, <3>1
  <2>4. CASE stage[u] = "lines"
    BY <1>1, <1>3, <2>1, <2>4 DEF Update
  <2>5. QED
    BY <1>3, <2>2, <2>3, <2>4 DEF Update
<1>4. ASSUME NEW c \in Approvals \cup Cancels, Decide(c)
      PROVE  \E next \in Stages \ {"idle"} : Step(c, next)
  <2>1. c \in Calls /\ Of(c) = PurchaseOf[c]
    BY OfCalls DEF Calls
  <2>2. PICK next \in {"save", "done"} :
          /\ stage' = [stage EXCEPT ![c] = next]
          /\ next = "save" => status[PurchaseOf[c]] \in Accepted(c)
    BY <1>4 DEF Decide
  <2>3. "CANCELLED" \notin Accepted(c)
    BY DEF Accepted
  <2>4. Reads(c, next) /\ stage[c] = "idle"
    BY <1>4, <2>1, <2>2, <2>3 DEF Decide, Reads, tables, history
  <2>5. QED
    BY <2>2, <2>4
<1>5. ASSUME NEW g \in Receipts, Deliver(g)
      PROVE  \E next \in Stages \ {"idle"} : Step(g, next)
  <2>1. g \in Calls /\ Of(g) = PurchaseOf[g]
    BY OfCalls DEF Calls
  <2>2. PICK next \in {"item", "done"} :
          /\ stage' = [stage EXCEPT ![g] = next]
          /\ next = "item" => Open(PurchaseOf[g])
    BY <1>5 DEF Deliver
  <2>3. Reads(g, next) /\ stage[g] = "idle"
    BY <1>5, <2>1, <2>2 DEF Deliver, Reads, Open, tables, history
  <2>4. QED
    BY <2>2, <2>3
<1>6. ASSUME NEW g \in Receipts, BookItem(g) \/ SaveLine(g) \/ AddStock(g) \/ ReadStatus(g)
      PROVE  \E next \in Stages \ {"idle"} : Step(g, next)
  <2>1. stage[g] \in {"item", "line", "stock", "status"} /\ status' = status /\ raced \subseteq raced'
    BY <1>6 DEF BookItem, SaveLine, AddStock, ReadStatus, Changed, tables, history
  <2>2. PICK next \in {"line", "done", "stock", "status", "item", "save"} :
          stage' = [stage EXCEPT ![g] = next]
    BY <1>6 DEF BookItem, SaveLine, AddStock, ReadStatus
  <2>3. Reads(g, next)
    BY <2>1 DEF Reads
  <2>4. QED
    BY <2>1, <2>2, <2>3
<1>7. ASSUME NEW c \in Approvals \cup Cancels \cup Receipts, SaveStatus(c)
      PROVE  \E next \in Stages \ {"idle"} : Step(c, next)
  <2>1. c \in Calls /\ Of(c) = PurchaseOf[c]
    BY OfCalls DEF Calls
  <2>2. target[c] \in PurchaseOrderStatus \cup {"NONE"}
    BY <2>1 DEF TypeInv, TypeOK
  <2>3. Writes(c, "done") /\ stage' = [stage EXCEPT ![c] = "done"]
    BY <1>7, <2>1, <2>2 DEF SaveStatus, Writes, Changed
  <2>4. QED
    BY <1>7, <2>3 DEF SaveStatus
<1>8. ASSUME NEW p \in Processes, Crash(p)
      PROVE  \E next \in Stages \ {"idle"} : Step(p, next)
  <2>1. Reads(p, "done") /\ stage' = [stage EXCEPT ![p] = "done"] /\ stage[p] # "done"
    BY <1>8 DEF Crash, Reads, tables
  <2>2. QED
    BY <2>1
<1>9. QED
  BY <1>2, <1>3, <1>4, <1>5, <1>6, <1>7, <1>8 DEF Next, Processes, Calls

(* A step on one order, or of one call, is none on the others.             *)
LEMMA ReopenNext == ReopenInv /\ [Next]_vars => Unborn' /\ CancelIsSeen'
<1> SUFFICES ASSUME ReopenInv, [Next]_vars
             PROVE  Unborn' /\ CancelIsSeen'
  OBVIOUS
<1> USE DEF ReopenInv, TypeInv
<1>1. CASE UNCHANGED vars
  BY <1>1 DEF vars, tables, calls, history, Unborn, CancelIsSeen, Of
<1>2. CASE Next
  <2>1. PICK p \in Processes, next \in Stages \ {"idle"} : Step(p, next)
    BY <1>2, Steps
  <2>2. /\ Of(p) \in Purchases
        /\ stage \in [Processes -> Stages]
        /\ status \in [Purchases -> PurchaseOrderStatus \cup {"NONE"}]
        /\ Purchases \subseteq Processes /\ Calls \subseteq Processes
    BY OfCalls DEF TypeOK, Stages, Processes
  <2>3. ASSUME NEW o \in Purchases, stage'[o] = "idle"
        PROVE  status'[o] = "NONE" /\ \A c \in Calls : PurchaseOf[c] = o => stage'[c] = "idle"
    <3>1. stage[o] = "idle" /\ p # o
      BY <2>1, <2>2, <2>3 DEF Step
    <3>2. status[o] = "NONE" /\ \A c \in Calls : PurchaseOf[c] = o => stage[c] = "idle"
      BY <3>1 DEF Unborn
    <3>3. ASSUME Of(p) = o PROVE FALSE
      <4>1. p \in Calls /\ PurchaseOf[p] = o
        BY <3>1, <3>3, OfCalls DEF Processes
      <4>2. stage[p] = "idle"
        BY <3>2, <4>1
      <4>3. QED
        BY <2>1, <3>2, <3>3, <4>1, <4>2, OfCalls, ConstantsAssumption
           DEF Step, Reads, Begins, Writes
    <3>4. \A c \in Calls : PurchaseOf[c] = o => c # p
      BY <3>3, OfCalls
    <3>5. status'[o] = status[o]
      BY <2>1, <2>2, <3>1, <3>3 DEF Step, Reads, Begins, Writes
    <3>6. QED
      BY <2>1, <2>2, <3>2, <3>4, <3>5 DEF Step
  <2>4. ASSUME NEW c \in Processes, status'[Of(c)] = "CANCELLED", stage'[c] \notin {"idle", "done"}
        PROVE  c \in raced'
    <3>1. Of(c) \in Purchases
      BY OfCalls
    <3>2. CASE Reads(p, next)
      BY <2>1, <2>2, <2>4, <3>1, <3>2 DEF Step, Reads, CancelIsSeen
    <3>3. CASE Begins(p, next)
      <4>1. Of(c) # p
        BY <2>2, <2>4, <3>3 DEF Begins
      <4>2. c # p
        BY <3>3, <4>1, OfCalls DEF Begins
      <4>3. QED
        BY <2>1, <2>2, <2>4, <3>1, <3>3, <4>1, <4>2 DEF Step, Begins, CancelIsSeen
    <3>4. CASE Writes(p, next)
      <4>1. c # p /\ stage[c] \notin {"idle", "done"}
        BY <2>1, <2>2, <2>4, <3>4 DEF Step, Writes
      <4>2. CASE Of(c) = Of(p)
        BY <3>4, <4>1, <4>2 DEF Writes, Busy
      <4>3. CASE Of(c) # Of(p)
        BY <2>2, <2>4, <3>1, <3>4, <4>1, <4>3 DEF Writes, CancelIsSeen
      <4>4. QED
        BY <4>2, <4>3
    <3>5. QED
      BY <2>1, <3>2, <3>3, <3>4 DEF Step
  <2>5. QED
    BY <2>3, <2>4 DEF Unborn, CancelIsSeen, Of
<1>3. QED
  BY <1>1, <1>2

LEMMA ReopenStep ==
  ASSUME ReopenInv, [Next]_vars, NEW o \in Purchases,
         status[o] = "CANCELLED", status'[o] # "CANCELLED"
  PROVE  \E c \in raced : Of(c) = o /\ stage[c] \in {"save", "total"} /\ stage'[c] = "done"
<1> USE DEF ReopenInv, TypeInv
<1>1. Next
  BY DEF vars, tables
<1>2. PICK p \in Processes, next \in Stages \ {"idle"} : Step(p, next)
  BY <1>1, Steps
<1>3. ~Reads(p, next)
  BY DEF Reads
<1>4. ~Begins(p, next)
  BY DEF Begins, Unborn, TypeOK
<1>5. Writes(p, next)
  BY <1>2, <1>3, <1>4 DEF Step
<1>6. Of(p) = o
  BY <1>5, OfCalls DEF Writes, TypeOK
<1>7. p \in raced
  BY <1>5, <1>6 DEF Writes, CancelIsSeen
<1>8. stage'[p] = "done"
  BY <1>2, <1>5 DEF Step, Writes, TypeOK
<1>9. QED
  BY <1>5, <1>6, <1>7, <1>8 DEF Writes

(* Only a call that was overtaken by the cancellation reopens an order.    *)
THEOREM ReopenedByRace == Spec => CancelledIsReopenedByRace
<1>1. Init => Unborn /\ CancelIsSeen
  BY OfCalls DEF Init, Unborn, CancelIsSeen, Processes
<1>2. ReopenInv /\ [Next]_vars =>
        [\A o \in Purchases :
           status[o] = "CANCELLED" /\ status'[o] # "CANCELLED" =>
             \E c \in raced : Of(c) = o /\ stage[c] \in {"save", "total"} /\ stage'[c] = "done"]_vars
  BY ReopenStep
<1>3. ReopenInv /\ [Next]_vars => ReopenInv'
  BY TypeNext, ReopenNext DEF ReopenInv
<1>4. Init => ReopenInv
  BY <1>1, TypeInit DEF ReopenInv
<1>5. QED
  BY <1>2, <1>3, <1>4, PTL DEF Spec, CancelledIsReopenedByRace

(***************************************************************************)
(* The books of an order that no call has overtaken another on.            *)
(*                                                                         *)
(* A step that writes a row of an order marks the other calls that run on  *)
(* it.  While none is marked, then, a call that writes runs alone, and     *)
(* what it has read is still true.                                         *)
(***************************************************************************)
Unbroken(o) == \A g \in broken : PurchaseOf[g] # o
Running(c) == stage[c] \notin {"idle", "done"}

(* A delivery has booked nothing yet of what it has still to book.         *)
BooksOnce ==
  \A g \in Receipts :
    /\ stage[g] = "idle" => \A i \in ItemsOf(g) : item[i] = 0 /\ added[i] = 0
    /\ rest[g] \subseteq ItemsOf(g)
    /\ Running(g) => \A i \in rest[g] : item[i] = 0 /\ added[i] = 0
    /\ stage[g] \in {"line", "stock"} =>
         /\ at[g] \in Goods \X LineIds /\ OrderOf(at[g][2]) = PurchaseOf[g]
         /\ VariantOf[at[g][2]] = VariantOf[at[g][1]] /\ CallOf[at[g][1]] = g
         /\ at[g][1] \notin rest[g] /\ added[at[g][1]] = 0

(* What calls are about to save as the status.                             *)
Targets ==
  \A c \in Calls : stage[c] = "save" =>
    target[c] \in IF c \in Receipts THEN {"RECEIVED", "PARTIALLY_RECEIVED"}
                  ELSE {"APPROVED", "CANCELLED"}

(* The status a call has begun with stays while it runs.                   *)
StatusHolds(o) ==
  /\ stage[o] \in {"lines", "total"} => status[o] = "DRAFT"
  /\ \A u \in Updates : PurchaseOf[u] = o /\ Running(u) => status[o] = "DRAFT"
  /\ \A g \in Receipts : PurchaseOf[g] = o /\ Running(g) => Open(o)

(* Nothing is received for a draft.                                        *)
DraftIsUntouched(o) ==
  status[o] \in {"NONE", "DRAFT"} =>
    /\ \A i \in Goods : OrderOf(i) = o => item[i] = 0 /\ added[i] = 0
    /\ \A l \in LineIds : OrderOf(l) = o => line[l].received = 0

(* The copy of a delivery has lines as they are, but for the one it is     *)
(* about to save.                                                          *)
CopyIsCurrent(o) ==
  \A g \in Receipts : PurchaseOf[g] = o /\ stage[g] \in {"item", "line", "stock"} =>
    \A l \in LineIds : OrderOf(l) = o =>
      IF stage[g] = "line" /\ l = at[g][2]
        THEN /\ copy[g][l].ordered = line[l].ordered /\ line[l].ordered > 0
             /\ copy[g][l].received = line[l].received + UnitsOf[at[g][1]]
        ELSE copy[g][l].ordered > 0 => copy[g][l] = line[l]

Stocked(o, v)   == Total(GoodsFor(o, v), added)
Recorded(o, v)  == Total(LinesFor(o, v), [l \in LineIds |-> line[l].received])
Delivered(o, v) == Total(GoodsFor(o, v), item)
Wanted(o, v)    == Total(LinesFor(o, v), [l \in LineIds |-> line[l].ordered])

(* Deliveries of an order between the item and the line, or between the    *)
(* line and the stock, of a variant.                                       *)
Between(o, v, s) ==
  {g \in Receipts : /\ PurchaseOf[g] = o /\ stage[g] = s
                    /\ at[g] \in Goods \X LineIds /\ VariantOf[at[g][1]] = v}
Under(g) == UnitsOf[at[g][1]]

(* The books, with what is under way.                                      *)
BooksOf(o, v) ==
  /\ Stocked(o, v) <= Recorded(o, v)
  /\ Recorded(o, v) <= Delivered(o, v)
  /\ \A g \in Between(o, v, "stock") : Stocked(o, v) + Under(g) <= Recorded(o, v)
  /\ \A g \in Between(o, v, "line") : Recorded(o, v) + Under(g) <= Delivered(o, v)
  /\ Unbroken(o) =>
       /\ Delivered(o, v) <= Wanted(o, v)
       /\ Between(o, v, "line") = {} => Delivered(o, v) = Recorded(o, v)
       /\ \A g \in Between(o, v, "line") : Delivered(o, v) = Recorded(o, v) + Under(g)

Books(o) == \A v \in Variants : BooksOf(o, v)

(* The status is earned, and so is the one a delivery is about to save.    *)
Earned(o, s) ==
  /\ s = "RECEIVED" => Received(o) = Ordered(o)
  /\ s = "PARTIALLY_RECEIVED" => Received(o) > 0
StatusEarned(o) ==
  /\ Earned(o, status[o])
  /\ \A g \in Receipts : PurchaseOf[g] = o /\ stage[g] = "save" => Earned(o, target[g])

(* Of the deliveries of an order, one at a time books.                     *)
OneBooks(o) ==
  \A g, h \in Receipts :
    /\ PurchaseOf[g] = o /\ stage[g] \in {"line", "stock"}
    /\ PurchaseOf[h] = o /\ stage[h] \in {"line", "stock"}
    => g = h

OrderInv(o) ==
  /\ StatusHolds(o) /\ DraftIsUntouched(o) /\ CopyIsCurrent(o) /\ OneBooks(o)
  /\ Books(o) /\ StatusEarned(o)

UnracedInv == \A o \in Purchases : Unraced(o) => OrderInv(o)

(***************************************************************************)
(* A step is one of a call, and touches no other call and no other order.  *)
(***************************************************************************)
Act(p) ==
  \/ p \in Purchases /\ Create(p)
  \/ p \in Updates /\ Update(p)
  \/ p \in Approvals \cup Cancels /\ Decide(p)
  \/ p \in Receipts /\ (Deliver(p) \/ BookItem(p) \/ SaveLine(p) \/ AddStock(p) \/ ReadStatus(p))
  \/ p \in Approvals \cup Cancels \cup Receipts /\ SaveStatus(p)
  \/ Crash(p)

LEMMA Acts == ASSUME Next PROVE \E p \in Processes : Act(p)
BY DEF Next, Act, Processes, Calls

Local(p) ==
  /\ \A c \in Processes : c # p => stage'[c] = stage[c]
  /\ \A c \in Calls : c # p => target'[c] = target[c]
  /\ \A g \in Receipts : g # p =>
       rest'[g] = rest[g] /\ at'[g] = at[g] /\ copy'[g] = copy[g]
  /\ \A i \in Goods : CallOf[i] # p => item'[i] = item[i] /\ added'[i] = added[i]
  /\ \A o \in Purchases : o # Of(p) => status'[o] = status[o]
  /\ \A l \in LineIds : OrderOf(l) # Of(p) => line'[l] = line[l]
  /\ raced \subseteq raced'
  /\ broken \subseteq broken' /\ broken' \subseteq broken \cup {p}

LEMMA Locality ==
  ASSUME TypeInv, BooksOnce, NEW p \in Processes, Act(p)
  PROVE  Local(p)
<1> USE DEF TypeInv, Goto
<1>1. CASE p \in Purchases /\ Create(p)
  <2>1. Of(p) = p
    BY <1>1, OfCalls
  <2>2. QED
    BY <1>1, <2>1 DEF Create, InsertLines, Changed, Local, TypeOK, tables, calls, history, ItemsOf, OrderOf
<1>2. CASE p \in Updates /\ Update(p)
  <2>1. Of(p) = PurchaseOf[p]
    BY <1>2, OfCalls DEF Calls
  <2>2. QED
    BY <1>2, <2>1 DEF Update, InsertLines, LinesOf, Changed, Local, TypeOK, tables, calls, history, ItemsOf, OrderOf
<1>3. CASE p \in Approvals \cup Cancels /\ Decide(p)
  BY <1>3 DEF Decide, Local, TypeOK, tables, history
<1>4. CASE p \in Receipts /\ Deliver(p)
  BY <1>4 DEF Deliver, Local, TypeOK, tables, history
<1>5. CASE p \in Receipts /\ BookItem(p)
  <2>1. \A i \in rest[p] : CallOf[i] = p
    BY <1>5, ItemFacts DEF BooksOnce
  <2>2. QED
    BY <1>5, <2>1 DEF BookItem, Changed, Local, TypeOK, history
<1>6. CASE p \in Receipts /\ SaveLine(p)
  <2>1. OrderOf(at[p][2]) = Of(p)
    BY <1>6, OfCalls DEF SaveLine, BooksOnce, Calls
  <2>2. QED
    BY <1>6, <2>1 DEF SaveLine, Changed, Local, TypeOK
<1>7. CASE p \in Receipts /\ AddStock(p)
  <2>1. CallOf[at[p][1]] = p
    BY <1>7 DEF AddStock, BooksOnce
  <2>2. QED
    BY <1>7, <2>1 DEF AddStock, Local, TypeOK, history
<1>8. CASE p \in Receipts /\ ReadStatus(p)
  BY <1>8 DEF ReadStatus, Local, TypeOK, tables, history
<1>9. CASE p \in Approvals \cup Cancels \cup Receipts /\ SaveStatus(p)
  <2>1. Of(p) = PurchaseOf[p]
    BY <1>9, OfCalls DEF Calls
  <2>2. QED
    BY <1>9, <2>1 DEF SaveStatus, Changed, Local, TypeOK
<1>10. CASE Crash(p)
  BY <1>10 DEF Crash, Local, TypeOK, tables
<1>11. QED
  BY <1>1, <1>2, <1>3, <1>4, <1>5, <1>6, <1>7, <1>8, <1>9, <1>10 DEF Act

(* A call that writes, and overtakes none, runs alone.                     *)
LEMMA Alone ==
  ASSUME NEW p \in Processes, Changed(p), Unraced(Of(p))', NEW c \in Processes, c # p, Of(c) = Of(p)
  PROVE  ~Running(c)
<1>1. \A d \in raced' : Of(d) # Of(p)
  BY DEF Unraced, Of
<1>2. QED
  BY <1>1 DEF Changed, Busy, Running

(***************************************************************************)
(* What holds of all orders.                                               *)
(***************************************************************************)
LEMMA BooksOnceNext == TypeInv /\ BooksOnce /\ [Next]_vars => BooksOnce'
<1> SUFFICES ASSUME TypeInv, BooksOnce, [Next]_vars
             PROVE  BooksOnce'
  OBVIOUS
<1>1. CASE UNCHANGED vars
  BY <1>1 DEF BooksOnce, Running, vars, tables, calls, OrderOf, Of, ItemsOf
<1>2. CASE Next
  <2>1. PICK p \in Processes : Act(p) /\ Local(p)
    BY <1>2, Acts, Locality
  <2>2. SUFFICES ASSUME NEW g \in Receipts
                 PROVE  /\ stage'[g] = "idle" => \A i \in ItemsOf(g) : item'[i] = 0 /\ added'[i] = 0
                        /\ rest'[g] \subseteq ItemsOf(g)
                        /\ stage'[g] \notin {"idle", "done"} =>
                             \A i \in rest'[g] : item'[i] = 0 /\ added'[i] = 0
                        /\ stage'[g] \in {"line", "stock"} =>
                             /\ at'[g] \in Goods \X LineIds /\ OrderOf(at'[g][2]) = PurchaseOf[g]
                             /\ VariantOf[at'[g][2]] = VariantOf[at'[g][1]] /\ CallOf[at'[g][1]] = g
                             /\ at'[g][1] \notin rest'[g] /\ added'[at'[g][1]] = 0
    BY DEF BooksOnce, Running, OrderOf, Of, ItemsOf
  <2>3. g \in Processes /\ g \notin Purchases \cup Updates \cup Approvals \cup Cancels
    BY ConstantsAssumption DEF Processes, Calls
  <2>4. CASE g # p
    <3>1. /\ stage'[g] = stage[g] /\ rest'[g] = rest[g] /\ at'[g] = at[g]
          /\ \A i \in Goods : CallOf[i] = g => item'[i] = item[i] /\ added'[i] = added[i]
      BY <2>1, <2>3, <2>4 DEF Local
    <3>2. \A i \in ItemsOf(g) : item'[i] = item[i] /\ added'[i] = added[i]
      BY <3>1, ItemFacts
    <3>3. stage[g] \in {"line", "stock"} => added'[at[g][1]] = added[at[g][1]]
      BY <3>1 DEF BooksOnce
    <3>4. QED
      BY <3>1, <3>2, <3>3 DEF BooksOnce, Running
  <2>5. CASE g = p
    <3> USE DEF TypeInv, Goto, BooksOnce, Running
    <3>1. CASE Deliver(g)
      <4>1. /\ stage[g] = "idle" /\ stage'[g] \in {"item", "done"}
            /\ rest'[g] = ItemsOf(g) \/ rest'[g] = rest[g]
        BY <2>3, <3>1 DEF Deliver, TypeOK
      <4>2. item' = item /\ added' = added
        BY <3>1 DEF Deliver, tables
      <4>3. QED
        BY <4>1, <4>2
    <3>2. CASE BookItem(g)
      <4>1. CASE stage'[g] = "done"
        <5>1. rest'[g] \subseteq rest[g]
          BY <3>2 DEF BookItem, TypeOK
        <5>2. QED
          BY <4>1, <5>1
      <4>2. CASE stage'[g] # "done"
        <5>1. PICK i \in rest[g], l \in LineIds :
                /\ l \in Read(g, i)
                /\ item' = [item EXCEPT ![i] = UnitsOf[i]]
                /\ rest' = [rest EXCEPT ![g] = @ \ {i}]
                /\ at' = [at EXCEPT ![g] = <<i, l>>]
                /\ Goto(g, "line")
          BY <2>3, <3>2, <4>2 DEF BookItem, TypeOK, Read
        <5>2. l \in LineIds /\ VariantOf[l] = VariantOf[i] /\ OrderOf(l) = PurchaseOf[g]
          BY <5>1, OfCalls DEF Read, Calls
        <5>3. i \in ItemsOf(g) /\ i \in Goods /\ CallOf[i] = g
          BY <5>1, ItemFacts
        <5>4. at'[g] = <<i, l>> /\ rest'[g] = rest[g] \ {i} /\ added' = added /\ stage'[g] = "line"
          BY <2>3, <3>2, <5>1 DEF BookItem, TypeOK
        <5>5. added[i] = 0 /\ \A j \in rest[g] : item[j] = 0 /\ added[j] = 0
          BY <3>2, <5>1 DEF BookItem
        <5>6. \A j \in rest[g] \ {i} : item'[j] = item[j]
          BY <5>1 DEF TypeOK
        <5>7. at'[g][1] = i /\ at'[g][2] = l /\ at'[g] \in Goods \X LineIds
          BY <5>2, <5>3, <5>4
        <5>8. QED
          BY <5>2, <5>3, <5>4, <5>5, <5>6, <5>7
      <4>3. QED
        BY <4>1, <4>2
    <3>3. CASE SaveLine(g)
      BY <2>3, <3>3 DEF SaveLine, TypeOK
    <3>4. CASE AddStock(g)
      <4>1. /\ item' = item /\ rest' = rest /\ stage[g] = "stock" /\ stage'[g] \in {"item", "status"}
            /\ \/ added' = added \/ added' = [added EXCEPT ![at[g][1]] = UnitsOf[at[g][1]]]
        BY <2>3, <3>4 DEF AddStock, TypeOK
      <4>2. \A i \in rest[g] : added'[i] = added[i]
        BY <4>1 DEF TypeOK
      <4>3. QED
        BY <4>1, <4>2
    <3>5. CASE ReadStatus(g) \/ SaveStatus(g)
      <4>1. /\ stage[g] \in {"status", "save"} /\ stage'[g] \in {"save", "done"}
            /\ UNCHANGED <<item, added, rest>>
        BY <2>3, <3>5 DEF ReadStatus, SaveStatus, TypeOK, tables
      <4>2. QED
        BY <4>1
    <3>6. CASE Crash(g)
      BY <2>3, <3>6 DEF Crash, TypeOK
    <3>7. QED
      BY <2>1, <2>3, <2>5, <3>1, <3>2, <3>3, <3>4, <3>5, <3>6 DEF Act
  <2>6. QED
    BY <2>4, <2>5
<1>3. QED
  BY <1>1, <1>2

LEMMA TargetsNext == TypeInv /\ BooksOnce /\ Targets /\ [Next]_vars => Targets'
<1> SUFFICES ASSUME TypeInv, BooksOnce, Targets, [Next]_vars
             PROVE  Targets'
  OBVIOUS
<1>1. CASE UNCHANGED vars
  BY <1>1 DEF Targets, vars, calls
<1>2. CASE Next
  <2>1. PICK p \in Processes : Act(p) /\ Local(p)
    BY <1>2, Acts, Locality
  <2>2. SUFFICES ASSUME NEW c \in Calls, stage'[c] = "save"
                 PROVE  target'[c] \in IF c \in Receipts THEN {"RECEIVED", "PARTIALLY_RECEIVED"}
                                       ELSE {"APPROVED", "CANCELLED"}
    BY DEF Targets
  <2>3. c \in Processes /\ c \notin Purchases
    BY ConstantsAssumption DEF Processes
  <2>4. CASE c # p
    BY <2>1, <2>2, <2>3, <2>4 DEF Local, Targets
  <2>5. CASE c = p
    <3> USE DEF TypeInv, TypeOK, Goto
    <3>1. CASE Crash(c) \/ SaveStatus(c) \/ Deliver(c) \/ BookItem(c) \/ SaveLine(c) \/ AddStock(c)
      BY <2>2, <2>3, <3>1 DEF Crash, SaveStatus, Deliver, BookItem, SaveLine, AddStock
    <3>2. CASE c \in Updates /\ Update(c)
      BY <2>2, <2>3, <3>2, ConstantsAssumption DEF Update, InsertLines
    <3>3. CASE c \in Approvals \cup Cancels /\ Decide(c)
      <4>1. c \notin Receipts
        BY <3>3, ConstantsAssumption
      <4>2. target'[c] \in {"APPROVED", "CANCELLED"}
        BY <2>2, <2>3, <3>3 DEF Decide
      <4>3. QED
        BY <4>1, <4>2
    <3>4. CASE c \in Receipts /\ ReadStatus(c)
      <4>1. Received(PurchaseOf[c]) # 0
        BY <2>2, <2>3, <3>4 DEF ReadStatus
      <4>2. target'[c] = StatusFor(PurchaseOf[c])
        BY <3>4 DEF ReadStatus
      <4>3. QED
        BY <3>4, <4>1, <4>2 DEF StatusFor
    <3>5. QED
      BY <2>1, <2>3, <2>5, <3>1, <3>2, <3>3, <3>4 DEF Act
  <2>6. QED
    BY <2>4, <2>5
<1>3. QED
  BY <1>1, <1>2

GlobalInv ==
  TypeInv /\ Unborn /\ LineWithinOrder /\ CopyWithinOrder /\ BooksOnce /\ Targets

(***************************************************************************)
(* Sums over the lines and the deliveries of an order.                     *)
(***************************************************************************)
LEMMA Finite ==
  ASSUME NEW o \in Purchases
  PROVE  /\ IsFiniteSet(LineIds)
         /\ \A v \in Variants : IsFiniteSet(GoodsFor(o, v)) /\ GoodsFor(o, v) \subseteq Goods
         /\ IsFiniteSet(LinesOf(o)) /\ LinesOf(o) \subseteq LineIds
         /\ \A v \in Variants : IsFiniteSet(LinesFor(o, v)) /\ LinesFor(o, v) \subseteq LineIds
<1>1. LinesOf(o) \subseteq LineIds /\ \A v \in Variants : LinesFor(o, v) \subseteq LineIds
  BY DEF LinesOf, LinesFor
<1>2. \A v \in Variants : GoodsFor(o, v) \subseteq Goods
  BY DEF GoodsFor
<1>3. QED
  BY <1>1, <1>2, ItemFacts, FS_Subset

LEMMA LineSums ==
  ASSUME TypeOK, NEW o \in Purchases
  PROVE  /\ Received(o) \in Nat /\ Ordered(o) \in Nat
         /\ \A v \in Variants : Recorded(o, v) \in Nat /\ Wanted(o, v) \in Nat
<1> DEFINE r == [l \in LineIds |-> line[l].received]
           w == [l \in LineIds |-> line[l].ordered]
<1>1. \A l \in LineIds : r[l] \in Nat /\ w[l] \in Nat
  BY DEF TypeOK, Line
<1> HIDE DEF r, w
<1>2. Total(LinesOf(o), r) \in Nat /\ Total(LinesOf(o), w) \in Nat
  BY <1>1, Finite, TotalType
<1>3. \A v \in Variants : Total(LinesFor(o, v), r) \in Nat /\ Total(LinesFor(o, v), w) \in Nat
  BY <1>1, Finite, TotalType
<1>4. QED
  BY <1>2, <1>3 DEF Received, Ordered, Recorded, Wanted, r, w

LEMMA GoodsSums ==
  ASSUME TypeOK, NEW o \in Purchases, NEW v \in Variants
  PROVE  Stocked(o, v) \in Nat /\ Delivered(o, v) \in Nat
<1>1. \A i \in GoodsFor(o, v) : added[i] \in Nat /\ item[i] \in Nat
  BY Finite DEF TypeOK
<1>2. QED
  BY <1>1, Finite, TotalType DEF Stocked, Delivered

LinesAre(o) == \A l \in LineIds : OrderOf(l) = o => line'[l] = line[l]

LEMMA LinesStay ==
  ASSUME NEW o \in Purchases, LinesAre(o)
  PROVE  /\ Received(o)' = Received(o) /\ Ordered(o)' = Ordered(o)
         /\ \A v \in Variants : Recorded(o, v)' = Recorded(o, v) /\ Wanted(o, v)' = Wanted(o, v)
<1> DEFINE r == [l \in LineIds |-> line[l].received]
           w == [l \in LineIds |-> line[l].ordered]
           rr == [l \in LineIds |-> line'[l].received]
           ww == [l \in LineIds |-> line'[l].ordered]
<1>1. LinesOf(o)' = LinesOf(o)
  BY DEF LinesOf, LinesAre, OrderOf, Of
<1>2. \A v : LinesFor(o, v)' = LinesFor(o, v)
  BY <1>1 DEF LinesFor
<1>3. \A l \in LinesOf(o) : r[l] = rr[l] /\ w[l] = ww[l]
  BY DEF LinesOf, LinesAre
<1>4. \A v, l : l \in LinesFor(o, v) => r[l] = rr[l] /\ w[l] = ww[l]
  BY <1>3 DEF LinesFor
<1> HIDE DEF r, w, rr, ww
<1>5. Total(LinesOf(o), r) = Total(LinesOf(o), rr) /\ Total(LinesOf(o), w) = Total(LinesOf(o), ww)
  BY <1>3, TotalAgree
<1>6. \A v : /\ Total(LinesFor(o, v), r) = Total(LinesFor(o, v), rr)
             /\ Total(LinesFor(o, v), w) = Total(LinesFor(o, v), ww)
  BY <1>4, TotalAgree
<1>7. Received(o)' = Total(LinesOf(o), rr) /\ Ordered(o)' = Total(LinesOf(o), ww)
  BY <1>1 DEF Received, Ordered, rr, ww
<1>8. \A v : /\ Recorded(o, v)' = Total(LinesFor(o, v), rr)
             /\ Wanted(o, v)' = Total(LinesFor(o, v), ww)
  BY <1>2 DEF Recorded, Wanted, rr, ww
<1>9. QED
  BY <1>5, <1>6, <1>7, <1>8 DEF Received, Ordered, Recorded, Wanted, r, w

GoodsAre(o) == \A i \in Goods : OrderOf(i) = o => item'[i] = item[i] /\ added'[i] = added[i]

LEMMA DeliveredStays ==
  ASSUME NEW o \in Purchases, NEW v \in Variants,
         \A i \in GoodsFor(o, v) : item'[i] = item[i]
  PROVE  Delivered(o, v)' = Delivered(o, v)
<1>1. Delivered(o, v)' = Total(GoodsFor(o, v), item')
  BY DEF Delivered, GoodsFor, OrderOf, Of
<1>2. Total(GoodsFor(o, v), item') = Total(GoodsFor(o, v), item)
  BY TotalAgree
<1>3. QED
  BY <1>1, <1>2 DEF Delivered

LEMMA StockedStays ==
  ASSUME NEW o \in Purchases, NEW v \in Variants,
         \A i \in GoodsFor(o, v) : added'[i] = added[i]
  PROVE  Stocked(o, v)' = Stocked(o, v)
<1>1. Stocked(o, v)' = Total(GoodsFor(o, v), added')
  BY DEF Stocked, GoodsFor, OrderOf, Of
<1>2. Total(GoodsFor(o, v), added') = Total(GoodsFor(o, v), added)
  BY TotalAgree
<1>3. QED
  BY <1>1, <1>2 DEF Stocked

LEMMA GoodsStay ==
  ASSUME NEW o \in Purchases, GoodsAre(o)
  PROVE  \A v \in Variants : Stocked(o, v)' = Stocked(o, v) /\ Delivered(o, v)' = Delivered(o, v)
<1>1. \A v \in Variants : \A i \in GoodsFor(o, v) : item'[i] = item[i] /\ added'[i] = added[i]
  BY DEF GoodsAre, GoodsFor
<1>2. QED
  BY <1>1, DeliveredStays, StockedStays

(* An item, or an addition to the stock, adds its units to the sum.        *)
LEMMA DeliveredGrows ==
  ASSUME TypeOK, TypeOK', NEW o \in Purchases, NEW v \in Variants, NEW n \in Nat,
         NEW i \in GoodsFor(o, v), item'[i] = item[i] + n,
         \A j \in Goods : j # i => item'[j] = item[j]
  PROVE  Delivered(o, v)' = Delivered(o, v) + n
<1>1. Delivered(o, v)' = Total(GoodsFor(o, v), item')
  BY DEF Delivered, GoodsFor, OrderOf, Of
<1>2. IsFiniteSet(GoodsFor(o, v)) /\ GoodsFor(o, v) \subseteq Goods
  BY Finite
<1>3. \A j \in Goods : item[j] \in Nat /\ item'[j] \in Nat
  BY DEF TypeOK
<1>4. Total(GoodsFor(o, v), item') = Total(GoodsFor(o, v), item) + n
  BY <1>2, <1>3, TotalBump
<1>5. QED
  BY <1>1, <1>4 DEF Delivered

LEMMA StockedGrows ==
  ASSUME TypeOK, TypeOK', NEW o \in Purchases, NEW v \in Variants, NEW n \in Nat,
         NEW i \in GoodsFor(o, v), added'[i] = added[i] + n,
         \A j \in Goods : j # i => added'[j] = added[j]
  PROVE  Stocked(o, v)' = Stocked(o, v) + n
<1>1. Stocked(o, v)' = Total(GoodsFor(o, v), added')
  BY DEF Stocked, GoodsFor, OrderOf, Of
<1>2. IsFiniteSet(GoodsFor(o, v)) /\ GoodsFor(o, v) \subseteq Goods
  BY Finite
<1>3. \A j \in Goods : added[j] \in Nat /\ added'[j] \in Nat
  BY DEF TypeOK
<1>4. Total(GoodsFor(o, v), added') = Total(GoodsFor(o, v), added) + n
  BY <1>2, <1>3, TotalBump
<1>5. QED
  BY <1>1, <1>4 DEF Stocked

(* A line saved with more received adds to the sums of its order, and      *)
(* leaves what is ordered as it is.                                        *)
LEMMA RecordedGrows ==
  ASSUME TypeOK, TypeOK', NEW k \in LineIds, NEW n \in Nat, NEW o \in Purchases, OrderOf(k) = o,
         line[k].ordered > 0, line'[k].ordered = line[k].ordered,
         line'[k].received = line[k].received + n,
         \A l \in LineIds : l # k => line'[l] = line[l]
  PROVE  /\ Recorded(o, VariantOf[k])' = Recorded(o, VariantOf[k]) + n
         /\ \A v \in Variants : v # VariantOf[k] => Recorded(o, v)' = Recorded(o, v)
         /\ \A v \in Variants : Wanted(o, v)' = Wanted(o, v)
         /\ Received(o)' = Received(o) + n
         /\ Ordered(o)' = Ordered(o)
<1> DEFINE r == [l \in LineIds |-> line[l].received]
           w == [l \in LineIds |-> line[l].ordered]
           rr == [l \in LineIds |-> line'[l].received]
           ww == [l \in LineIds |-> line'[l].ordered]
<1>1. LinesOf(o)' = LinesOf(o)
  BY DEF LinesOf, OrderOf, Of
<1>2. \A v : LinesFor(o, v)' = LinesFor(o, v)
  BY <1>1 DEF LinesFor
<1>3. k \in LinesOf(o) /\ k \in LinesFor(o, VariantOf[k]) /\ VariantOf[k] \in Variants
  BY ItemFacts DEF LinesOf, LinesFor
<1>4. \A v \in Variants : v # VariantOf[k] => k \notin LinesFor(o, v)
  BY DEF LinesFor
<1>5. \A l \in LineIds : /\ r[l] \in Nat /\ rr[l] \in Nat /\ w[l] = ww[l]
                         /\ l # k => rr[l] = r[l]
  BY DEF TypeOK, Line
<1>6. rr[k] = r[k] + n
  OBVIOUS
<1> HIDE DEF r, w, rr, ww
<1>7. Total(LinesOf(o), rr) = Total(LinesOf(o), r) + n
  <2>1. IsFiniteSet(LinesOf(o)) /\ LinesOf(o) \subseteq LineIds
    BY Finite
  <2>2. QED
    BY <1>3, <1>5, <1>6, <2>1, TotalBump
<1>8. Total(LinesFor(o, VariantOf[k]), rr) = Total(LinesFor(o, VariantOf[k]), r) + n
  <2>1. IsFiniteSet(LinesFor(o, VariantOf[k])) /\ LinesFor(o, VariantOf[k]) \subseteq LineIds
    BY <1>3, Finite
  <2>2. QED
    BY <1>3, <1>5, <1>6, <2>1, TotalBump
<1>9. ASSUME NEW v \in Variants, v # VariantOf[k]
      PROVE  Total(LinesFor(o, v), rr) = Total(LinesFor(o, v), r)
  <2>1. \A l \in LinesFor(o, v) : rr[l] = r[l]
    BY <1>4, <1>5, <1>9, Finite
  <2>2. QED
    BY <2>1, TotalAgree
<1>10. \A v \in Variants : Total(LinesFor(o, v), ww) = Total(LinesFor(o, v), w)
  BY <1>5, Finite, TotalAgree
<1>11. Total(LinesOf(o), ww) = Total(LinesOf(o), w)
  BY <1>5, Finite, TotalAgree
<1>12. Received(o)' = Total(LinesOf(o), rr) /\ Ordered(o)' = Total(LinesOf(o), ww)
  BY <1>1 DEF Received, Ordered, rr, ww
<1>13. \A v : /\ Recorded(o, v)' = Total(LinesFor(o, v), rr)
              /\ Wanted(o, v)' = Total(LinesFor(o, v), ww)
  BY <1>2 DEF Recorded, Wanted, rr, ww
<1>14. QED
  BY <1>3, <1>7, <1>8, <1>9, <1>10, <1>11, <1>12, <1>13 DEF Received, Ordered, Recorded, Wanted, r, w

(* No more is received than ordered.                                       *)
LEMMA ReceivedWithin ==
  ASSUME TypeOK, LineWithinOrder, NEW o \in Purchases
  PROVE  Received(o) <= Ordered(o)
<1> DEFINE r == [l \in LineIds |-> line[l].received]
           w == [l \in LineIds |-> line[l].ordered]
<1>1. \A l \in LineIds : r[l] \in Nat /\ w[l] \in Nat /\ r[l] <= w[l]
  BY DEF TypeOK, Line, LineWithinOrder
<1> HIDE DEF r, w
<1>2. Total(LinesOf(o), r) <= Total(LinesOf(o), w)
  BY <1>1, Finite, TotalMono
<1>3. QED
  BY <1>2 DEF Received, Ordered, r, w

(* What fits on one line fits on the order.                                *)
LEMMA FitsOrder ==
  ASSUME TypeOK, LineWithinOrder, NEW o \in Purchases, NEW k \in LineIds, NEW n \in Nat,
         OrderOf(k) = o, line[k].ordered > 0, line[k].received + n <= line[k].ordered
  PROVE  Recorded(o, VariantOf[k]) + n <= Wanted(o, VariantOf[k])
<1> DEFINE r == [l \in LineIds |-> line[l].received]
           w == [l \in LineIds |-> line[l].ordered]
           S == LinesFor(o, VariantOf[k])
<1>1. k \in S /\ IsFiniteSet(S) /\ S \subseteq LineIds /\ IsFiniteSet(S \ {k})
  <2>1. VariantOf[k] \in Variants /\ k \in S
    BY ItemFacts DEF LinesOf, LinesFor
  <2>2. IsFiniteSet(S) /\ S \subseteq LineIds
    BY <2>1, Finite
  <2>3. QED
    BY <2>1, <2>2, FS_RemoveElement
<1>2. \A l \in LineIds : r[l] \in Nat /\ w[l] \in Nat /\ r[l] <= w[l]
  BY DEF TypeOK, Line, LineWithinOrder
<1>3. r[k] + n <= w[k]
  OBVIOUS
<1>4. Recorded(o, VariantOf[k]) = Total(S, r) /\ Wanted(o, VariantOf[k]) = Total(S, w)
  BY DEF Recorded, Wanted
<1> HIDE DEF r, w, S
<1>5. Total(S, r) = Total(S \ {k}, r) + r[k] /\ Total(S \ {k}, r) \in Nat
  BY <1>1, <1>2, TotalSplit
<1>6. Total(S, w) = Total(S \ {k}, w) + w[k] /\ Total(S \ {k}, w) \in Nat
  BY <1>1, <1>2, TotalSplit
<1>7. Total(S \ {k}, r) <= Total(S \ {k}, w)
  BY <1>1, <1>2, TotalMono
<1>8. QED
  BY <1>1, <1>2, <1>3, <1>4, <1>5, <1>6, <1>7

(***************************************************************************)
(* One order at a time.                                                    *)
(***************************************************************************)
(* What the books of an order depend on.                                   *)
Same(o) ==
  /\ status'[o] = status[o] /\ stage'[o] = stage[o]
  /\ \A c \in Calls : PurchaseOf[c] = o => stage'[c] = stage[c] /\ target'[c] = target[c]
  /\ \A g \in Receipts : PurchaseOf[g] = o => at'[g] = at[g] /\ copy'[g] = copy[g]
  /\ LinesAre(o) /\ GoodsAre(o)
  /\ Unbroken(o)' <=> Unbroken(o)

LEMMA BooksStay ==
  ASSUME NEW o \in Purchases, LinesAre(o), GoodsAre(o), Unbroken(o)' <=> Unbroken(o),
         \A v \in Variants, s \in {"line", "stock"} : Between(o, v, s)' = Between(o, v, s),
         \A g \in Receipts : PurchaseOf[g] = o => at'[g] = at[g],
         Books(o)
  PROVE  Books(o)'
<1> SUFFICES ASSUME NEW v \in Variants PROVE BooksOf(o, v)'
  BY DEF Books
<1>1. /\ Recorded(o, v)' = Recorded(o, v) /\ Wanted(o, v)' = Wanted(o, v)
      /\ Stocked(o, v)' = Stocked(o, v) /\ Delivered(o, v)' = Delivered(o, v)
  BY LinesStay, GoodsStay
<1>2. BooksOf(o, v)
  BY DEF Books
<1>3. /\ Between(o, v, "line")' = Between(o, v, "line")
      /\ Between(o, v, "stock")' = Between(o, v, "stock")
  OBVIOUS
<1>4. \A s : \A g \in Between(o, v, s) : Under(g)' = Under(g)
  BY DEF Between, Under
<1>5. QED
  BY <1>1, <1>2, <1>3, <1>4 DEF BooksOf

LEMMA SameStays ==
  ASSUME NEW o \in Purchases, Same(o), OrderInv(o)
  PROVE  OrderInv(o)'
<1> USE DEF Same
<1>1. \A c \in Calls : PurchaseOf[c] = o => (Running(c)' <=> Running(c))
  BY DEF Running
<1>2. Updates \subseteq Calls /\ Receipts \subseteq Calls
  BY DEF Calls
<1>3. StatusHolds(o)'
  BY <1>1, <1>2 DEF OrderInv, StatusHolds, Open
<1>4. DraftIsUntouched(o)'
  BY DEF OrderInv, DraftIsUntouched, LinesAre, GoodsAre, OrderOf, Of
<1>5. CopyIsCurrent(o)'
  BY <1>2 DEF OrderInv, CopyIsCurrent, LinesAre, OrderOf, Of
<1>6. Books(o)'
  <2>1. \A v \in Variants, s \in {"line", "stock"} : Between(o, v, s)' = Between(o, v, s)
    BY <1>2 DEF Between
  <2>2. QED
    BY <2>1, BooksStay DEF OrderInv
<1>7. StatusEarned(o)'
  <2>1. Received(o)' = Received(o) /\ Ordered(o)' = Ordered(o)
    BY LinesStay
  <2>2. QED
    BY <1>2, <2>1 DEF OrderInv, StatusEarned, Earned
<1>8. OneBooks(o)'
  BY <1>2 DEF OrderInv, OneBooks
<1>9. QED
  BY <1>3, <1>4, <1>5, <1>6, <1>7, <1>8 DEF OrderInv

LEMMA Elsewhere ==
  ASSUME NEW o \in Purchases, NEW p \in Processes, TypeOK', Local(p), o # Of(p), OrderInv(o)
  PROVE  OrderInv(o)'
<1>1. o \in Processes /\ \A c \in Calls : c \in Processes /\ Of(c) = PurchaseOf[c]
  BY OfCalls DEF Processes
<1>2. o # p /\ \A c \in Calls : PurchaseOf[c] = o => c # p
  BY <1>1, OfCalls
<1>3. Receipts \subseteq Calls
  BY DEF Calls
<1>4. LinesAre(o) /\ GoodsAre(o)
  <2>1. \A i \in Goods : OrderOf(i) = o => CallOf[i] # p
    BY DEF OrderOf
  <2>2. QED
    BY <2>1 DEF Local, LinesAre, GoodsAre
<1>5. Unbroken(o)' <=> Unbroken(o)
  <2>1. broken' \subseteq Receipts /\ broken \subseteq broken' /\ broken' \subseteq broken \cup {p}
    BY DEF TypeOK, Local
  <2>2. p \in Receipts => PurchaseOf[p] # o
    BY <1>1, <1>3
  <2>3. QED
    BY <2>1, <2>2 DEF Unbroken
<1>6. Same(o)
  BY <1>1, <1>2, <1>3, <1>4, <1>5 DEF Local, Same
<1>7. QED
  BY <1>6, SameStays

(* The step of a call on its own order, with no call overtaken.            *)
Own(o, p) ==
  /\ p \in Processes /\ Of(p) = o /\ Local(p)
  /\ GlobalInv /\ GlobalInv' /\ Unraced(o)' /\ OrderInv(o)

LEMMA OwnFacts ==
  ASSUME NEW o \in Purchases, NEW p, Own(o, p)
  PROVE  /\ \A c \in Calls : c \in Processes /\ Of(c) = PurchaseOf[c] /\ c \notin Purchases
         /\ o \in Processes /\ Of(o) = o /\ (p = o \/ (p \in Calls /\ PurchaseOf[p] = o))
         /\ \A c \in Processes : c # p => stage'[c] = stage[c]
         /\ Changed(p) => \A c \in Processes : c # p /\ Of(c) = o => stage[c] \in {"idle", "done"}
<1>1. \A c \in Calls : c \in Processes /\ Of(c) = PurchaseOf[c] /\ c \notin Purchases
  BY OfCalls, ConstantsAssumption DEF Processes
<1>2. o \in Processes /\ Of(o) = o
  BY OfCalls DEF Processes
<1>3. p = o \/ (p \in Calls /\ PurchaseOf[p] = o)
  <2>1. p \in Purchases \cup Calls /\ Of(p) = o
    BY DEF Own, Processes
  <2>2. (p \in Purchases => Of(p) = p) /\ (p \in Calls => Of(p) = PurchaseOf[p])
    BY OfCalls
  <2>3. QED
    BY <2>1, <2>2
<1>4. \A c \in Processes : c # p => stage'[c] = stage[c]
  BY DEF Own, Local
<1>5. Changed(p) => \A c \in Processes : c # p /\ Of(c) = o => stage[c] \in {"idle", "done"}
  BY Alone DEF Own, Running
<1>6. QED
  BY <1>1, <1>2, <1>3, <1>4, <1>5

(***************************************************************************)
(* The status a call has begun with, and what a draft has received.        *)
(***************************************************************************)
LEMMA StatusPart ==
  ASSUME NEW o \in Purchases, NEW p, Own(o, p), Act(p)
  PROVE  StatusHolds(o)'
<1> USE OwnFacts DEF Goto
<1>0. /\ stage \in [Processes -> Stages]
      /\ status \in [Purchases -> PurchaseOrderStatus \cup {"NONE"}]
      /\ StatusHolds(o)
      /\ Updates \subseteq Calls /\ Receipts \subseteq Calls
  BY DEF Own, GlobalInv, TypeInv, TypeOK, Stages, OrderInv, Calls
<1>1. CASE p \in Purchases /\ Create(p)
  <2>1. p = o
    BY <1>1
  <2>2. CASE stage[o] = "idle"
    <3>1. \A c \in Calls : PurchaseOf[c] = o => stage'[c] = "idle"
      BY <2>1, <2>2 DEF Own, GlobalInv, Unborn
    <3>2. status'[o] = "DRAFT"
      BY <1>0, <1>1, <2>1, <2>2 DEF Create
    <3>3. QED
      BY <1>0, <3>1, <3>2 DEF StatusHolds, Running
  <2>3. CASE stage[o] \in {"lines", "total"}
    <3>1. Changed(o) /\ status'[o] = "DRAFT"
      BY <1>0, <1>1, <2>1, <2>3 DEF Create, InsertLines, StatusHolds
    <3>2. \A c \in Calls : PurchaseOf[c] = o => stage'[c] \in {"idle", "done"}
      BY <2>1, <3>1
    <3>3. QED
      BY <1>0, <3>1, <3>2 DEF StatusHolds, Running
  <2>4. QED
    BY <1>1, <2>1, <2>2, <2>3 DEF Create
<1>2. CASE status'[o] = status[o] /\ p \in Calls /\ (Running(p) \/ stage'[p] = "done")
  BY <1>0, <1>2 DEF StatusHolds, Running, Open
<1>3. CASE p \in Updates /\ stage[p] = "idle" /\ Update(p)
  <2>1. status'[o] = status[o] /\ (stage'[p] # "done" => status[o] = "DRAFT")
    BY <1>0, <1>3 DEF Update, InsertLines, tables
  <2>2. p \notin Receipts
    BY <1>3, ConstantsAssumption
  <2>3. QED
    BY <1>0, <1>3, <2>1, <2>2 DEF StatusHolds, Running, Open
<1>4. CASE p \in Receipts /\ Deliver(p)
  <2>1. status'[o] = status[o] /\ (stage'[p] # "done" => Open(o))
    BY <1>0, <1>4 DEF Deliver, tables
  <2>2. p \notin Updates
    BY <1>4, ConstantsAssumption
  <2>3. QED
    BY <1>0, <1>4, <2>1, <2>2 DEF StatusHolds, Running, Open
<1>5. CASE p \in Approvals \cup Cancels /\ Decide(p)
  <2>1. status'[o] = status[o]
    BY <1>5 DEF Decide, tables
  <2>2. p \notin Updates \cup Receipts /\ p # o
    BY <1>0, <1>5, ConstantsAssumption DEF Calls
  <2>3. QED
    BY <1>0, <2>1, <2>2 DEF StatusHolds, Running, Open
<1>6. CASE p \in Approvals \cup Cancels \cup Receipts /\ SaveStatus(p)
  <2>1. Changed(p) /\ stage'[p] = "done" /\ p # o
    BY <1>0, <1>6 DEF SaveStatus, Calls
  <2>2. \A c \in Processes : Of(c) = o => stage'[c] \in {"idle", "done"}
    BY <2>1
  <2>3. QED
    BY <1>0, <2>2 DEF StatusHolds, Running
<1>7. CASE Crash(p)
  BY <1>0, <1>7 DEF Crash, StatusHolds, Running, Open, tables
<1>8. CASE p \in Updates /\ stage[p] # "idle" /\ Update(p)
  <2>1. status' = status /\ Running(p) /\ p \in Calls
    BY <1>0, <1>8 DEF Update, InsertLines, Running
  <2>2. QED
    BY <1>2, <2>1
<1>9. CASE p \in Receipts /\ (BookItem(p) \/ SaveLine(p) \/ AddStock(p) \/ ReadStatus(p))
  <2>1. status' = status /\ Running(p) /\ p \in Calls
    BY <1>0, <1>9 DEF BookItem, SaveLine, AddStock, ReadStatus, Running, tables
  <2>2. QED
    BY <1>2, <2>1
<1>10. QED
  BY <1>1, <1>3, <1>4, <1>5, <1>6, <1>7, <1>8, <1>9 DEF Act

LEMMA DraftPart ==
  ASSUME NEW o \in Purchases, NEW p, Own(o, p), Act(p)
  PROVE  DraftIsUntouched(o)'
<1> USE OwnFacts DEF Goto
<1>0. /\ TypeOK /\ DraftIsUntouched(o) /\ StatusHolds(o) /\ BooksOnce /\ Targets /\ Unborn
      /\ Updates \subseteq Calls /\ Receipts \subseteq Calls
  BY DEF Own, GlobalInv, TypeInv, OrderInv, Calls
<1>1. CASE status'[o] = status[o] /\ GoodsAre(o)
           /\ \A l \in LineIds : OrderOf(l) = o => line'[l].received \in {0, line[l].received}
  BY <1>1, <1>0 DEF DraftIsUntouched, GoodsAre, OrderOf, Of
<1>2. CASE p \in Purchases /\ Create(p)
  <2>1. p = o
    BY <1>2
  <2>2. CASE stage[o] = "idle"
    <3>1. status[o] = "NONE"
      BY <1>0, <2>2 DEF Unborn
    <3>2. GoodsAre(o) /\ line' = line
      BY <1>2, <2>1, <2>2 DEF Create, GoodsAre
    <3>3. QED
      BY <1>0, <3>1, <3>2 DEF DraftIsUntouched, GoodsAre, OrderOf, Of
  <2>3. CASE stage[o] \in {"lines", "total"}
    <3>1. status'[o] = status[o] /\ GoodsAre(o)
      BY <1>0, <1>2, <2>1, <2>3 DEF Create, InsertLines, StatusHolds, GoodsAre, TypeOK
    <3>2. \A l \in LineIds : line'[l].received \in {0, line[l].received}
      BY <1>2, <2>1, <2>3 DEF Create, InsertLines
    <3>3. QED
      BY <1>1, <3>1, <3>2
  <2>4. QED
    BY <1>2, <2>1, <2>2, <2>3 DEF Create
<1>3. CASE p \in Updates /\ Update(p)
  <2>1. status' = status /\ GoodsAre(o)
    BY <1>3 DEF Update, InsertLines, GoodsAre, tables
  <2>2. \A l \in LineIds : line'[l].received \in {0, line[l].received}
    BY <1>3 DEF Update, InsertLines, NoLine, tables
  <2>3. QED
    BY <1>1, <2>1, <2>2
<1>4. CASE p \in Approvals \cup Cancels /\ Decide(p)
  <2>1. status' = status /\ GoodsAre(o) /\ line' = line
    BY <1>4 DEF Decide, GoodsAre, tables
  <2>2. QED
    BY <1>1, <2>1
<1>5. CASE p \in Receipts /\ (Deliver(p) \/ ReadStatus(p))
  <2>1. status' = status /\ GoodsAre(o) /\ line' = line
    BY <1>5 DEF Deliver, ReadStatus, GoodsAre, tables
  <2>2. QED
    BY <1>1, <2>1
<1>6. CASE p \in Receipts /\ (BookItem(p) \/ SaveLine(p) \/ AddStock(p))
  <2>1. status' = status /\ Running(p)
    BY <1>6 DEF BookItem, SaveLine, AddStock, Running
  <2>2. status'[o] \in {"APPROVED", "PARTIALLY_RECEIVED"}
    BY <1>0, <1>6, <2>1 DEF StatusHolds, Open
  <2>3. QED
    BY <2>2 DEF DraftIsUntouched
<1>7. CASE p \in Approvals \cup Cancels \cup Receipts /\ SaveStatus(p)
  <2>1. p \in Calls /\ PurchaseOf[p] = o
    BY <1>7 DEF Calls
  <2>2. status'[o] = target[p] /\ stage[p] = "save"
    BY <1>0, <1>7, <2>1 DEF SaveStatus, TypeOK
  <2>3. target[p] \notin {"NONE", "DRAFT"}
    BY <1>0, <2>1, <2>2 DEF Targets
  <2>4. QED
    BY <2>2, <2>3 DEF DraftIsUntouched
<1>8. CASE Crash(p)
  <2>1. status' = status /\ GoodsAre(o) /\ line' = line
    BY <1>8 DEF Crash, GoodsAre, tables
  <2>2. QED
    BY <1>1, <2>1
<1>9. QED
  BY <1>2, <1>3, <1>4, <1>5, <1>6, <1>7, <1>8 DEF Act

(***************************************************************************)
(* What a delivery has read.                                               *)
(***************************************************************************)
(* What a delivery does to the item it books and to the line it saves.     *)
LEMMA BookEffect ==
  ASSUME TypeInv, NEW g \in Receipts, BookItem(g), stage'[g] # "done"
  PROVE  \E i \in rest[g], l \in LineIds :
           /\ VariantOf[l] = VariantOf[i] /\ OrderOf(l) = Of(g) /\ copy[g][l].ordered > 0
           /\ Fits(g, i, l)
           /\ item' = [item EXCEPT ![i] = UnitsOf[i]]
           /\ copy' = [copy EXCEPT ![g][l].received = Booked(g, i, l)]
           /\ at'[g] = <<i, l>> /\ stage'[g] = "line" /\ stage[g] = "item"
           /\ Changed(g) /\ UNCHANGED <<status, line, added>>
<1>1. g \in Processes /\ stage \in [Processes -> Stages]
  BY DEF TypeInv, TypeOK, Processes, Calls, Stages
<1>2. PICK i \in rest[g], l \in LineIds :
        /\ l \in Read(g, i)
        /\ Fits(g, i, l)
        /\ item' = [item EXCEPT ![i] = UnitsOf[i]]
        /\ copy' = [copy EXCEPT ![g][l].received = Booked(g, i, l)]
        /\ at' = [at EXCEPT ![g] = <<i, l>>]
        /\ Changed(g)
        /\ Goto(g, "line")
  BY <1>1 DEF BookItem, Goto, Read
<1>3. /\ l \in LineIds /\ VariantOf[l] = VariantOf[i] /\ OrderOf(l) = Of(g)
      /\ copy[g][l].ordered > 0
  BY <1>2 DEF Read
<1>4. at'[g] = <<i, l>> /\ stage'[g] = "line"
  BY <1>1, <1>2 DEF Goto, TypeInv, TypeOK
<1>5. stage[g] = "item" /\ UNCHANGED <<status, line, added>>
  BY DEF BookItem
<1>6. QED
  BY <1>2, <1>3, <1>4, <1>5

LEMMA SaveEffect ==
  ASSUME TypeInv, BooksOnce, NEW o \in Purchases, CopyIsCurrent(o), NEW g \in Receipts,
         PurchaseOf[g] = o, SaveLine(g)
  PROVE  /\ at[g] \in Goods \X LineIds /\ OrderOf(at[g][2]) = o
         /\ VariantOf[at[g][2]] \in Variants /\ VariantOf[at[g][1]] = VariantOf[at[g][2]]
         /\ at' = at /\ stage'[g] = "stock" /\ Changed(g) /\ Under(g) \in Nat
         /\ UNCHANGED <<status, item, added, copy>>
         /\ line' = [line EXCEPT ![at[g][2]] = copy[g][at[g][2]]]
         /\ line[at[g][2]].ordered > 0 /\ line'[at[g][2]].ordered = line[at[g][2]].ordered
         /\ line'[at[g][2]].received = line[at[g][2]].received + Under(g)
<1>1. stage[g] = "line" /\ g \in Processes
  BY DEF SaveLine, Processes, Calls
<1>2. /\ at[g] \in Goods \X LineIds /\ OrderOf(at[g][2]) = o
      /\ VariantOf[at[g][1]] = VariantOf[at[g][2]]
  BY <1>1 DEF BooksOnce
<1>3. at[g][1] \in Goods /\ at[g][2] \in LineIds
  BY <1>2
<1>4. VariantOf[at[g][2]] \in Variants /\ Under(g) \in Nat
  BY <1>3, ItemFacts DEF Under
<1>5. at' = at /\ Changed(g) /\ UNCHANGED <<status, item, added, copy>>
      /\ line' = [line EXCEPT ![at[g][2]] = copy[g][at[g][2]]] /\ stage' = [stage EXCEPT ![g] = "stock"]
  BY DEF SaveLine, Goto
<1>6. stage'[g] = "stock"
  BY <1>1, <1>5 DEF TypeInv, TypeOK
<1>7. line'[at[g][2]] = copy[g][at[g][2]]
  BY <1>3, <1>5 DEF TypeInv, TypeOK
<1>8. /\ copy[g][at[g][2]].ordered = line[at[g][2]].ordered /\ line[at[g][2]].ordered > 0
      /\ copy[g][at[g][2]].received = line[at[g][2]].received + Under(g)
  BY <1>1, <1>2, <1>3 DEF CopyIsCurrent, Under
<1>9. QED
  BY <1>2, <1>4, <1>5, <1>6, <1>7, <1>8

LEMMA CopyPart ==
  ASSUME NEW o \in Purchases, NEW p, Own(o, p), Act(p)
  PROVE  CopyIsCurrent(o)'
<1> USE OwnFacts
<1>0. /\ TypeInv /\ TypeOK /\ CopyIsCurrent(o) /\ StatusHolds(o) /\ BooksOnce /\ Local(p)
      /\ Receipts \subseteq Calls /\ Receipts \subseteq Processes /\ stage \in [Processes -> Stages]
  BY DEF Own, GlobalInv, TypeInv, OrderInv, Calls, Processes, TypeOK, Stages
<1>1. SUFFICES ASSUME NEW g \in Receipts, PurchaseOf[g] = o, stage'[g] \in {"item", "line", "stock"},
                      NEW l \in LineIds, OrderOf(l) = o
               PROVE  IF stage'[g] = "line" /\ l = at'[g][2]
                        THEN /\ copy'[g][l].ordered = line'[l].ordered /\ line'[l].ordered > 0
                             /\ copy'[g][l].received = line'[l].received + UnitsOf[at'[g][1]]
                        ELSE copy'[g][l].ordered > 0 => copy'[g][l] = line'[l]
  BY DEF CopyIsCurrent, OrderOf, Of
<1>2. CASE g # p
  <2>1. /\ stage'[g] = stage[g] /\ at'[g] = at[g] /\ copy'[g] = copy[g]
        /\ stage[g] \notin {"idle", "done"} /\ Of(g) = o
    BY <1>0, <1>1, <1>2 DEF Local
  <2>2. ~Changed(p)
    BY <1>0, <1>2, <2>1
  <2>3. line'[l] = line[l]
    BY <2>2 DEF Act, Create, Update, InsertLines, Decide, Deliver, BookItem, SaveLine, AddStock,
       ReadStatus, SaveStatus, Crash, tables
  <2>4. QED
    BY <1>0, <1>1, <2>1, <2>3 DEF CopyIsCurrent
<1>3. CASE g = p
  <2>1. g \notin Purchases \cup Updates \cup Approvals \cup Cancels
    BY ConstantsAssumption DEF Calls
  <2>2. CASE Deliver(g)
    <3>1. stage'[g] = "item" /\ line' = line
      BY <1>0, <1>1, <2>2 DEF Deliver, Goto, TypeOK, tables
    <3>2. PICK F \in FirstLines(PurchaseOf[g]) :
            copy' = [copy EXCEPT ![g] = [k \in LineIds |-> IF k \in F THEN line[k] ELSE NoLine]]
      BY <1>0, <1>1, <2>2, <3>1 DEF Deliver, Goto, TypeOK
    <3>3. copy'[g][l] = IF l \in F THEN line[l] ELSE NoLine
      BY <1>0, <1>1, <3>2 DEF TypeOK
    <3>4. QED
      BY <3>1, <3>3 DEF NoLine
  <2>3. CASE BookItem(g)
    <3>1. PICK i \in rest[g], k \in LineIds :
            /\ copy[g][k].ordered > 0
            /\ copy' = [copy EXCEPT ![g][k].received = Booked(g, i, k)]
            /\ at'[g] = <<i, k>> /\ stage'[g] = "line" /\ stage[g] = "item" /\ line' = line
      BY <1>0, <1>1, <2>3, BookEffect
    <3>2. copy[g][l].ordered > 0 => copy[g][l] = line[l]
      BY <1>0, <1>1, <3>1 DEF CopyIsCurrent
    <3>3. copy[g][l] \in Line /\ at'[g][1] = i /\ at'[g][2] = k
      BY <1>0, <1>1, <3>1 DEF TypeOK
    <3>4. CASE l = k
      <4>1. copy'[g][l].received = Booked(g, i, l) /\ copy'[g][l].ordered = copy[g][l].ordered
        BY <1>0, <3>1, <3>3, <3>4 DEF TypeOK, Line
      <4>2. copy[g][l] = line[l] /\ line[l].ordered > 0
        BY <3>1, <3>2, <3>4
      <4>3. QED
        BY <1>1, <3>1, <3>3, <3>4, <4>1, <4>2 DEF Booked
    <3>5. CASE l # k
      <4>1. copy'[g][l] = copy[g][l]
        BY <1>0, <3>1, <3>5 DEF TypeOK
      <4>2. QED
        BY <3>1, <3>2, <3>3, <3>5, <4>1
    <3>6. QED
      BY <3>4, <3>5
  <2>4. CASE SaveLine(g)
    <3>1. /\ line' = [line EXCEPT ![at[g][2]] = copy[g][at[g][2]]] /\ copy' = copy
          /\ stage'[g] = "stock" /\ stage[g] = "line"
      BY <1>0, <1>1, <2>4, SaveEffect DEF SaveLine
    <3>2. CASE l = at[g][2]
      BY <1>0, <3>1, <3>2 DEF TypeOK
    <3>3. CASE l # at[g][2]
      <4>1. copy[g][l].ordered > 0 => copy[g][l] = line[l]
        BY <1>0, <1>1, <3>1, <3>3 DEF CopyIsCurrent
      <4>2. QED
        BY <1>0, <3>1, <3>3, <4>1 DEF TypeOK
    <3>4. QED
      BY <3>2, <3>3
  <2>5. CASE AddStock(g)
    <3>1. stage[g] = "stock" /\ stage'[g] = "item" /\ UNCHANGED <<line, copy>>
      BY <1>0, <1>1, <2>5 DEF AddStock, Goto
    <3>2. QED
      BY <1>0, <1>1, <3>1 DEF CopyIsCurrent
  <2>6. CASE ReadStatus(g) \/ SaveStatus(g) \/ Crash(g)
    <3>1. stage'[g] \in {"done", "save"}
      BY <1>0, <2>6 DEF ReadStatus, SaveStatus, Crash, Goto
    <3>2. QED
      BY <1>1, <3>1
  <2>7. QED
    BY <1>3, <2>1, <2>2, <2>3, <2>4, <2>5, <2>6 DEF Act
<1>4. QED
  BY <1>2, <1>3

(***************************************************************************)
(* The status of an order.                                                 *)
(***************************************************************************)
LEMMA EarnedPart ==
  ASSUME NEW o \in Purchases, NEW p, Own(o, p), Act(p)
  PROVE  StatusEarned(o)'
<1> USE OwnFacts
<1>0. /\ TypeInv /\ TypeOK /\ TypeOK' /\ LineWithinOrder /\ StatusEarned(o) /\ StatusHolds(o)
      /\ CopyIsCurrent(o) /\ StatusHolds(o)' /\ BooksOnce /\ Targets /\ Local(p)
      /\ Receipts \subseteq Calls /\ stage \in [Processes -> Stages]
  BY StatusPart DEF Own, GlobalInv, TypeInv, OrderInv, Calls, TypeOK, Stages
<1>1. CASE /\ LinesAre(o)
           /\ Earned(o, status[o]) => Earned(o, status'[o])
           /\ \A g \in Receipts : PurchaseOf[g] = o /\ stage'[g] = "save" =>
                stage[g] = "save" /\ target'[g] = target[g]
  <2>1. Received(o)' = Received(o) /\ Ordered(o)' = Ordered(o)
    BY <1>1, LinesStay
  <2>2. QED
    BY <1>0, <1>1, <2>1 DEF StatusEarned, Earned
<1>2. CASE \E q \in Writers : Of(q) = o /\ Changed(q) /\ q = p /\ status'[o] = "DRAFT"
  <2>1. \A g \in Receipts : PurchaseOf[g] = o => g # p
    BY <1>2, ConstantsAssumption DEF Writers, Calls
  <2>2. \A g \in Receipts : PurchaseOf[g] = o => stage'[g] \in {"idle", "done"}
    BY <1>0, <1>2, <2>1
  <2>3. QED
    BY <1>2, <2>2 DEF StatusEarned, Earned
<1>3. CASE p \in Purchases /\ Create(p)
  <2>1. p = o /\ p \in Writers
    BY <1>3 DEF Writers
  <2>2. CASE stage[o] = "idle"
    <3>1. /\ LinesAre(o) /\ status'[o] = "DRAFT"
          /\ \A g \in Receipts : stage'[g] = stage[g] /\ target'[g] = target[g]
      BY <1>0, <1>3, <2>1, <2>2 DEF Create, LinesAre, TypeOK
    <3>2. Earned(o, "DRAFT")
      BY DEF Earned
    <3>3. QED
      BY <1>1, <3>1, <3>2
  <2>3. CASE stage[o] \in {"lines", "total"}
    <3>1. Changed(o) /\ status'[o] = "DRAFT"
      BY <1>0, <1>3, <2>1, <2>3 DEF Create, InsertLines, StatusHolds, TypeOK
    <3>2. QED
      BY <1>2, <2>1, <3>1
  <2>4. QED
    BY <1>3, <2>1, <2>2, <2>3 DEF Create
<1>4. CASE p \in Updates /\ Update(p)
  <2>1. p \in Writers /\ p \in Calls
    BY <1>4 DEF Writers, Calls
  <2>2. CASE stage[p] = "idle"
    <3>1. /\ LinesAre(o) /\ status' = status
          /\ \A g \in Receipts : stage'[g] = "save" => stage[g] = "save" /\ target'[g] = target[g]
      BY <1>0, <1>4, <2>2, ConstantsAssumption
         DEF Update, InsertLines, LinesAre, TypeOK, tables, Goto
    <3>2. QED
      BY <1>1, <3>1
  <2>3. CASE stage[p] \in {"delete", "lines"}
    <3>1. Changed(p) /\ status' = status
      BY <1>4, <2>3 DEF Update, InsertLines
    <3>2. status[o] = "DRAFT"
      BY <1>0, <1>4, <2>1, <2>3, ConstantsAssumption DEF StatusHolds, Running
    <3>3. QED
      BY <1>2, <2>1, <3>1, <3>2 DEF Own
  <2>4. QED
    BY <1>4, <2>2, <2>3 DEF Update
<1>5. CASE p \in Approvals \cup Cancels /\ Decide(p)
  <2>1. p \notin Receipts
    BY <1>5, ConstantsAssumption
  <2>2. /\ LinesAre(o) /\ status' = status
        /\ \A g \in Receipts : stage'[g] = stage[g] /\ target'[g] = target[g]
    BY <1>0, <1>5, <2>1 DEF Decide, LinesAre, tables, Local
  <2>3. QED
    BY <1>1, <2>2
<1>6. CASE p \in Receipts /\ (Deliver(p) \/ BookItem(p) \/ AddStock(p))
  <2>1. LinesAre(o) /\ status' = status /\ target' = target /\ stage'[p] # "save"
    BY <1>0, <1>6 DEF Deliver, BookItem, AddStock, LinesAre, tables, Goto
  <2>2. QED
    BY <1>0, <1>1, <2>1
<1>7. CASE p \in Receipts /\ SaveLine(p)
  <2>1. PurchaseOf[p] = o
    BY <1>0, <1>7
  <2>2. Received(o)' = Received(o) + Under(p)
    <3>1. \A l \in LineIds : l # at[p][2] => line'[l] = line[l]
      BY <1>0, <1>7, <2>1, SaveEffect DEF TypeOK
    <3>2. at[p][2] \in LineIds
      BY <1>0, <1>7, <2>1, SaveEffect
    <3>3. QED
      BY <1>0, <1>7, <2>1, <3>1, <3>2, SaveEffect, RecordedGrows
  <2>3. Received(o) \in Nat /\ Under(p) \in Nat
    BY <1>0, <1>7, <2>1, LineSums, SaveEffect
  <2>4. Open(o) /\ status' = status
    BY <1>0, <1>7, <2>1 DEF StatusHolds, Running, SaveLine
  <2>5. Earned(o, status[o])
    BY <1>0 DEF StatusEarned
  <2>6. Earned(o, status[o])'
    BY <2>2, <2>3, <2>4, <2>5 DEF Earned, Open
  <2>7. \A g \in Receipts : PurchaseOf[g] = o => stage'[g] # "save"
    <3>1. stage'[p] = "stock" /\ Changed(p)
      BY <1>0, <1>7, <2>1, SaveEffect
    <3>2. QED
      BY <1>0, <3>1
  <2>8. QED
    BY <2>6, <2>7 DEF StatusEarned
<1>8. CASE p \in Receipts /\ ReadStatus(p)
  <2>1. PurchaseOf[p] = o /\ p \in Calls
    BY <1>0, <1>8
  <2>2. LinesAre(o) /\ status' = status /\ target'[p] = StatusFor(o)
    BY <1>0, <1>8, <2>1 DEF ReadStatus, LinesAre, tables, TypeOK
  <2>3. stage'[p] = "save" => Received(o) # 0
    BY <1>0, <1>8, <2>1 DEF ReadStatus, Goto
  <2>4. Received(o) <= Ordered(o) /\ Received(o) \in Nat /\ Ordered(o) \in Nat
    BY <1>0, ReceivedWithin, LineSums
  <2>5. stage'[p] = "save" => Earned(o, StatusFor(o))
    BY <2>3, <2>4 DEF Earned, StatusFor
  <2>6. Received(o)' = Received(o) /\ Ordered(o)' = Ordered(o)
    BY <2>2, LinesStay
  <2>7. \A g \in Receipts : g # p => stage'[g] = stage[g] /\ target'[g] = target[g]
    BY <1>0 DEF Local
  <2>8. QED
    BY <1>0, <2>2, <2>5, <2>6, <2>7 DEF StatusEarned, Earned
<1>9. CASE p \in Approvals \cup Cancels \cup Receipts /\ SaveStatus(p)
  <2>1. p \in Calls /\ PurchaseOf[p] = o
    BY <1>9 DEF Calls
  <2>2. /\ LinesAre(o) /\ status'[o] = target[p] /\ Changed(p) /\ stage[p] = "save"
        /\ stage'[p] = "done"
    BY <1>0, <1>9, <2>1 DEF SaveStatus, LinesAre, TypeOK, Goto
  <2>3. Earned(o, target[p])
    <3>1. CASE p \in Receipts
      BY <1>0, <2>1, <2>2, <3>1 DEF StatusEarned
    <3>2. CASE p \notin Receipts
      BY <1>0, <2>1, <2>2, <3>2 DEF Targets, Earned
    <3>3. QED
      BY <3>1, <3>2
  <2>4. \A g \in Receipts : PurchaseOf[g] = o => stage'[g] # "save"
    BY <1>0, <2>2
  <2>5. QED
    BY <1>1, <2>2, <2>3, <2>4
<1>10. CASE Crash(p)
  <2>1. LinesAre(o) /\ status' = status /\ target' = target /\ stage'[p] = "done"
    BY <1>0, <1>10 DEF Crash, LinesAre, tables, Goto, Own
  <2>2. QED
    BY <1>0, <1>1, <2>1
<1>11. QED
  BY <1>3, <1>4, <1>5, <1>6, <1>7, <1>8, <1>9, <1>10 DEF Act

(***************************************************************************)
(* The books of an order.                                                  *)
(***************************************************************************)
LEMMA OneBooksPart ==
  ASSUME NEW o \in Purchases, NEW p, Own(o, p), Act(p)
  PROVE  OneBooks(o)'
<1> USE OwnFacts
<1>0. /\ TypeInv /\ OneBooks(o) /\ Local(p) /\ stage \in [Processes -> Stages]
      /\ Receipts \subseteq Calls
  BY DEF Own, GlobalInv, TypeInv, OrderInv, Calls, TypeOK, Stages
<1>1. CASE p \in Receipts /\ stage'[p] \in {"line", "stock"}
  <2>1. p \notin Purchases \cup Updates \cup Approvals \cup Cancels
    BY <1>1, ConstantsAssumption DEF Calls
  <2>2. CASE BookItem(p)
    <3>1. Changed(p)
      BY <1>0, <1>1, <2>2, BookEffect
    <3>2. \A g \in Receipts : PurchaseOf[g] = o /\ g # p => stage'[g] \in {"idle", "done"}
      BY <1>0, <3>1
    <3>3. QED
      BY <3>2 DEF OneBooks
  <2>3. CASE SaveLine(p)
    <3>1. stage[p] = "line"
      BY <2>3 DEF SaveLine
    <3>2. QED
      BY <1>0, <1>1, <3>1 DEF OneBooks
  <2>4. CASE ~BookItem(p) /\ ~SaveLine(p)
    BY <1>0, <1>1, <2>1, <2>4
       DEF Act, Deliver, AddStock, ReadStatus, SaveStatus, Crash, Goto
  <2>5. QED
    BY <2>2, <2>3, <2>4
<1>2. CASE ~(p \in Receipts /\ stage'[p] \in {"line", "stock"})
  BY <1>0, <1>2 DEF OneBooks
<1>3. QED
  BY <1>1, <1>2

(* The books of a draft are empty.                                         *)
Empty(o) ==
  /\ DraftIsUntouched(o) /\ status[o] \in {"NONE", "DRAFT"}
  /\ \A g \in Receipts : PurchaseOf[g] = o => stage[g] \notin {"line", "stock"}

LEMMA DraftBooks ==
  ASSUME TypeOK, NEW o \in Purchases, Empty(o)
  PROVE  Books(o)
<1> USE DEF Empty
<1> SUFFICES ASSUME NEW v \in Variants PROVE BooksOf(o, v)
  BY DEF Books
<1>1. Recorded(o, v) = 0
  <2> DEFINE r == [l \in LineIds |-> line[l].received]
  <2>1. \A l \in LinesFor(o, v) : r[l] = 0
    BY DEF LinesFor, LinesOf, DraftIsUntouched
  <2> HIDE DEF r
  <2>2. Total(LinesFor(o, v), r) = 0
    BY <2>1, TotalZero
  <2>3. QED
    BY <2>2 DEF Recorded, r
<1>2. \A i \in GoodsFor(o, v) : item[i] = 0 /\ added[i] = 0
  BY DEF GoodsFor, DraftIsUntouched
<1>3. Delivered(o, v) = 0 /\ Stocked(o, v) = 0
  BY <1>2, TotalZero DEF Delivered, Stocked
<1>4. Wanted(o, v) \in Nat
  BY LineSums
<1>5. Between(o, v, "line") = {} /\ Between(o, v, "stock") = {}
  BY DEF Between
<1>6. QED
  BY <1>1, <1>2, <1>3, <1>4, <1>5 DEF BooksOf

LEMMA DraftBooksAll == \A o \in Purchases : TypeOK /\ Empty(o) => Books(o)
  BY DraftBooks

LEMMA DraftBooksNext == (\A o \in Purchases : TypeOK /\ Empty(o) => Books(o))'
  BY DraftBooksAll, PTL

LEMMA BookItemBooks ==
  ASSUME NEW o \in Purchases, NEW p \in Receipts, Own(o, p), Act(p), BookItem(p), stage'[p] # "done"
  PROVE  Books(o)'
<1> USE OwnFacts
<1>0. /\ TypeInv /\ TypeOK /\ TypeOK' /\ BooksOnce /\ LineWithinOrder /\ Books(o) /\ CopyIsCurrent(o)
      /\ Local(p) /\ Receipts \subseteq Calls /\ PurchaseOf[p] = o
  BY DEF Own, GlobalInv, TypeInv, OrderInv, Calls
<1>1. PICK i \in rest[p], k \in LineIds :
        /\ VariantOf[k] = VariantOf[i] /\ OrderOf(k) = o /\ copy[p][k].ordered > 0
        /\ Fits(p, i, k)
        /\ item' = [item EXCEPT ![i] = UnitsOf[i]]
        /\ at'[p] = <<i, k>> /\ stage'[p] = "line" /\ stage[p] = "item"
        /\ Changed(p) /\ UNCHANGED <<status, line, added>>
  BY <1>0, BookEffect
<1> DEFINE v0 == VariantOf[i]
           n == UnitsOf[i]
<1>i. i \in Goods /\ CallOf[i] = p /\ OrderOf(i) = o
  BY <1>0, <1>1, ItemFacts DEF BooksOnce
<1>2. v0 \in Variants /\ n \in Nat /\ i \in GoodsFor(o, v0)
  BY <1>i, ItemFacts DEF GoodsFor
<1>a. at'[p] \in Goods \X LineIds /\ at'[p][1] = i
  BY <1>1, <1>i
<1>3. \A g \in Receipts : PurchaseOf[g] = o /\ g # p => stage[g] \in {"idle", "done"} /\ stage'[g] = stage[g]
  BY <1>0, <1>1
<1>4. \A v \in Variants : Between(o, v, "line") = {} /\ Between(o, v, "stock") = {}
                          /\ Between(o, v, "stock")' = {}
                          /\ Between(o, v, "line")' = IF v = v0 THEN {p} ELSE {}
  BY <1>0, <1>1, <1>3, <1>a DEF Between
<1>5. Unbroken(o)' <=> Unbroken(o)
  BY <1>1 DEF Changed, Unbroken
<1>6. copy[p][k] = line[k]
  BY <1>0, <1>1 DEF CopyIsCurrent
<1>7. Recorded(o, v0) + n <= Wanted(o, v0)
  <2>1. line[k].received + n <= line[k].ordered /\ line[k].ordered > 0
    BY <1>1, <1>6 DEF Fits, Booked
  <2>2. Recorded(o, VariantOf[k]) + n <= Wanted(o, VariantOf[k])
    BY <1>0, <1>1, <1>2, <2>1, FitsOrder
  <2>3. QED
    BY <1>1, <2>2
<1>8. \A v \in Variants : Recorded(o, v)' = Recorded(o, v) /\ Wanted(o, v)' = Wanted(o, v)
                          /\ Stocked(o, v)' = Stocked(o, v)
  <2>1. LinesAre(o)
    BY <1>1 DEF LinesAre
  <2>2. QED
    BY <1>1, <2>1, LinesStay, StockedStays
<1>9. Delivered(o, v0)' = Delivered(o, v0) + n
  <2>1. item[i] = 0
    BY <1>0, <1>1 DEF BooksOnce, Running
  <2>2. item'[i] = item[i] + n /\ \A j \in Goods : j # i => item'[j] = item[j]
    BY <1>0, <1>1, <1>2, <1>i, <2>1 DEF TypeOK
  <2>3. QED
    BY <1>0, <1>2, <2>2, DeliveredGrows
<1>10. \A v \in Variants : v # v0 => Delivered(o, v)' = Delivered(o, v)
  <2>1. \A v \in Variants : v # v0 => \A j \in GoodsFor(o, v) : item'[j] = item[j]
    BY <1>0, <1>1 DEF TypeOK, GoodsFor
  <2>2. QED
    BY <2>1, DeliveredStays
<1>11. \A v \in Variants : /\ Recorded(o, v) \in Nat /\ Wanted(o, v) \in Nat
                           /\ Stocked(o, v) \in Nat /\ Delivered(o, v) \in Nat
  BY <1>0, LineSums, GoodsSums
<1> HIDE DEF n, v0
<1>12. SUFFICES ASSUME NEW v \in Variants PROVE BooksOf(o, v)'
  BY DEF Books
<1>13. BooksOf(o, v)
  BY <1>0 DEF Books
<1>14. CASE v = v0
  <2>1. Stocked(o, v)' <= Recorded(o, v)' /\ Recorded(o, v)' <= Delivered(o, v)'
    BY <1>2, <1>8, <1>9, <1>11, <1>13, <1>14 DEF BooksOf
  <2>2. Recorded(o, v)' + n <= Delivered(o, v)'
    BY <1>2, <1>8, <1>9, <1>11, <1>13, <1>14 DEF BooksOf
  <2>3. Unbroken(o)' => Delivered(o, v)' = Recorded(o, v)' + n /\ Delivered(o, v)' <= Wanted(o, v)'
    BY <1>2, <1>4, <1>5, <1>7, <1>8, <1>9, <1>11, <1>13, <1>14 DEF BooksOf
  <2>4. Between(o, v, "line")' = {p} /\ Between(o, v, "stock")' = {} /\ Under(p)' = n
    BY <1>4, <1>14, <1>a DEF v0, n, Under
  <2>5. QED
    BY <2>1, <2>2, <2>3, <2>4 DEF BooksOf
<1>15. CASE v # v0
  BY <1>4, <1>5, <1>8, <1>10, <1>13, <1>15 DEF BooksOf
<1>16. QED
  BY <1>14, <1>15

LEMMA SaveLineBooks ==
  ASSUME NEW o \in Purchases, NEW p \in Receipts, Own(o, p), Act(p), SaveLine(p)
  PROVE  Books(o)'
<1> USE OwnFacts
<1>0. /\ TypeInv /\ TypeOK /\ TypeOK' /\ BooksOnce /\ Books(o) /\ CopyIsCurrent(o)
      /\ Local(p) /\ Receipts \subseteq Calls /\ PurchaseOf[p] = o /\ stage[p] = "line"
  BY DEF Own, GlobalInv, TypeInv, OrderInv, Calls, SaveLine
<1>k. PICK k : k = at[p][2]
  OBVIOUS
<1> DEFINE v0 == VariantOf[k]
           n == Under(p)
<1>1. /\ k \in LineIds /\ OrderOf(k) = o /\ v0 \in Variants /\ n \in Nat
      /\ at[p] \in Goods \X LineIds /\ VariantOf[at[p][1]] = v0
      /\ at' = at /\ stage'[p] = "stock" /\ Changed(p)
      /\ UNCHANGED <<status, item, added, copy>>
      /\ line' = [line EXCEPT ![k] = copy[p][k]]
      /\ line[k].ordered > 0 /\ line'[k].ordered = line[k].ordered
      /\ line'[k].received = line[k].received + n
  BY <1>0, <1>k, SaveEffect
<1>2. \A g \in Receipts : PurchaseOf[g] = o /\ g # p => stage[g] \in {"idle", "done"} /\ stage'[g] = stage[g]
  BY <1>0, <1>1
<1>3. \A v \in Variants : /\ Between(o, v, "stock") = {} /\ Between(o, v, "line")' = {}
                          /\ Between(o, v, "line") = IF v = v0 THEN {p} ELSE {}
                          /\ Between(o, v, "stock")' = IF v = v0 THEN {p} ELSE {}
  BY <1>0, <1>1, <1>2, <1>k DEF Between
<1>4. Unbroken(o)' <=> Unbroken(o)
  BY <1>1 DEF Changed, Unbroken
<1>5. /\ Recorded(o, v0)' = Recorded(o, v0) + n
      /\ \A v \in Variants : v # v0 => Recorded(o, v)' = Recorded(o, v)
      /\ \A v \in Variants : Wanted(o, v)' = Wanted(o, v)
  <2>1. \A l \in LineIds : l # k => line'[l] = line[l]
    BY <1>0, <1>1 DEF TypeOK
  <2>2. QED
    BY <1>0, <1>1, <2>1, RecordedGrows
<1>6. \A v \in Variants : Stocked(o, v)' = Stocked(o, v) /\ Delivered(o, v)' = Delivered(o, v)
  BY <1>1, GoodsStay DEF GoodsAre
<1>7. \A v \in Variants : /\ Recorded(o, v) \in Nat /\ Wanted(o, v) \in Nat
                          /\ Stocked(o, v) \in Nat /\ Delivered(o, v) \in Nat
  BY <1>0, LineSums, GoodsSums
<1>8. v0 \in Variants /\ n \in Nat /\ n = Under(p) /\ Under(p)' = n
  BY <1>1 DEF Under
<1> HIDE DEF n, v0
<1>9. SUFFICES ASSUME NEW v \in Variants PROVE BooksOf(o, v)'
  BY DEF Books
<1>10. BooksOf(o, v)
  BY <1>0 DEF Books
<1>11. CASE v = v0
  <2>1. Recorded(o, v) + n <= Delivered(o, v) /\ Stocked(o, v) <= Recorded(o, v)
    BY <1>3, <1>8, <1>10, <1>11 DEF BooksOf
  <2>2. Unbroken(o) => Delivered(o, v) = Recorded(o, v) + n /\ Delivered(o, v) <= Wanted(o, v)
    BY <1>3, <1>8, <1>10, <1>11 DEF BooksOf
  <2>3. Recorded(o, v)' = Recorded(o, v) + n
    BY <1>5, <1>11
  <2>4. /\ Stocked(o, v)' <= Recorded(o, v)' /\ Recorded(o, v)' <= Delivered(o, v)'
        /\ Stocked(o, v)' + n <= Recorded(o, v)'
        /\ Unbroken(o)' => Delivered(o, v)' = Recorded(o, v)' /\ Delivered(o, v)' <= Wanted(o, v)'
    BY <1>4, <1>5, <1>6, <1>7, <1>8, <2>1, <2>2, <2>3
  <2>5. Between(o, v, "line")' = {} /\ Between(o, v, "stock")' = {p}
    BY <1>3, <1>11
  <2>6. QED
    BY <1>8, <1>11, <2>4, <2>5 DEF BooksOf
<1>12. CASE v # v0
  BY <1>3, <1>4, <1>5, <1>6, <1>10, <1>12 DEF BooksOf
<1>13. QED
  BY <1>11, <1>12

LEMMA AddStockBooks ==
  ASSUME NEW o \in Purchases, NEW p \in Receipts, Own(o, p), Act(p), AddStock(p)
  PROVE  Books(o)'
<1> USE OwnFacts
<1>0. /\ TypeOK /\ TypeOK' /\ BooksOnce /\ Books(o) /\ OneBooks(o)
      /\ Local(p) /\ Receipts \subseteq Calls /\ PurchaseOf[p] = o /\ stage[p] = "stock"
      /\ at[p] \in Goods \X LineIds /\ CallOf[at[p][1]] = p
  BY DEF Own, GlobalInv, TypeInv, OrderInv, Calls, AddStock, BooksOnce
<1>k. PICK i : i = at[p][1]
  OBVIOUS
<1> DEFINE v0 == VariantOf[i]
           n == UnitsOf[i]
<1>1. i \in GoodsFor(o, v0) /\ i \in Goods /\ v0 \in Variants /\ n \in Nat /\ n = Under(p)
  BY <1>0, <1>k, ItemFacts DEF Under, GoodsFor
<1>2. /\ stage'[p] \in {"status", "item"} /\ UNCHANGED <<status, line, item, at, raced, broken>>
      /\ added' = IF v0 \in Tracked THEN [added EXCEPT ![i] = n] ELSE added
  BY <1>0, <1>k DEF AddStock, history, Goto, TypeOK
<1>3. \A g \in Receipts : PurchaseOf[g] = o /\ g # p =>
        stage[g] \notin {"line", "stock"} /\ stage'[g] = stage[g]
  BY <1>0 DEF OneBooks
<1>4. \A v \in Variants : /\ Between(o, v, "line") = {} /\ Between(o, v, "line")' = {}
                          /\ Between(o, v, "stock") = IF v = v0 THEN {p} ELSE {}
                          /\ Between(o, v, "stock")' = {}
  BY <1>0, <1>2, <1>3, <1>k DEF Between
<1>5. Unbroken(o)' <=> Unbroken(o)
  BY <1>2 DEF Unbroken
<1>6. \A v \in Variants : /\ Recorded(o, v)' = Recorded(o, v) /\ Wanted(o, v)' = Wanted(o, v)
                          /\ Delivered(o, v)' = Delivered(o, v)
  <2>1. LinesAre(o)
    BY <1>2 DEF LinesAre
  <2>2. QED
    BY <1>2, <2>1, LinesStay, DeliveredStays
<1>7. Stocked(o, v0)' = Stocked(o, v0) \/ Stocked(o, v0)' = Stocked(o, v0) + n
  <2>1. CASE added' = added
    BY <1>1, <2>1, StockedStays
  <2>2. CASE added' = [added EXCEPT ![i] = n]
    <3>1. added[i] = 0
      BY <1>0, <1>k DEF BooksOnce
    <3>2. added'[i] = added[i] + n /\ \A j \in Goods : j # i => added'[j] = added[j]
      BY <1>0, <1>1, <2>2, <3>1 DEF TypeOK
    <3>3. QED
      BY <1>0, <1>1, <3>2, StockedGrows
  <2>3. QED
    BY <1>2, <2>1, <2>2
<1>8. \A v \in Variants : v # v0 => Stocked(o, v)' = Stocked(o, v)
  <2>1. \A v \in Variants : v # v0 => \A j \in GoodsFor(o, v) : added'[j] = added[j]
    BY <1>0, <1>2 DEF TypeOK, GoodsFor
  <2>2. QED
    BY <2>1, StockedStays
<1>9. \A v \in Variants : /\ Recorded(o, v) \in Nat /\ Wanted(o, v) \in Nat
                          /\ Stocked(o, v) \in Nat /\ Delivered(o, v) \in Nat
  BY <1>0, LineSums, GoodsSums
<1> HIDE DEF n, v0
<1>10. SUFFICES ASSUME NEW v \in Variants PROVE BooksOf(o, v)'
  BY DEF Books
<1>11. BooksOf(o, v)
  BY <1>0 DEF Books
<1>12. CASE v = v0
  <2>1. Stocked(o, v) + n <= Recorded(o, v)
    BY <1>1, <1>4, <1>11, <1>12 DEF BooksOf
  <2>2. Stocked(o, v)' <= Recorded(o, v)'
    BY <1>1, <1>6, <1>7, <1>9, <1>12, <2>1
  <2>3. QED
    BY <1>4, <1>5, <1>6, <1>11, <1>12, <2>2 DEF BooksOf
<1>13. CASE v # v0
  BY <1>4, <1>5, <1>6, <1>8, <1>11, <1>13 DEF BooksOf
<1>14. QED
  BY <1>12, <1>13

(* A delivery that breaks off between its item and the line leaves the     *)
(* order broken; elsewhere it leaves the books as they are.                *)
LEMMA CrashBooks ==
  ASSUME NEW o \in Purchases, NEW p, Own(o, p), Act(p), Crash(p), stage[p] \in {"line", "stock"}
  PROVE  Books(o)'
<1> USE OwnFacts
<1>0. /\ TypeInv /\ TypeOK /\ Books(o) /\ OneBooks(o) /\ Receipts \subseteq Calls /\ p \in Processes
  BY DEF Own, GlobalInv, TypeInv, OrderInv, Calls
<1>1. p \in Receipts /\ PurchaseOf[p] = o
  <2>1. p \in Receipts
    BY <1>0 DEF TypeInv, Roles
  <2>2. QED
    BY <1>0, <2>1
<1>2. /\ stage'[p] = "done" /\ UNCHANGED <<status, line, item, added, at>>
      /\ broken' = IF stage[p] = "line" THEN broken \cup {p} ELSE broken
  BY <1>0 DEF Crash, tables, Goto, TypeOK
<1>3. \A g \in Receipts : PurchaseOf[g] = o /\ g # p =>
        stage[g] \notin {"line", "stock"} /\ stage'[g] = stage[g]
  BY <1>0, <1>1 DEF OneBooks
<1>4. \A v \in Variants : Between(o, v, "line")' = {} /\ Between(o, v, "stock")' = {}
  BY <1>0, <1>2, <1>3 DEF Between
<1>5. \A v \in Variants : /\ Recorded(o, v)' = Recorded(o, v) /\ Wanted(o, v)' = Wanted(o, v)
                          /\ Delivered(o, v)' = Delivered(o, v) /\ Stocked(o, v)' = Stocked(o, v)
  <2>1. LinesAre(o) /\ GoodsAre(o)
    BY <1>2 DEF LinesAre, GoodsAre
  <2>2. QED
    BY <2>1, LinesStay, GoodsStay
<1>6. SUFFICES ASSUME NEW v \in Variants PROVE BooksOf(o, v)'
  BY DEF Books
<1>7. BooksOf(o, v)
  BY <1>0 DEF Books
<1>8. CASE stage[p] = "line"
  <2>1. ~Unbroken(o)'
    BY <1>1, <1>2, <1>8 DEF Unbroken
  <2>2. QED
    BY <1>4, <1>5, <1>7, <2>1 DEF BooksOf
<1>9. CASE stage[p] = "stock"
  <2>1. Unbroken(o)' <=> Unbroken(o)
    BY <1>2, <1>9 DEF Unbroken
  <2>2. Between(o, v, "line") = {}
    BY <1>3, <1>9 DEF Between
  <2>3. QED
    BY <1>4, <1>5, <1>7, <2>1, <2>2 DEF BooksOf
<1>10. QED
  BY <1>8, <1>9

LEMMA BooksPart ==
  ASSUME NEW o \in Purchases, NEW p, Own(o, p), Act(p)
  PROVE  Books(o)'
<1> USE OwnFacts
<1>0. /\ TypeInv /\ TypeOK /\ TypeOK' /\ Books(o) /\ Local(p) /\ Receipts \subseteq Calls
      /\ stage \in [Processes -> Stages] /\ p \in Processes
      /\ StatusHolds(o) /\ DraftIsUntouched(o)'
  BY DraftPart DEF Own, GlobalInv, TypeInv, OrderInv, Calls, TypeOK, Stages
<1>1. CASE /\ LinesAre(o) /\ GoodsAre(o) /\ broken' = broken
           /\ stage[p] \notin {"line", "stock"} /\ stage'[p] \notin {"line", "stock"}
           /\ p \in Receipts => at'[p] = at[p]
  <2>1. \A g \in Receipts : at'[g] = at[g]
    BY <1>0, <1>1 DEF Local
  <2>2. \A v \in Variants, s \in {"line", "stock"} : Between(o, v, s)' = Between(o, v, s)
    BY <1>0, <1>1, <2>1 DEF Between
  <2>3. Unbroken(o)' <=> Unbroken(o)
    BY <1>1 DEF Unbroken
  <2>4. QED
    BY <1>0, <1>1, <2>1, <2>2, <2>3, BooksStay
<1>2. CASE p \in Writers /\ Changed(p) /\ status'[o] = "DRAFT"
  <2>1. p \notin Receipts
    BY <1>2, ConstantsAssumption DEF Writers, Calls
  <2>2. \A g \in Receipts : PurchaseOf[g] = o => stage'[g] \in {"idle", "done"}
    BY <1>0, <1>2, <2>1
  <2>3. \A g \in Receipts : PurchaseOf[g] = o => stage'[g] \notin {"line", "stock"}
    BY <2>2
  <2>4. Empty(o)'
    BY <1>0, <1>2, <2>3 DEF Empty
  <2>5. QED
    BY <1>0, <2>4, DraftBooksNext
<1>3. CASE p \in Purchases /\ Create(p)
  <2>1. p = o /\ p \in Writers
    BY <1>3 DEF Writers
  <2>2. CASE stage[o] = "idle"
    <3>1. LinesAre(o) /\ GoodsAre(o) /\ broken' = broken /\ stage'[o] = "lines" /\ at' = at
      BY <1>0, <1>3, <2>1, <2>2 DEF Create, LinesAre, GoodsAre, Goto, history
    <3>2. QED
      BY <1>1, <2>1, <2>2, <3>1
  <2>3. CASE stage[o] \in {"lines", "total"}
    <3>1. Changed(o) /\ status'[o] = "DRAFT"
      BY <1>0, <1>3, <2>1, <2>3 DEF Create, InsertLines, StatusHolds, TypeOK
    <3>2. QED
      BY <1>2, <2>1, <3>1
  <2>4. QED
    BY <1>3, <2>1, <2>2, <2>3 DEF Create
<1>4. CASE p \in Updates /\ Update(p)
  <2>1. p \in Writers /\ p \in Calls
    BY <1>4 DEF Writers, Calls
  <2>2. CASE stage[p] = "idle"
    <3>1. LinesAre(o) /\ GoodsAre(o) /\ broken' = broken /\ stage'[p] \in {"delete", "done"} /\ at' = at
      BY <1>0, <1>4, <2>2 DEF Update, InsertLines, LinesAre, GoodsAre, tables, history, Goto
    <3>2. QED
      BY <1>1, <2>2, <3>1
  <2>3. CASE stage[p] \in {"delete", "lines"}
    <3>1. Changed(p) /\ status' = status
      BY <1>4, <2>3 DEF Update, InsertLines
    <3>2. status[o] = "DRAFT"
      BY <1>0, <1>4, <2>1, <2>3, ConstantsAssumption DEF StatusHolds, Running
    <3>3. QED
      BY <1>2, <2>1, <3>1, <3>2
  <2>4. QED
    BY <1>4, <2>2, <2>3 DEF Update
<1>5. CASE p \in Approvals \cup Cancels /\ Decide(p)
  <2>1. /\ LinesAre(o) /\ GoodsAre(o) /\ broken' = broken /\ at' = at
        /\ stage[p] = "idle" /\ stage'[p] \in {"save", "done"}
    BY <1>0, <1>5 DEF Decide, LinesAre, GoodsAre, tables, history, Goto
  <2>2. QED
    BY <1>1, <2>1
<1>6. CASE p \in Receipts /\ Deliver(p)
  <2>1. /\ LinesAre(o) /\ GoodsAre(o) /\ broken' = broken /\ at' = at
        /\ stage[p] = "idle" /\ stage'[p] \in {"item", "done"}
    BY <1>0, <1>6 DEF Deliver, LinesAre, GoodsAre, tables, history, Goto
  <2>2. QED
    BY <1>1, <2>1
<1>7. CASE p \in Receipts /\ BookItem(p)
  <2>1. CASE stage'[p] # "done"
    BY <1>7, <2>1, BookItemBooks
  <2>2. CASE stage'[p] = "done"
    <3>1. stage[p] = "item" /\ UNCHANGED <<line, added>>
      BY <1>7 DEF BookItem
    <3>2. UNCHANGED <<item, at, broken>>
      BY <1>0, <1>7, <2>2 DEF BookItem, Goto, history
    <3>3. LinesAre(o) /\ GoodsAre(o)
      BY <3>1, <3>2 DEF LinesAre, GoodsAre
    <3>4. QED
      BY <1>1, <2>2, <3>1, <3>2, <3>3
  <2>3. QED
    BY <2>1, <2>2
<1>8. CASE p \in Receipts /\ (SaveLine(p) \/ AddStock(p))
  BY <1>8, SaveLineBooks, AddStockBooks
<1>9. CASE p \in Receipts /\ ReadStatus(p)
  <2>1. /\ LinesAre(o) /\ GoodsAre(o) /\ broken' = broken /\ at' = at
        /\ stage[p] = "status" /\ stage'[p] \in {"save", "done"}
    BY <1>0, <1>9 DEF ReadStatus, LinesAre, GoodsAre, tables, history, Goto
  <2>2. QED
    BY <1>1, <2>1
<1>10. CASE p \in Approvals \cup Cancels \cup Receipts /\ SaveStatus(p)
  <2>1. /\ LinesAre(o) /\ GoodsAre(o) /\ broken' = broken /\ at' = at
        /\ stage[p] = "save" /\ stage'[p] = "done"
    BY <1>0, <1>10 DEF SaveStatus, LinesAre, GoodsAre, Changed, Goto
  <2>2. QED
    BY <1>1, <2>1
<1>11. CASE Crash(p)
  <2>1. CASE stage[p] \in {"line", "stock"}
    BY <1>11, <2>1, CrashBooks
  <2>2. CASE stage[p] \notin {"line", "stock"}
    <3>1. LinesAre(o) /\ GoodsAre(o) /\ broken' = broken /\ at' = at /\ stage'[p] = "done"
      BY <1>0, <1>11, <2>2 DEF Crash, LinesAre, GoodsAre, tables, Goto
    <3>2. QED
      BY <1>1, <2>2, <3>1
  <2>3. QED
    BY <2>1, <2>2
<1>12. QED
  BY <1>3, <1>4, <1>5, <1>6, <1>7, <1>8, <1>9, <1>10, <1>11 DEF Act

(***************************************************************************)
(* The invariant of the orders that no call has overtaken another on.      *)
(***************************************************************************)
LEMMA GlobalNext == GlobalInv /\ CancelIsSeen /\ [Next]_vars => GlobalInv' /\ CancelIsSeen'
  BY TypeNext, WithinNext, ReopenNext, BooksOnceNext, TargetsNext DEF GlobalInv, ReopenInv

LEMMA UnracedNext == GlobalInv /\ GlobalInv' /\ UnracedInv /\ [Next]_vars => UnracedInv'
<1> SUFFICES ASSUME GlobalInv, GlobalInv', UnracedInv, [Next]_vars,
                    NEW o \in Purchases, Unraced(o)'
             PROVE  OrderInv(o)'
  BY DEF UnracedInv
<1>1. CASE UNCHANGED vars
  <2>1. Unraced(o)
    BY <1>1 DEF vars, history, Unraced, Of
  <2>2. Same(o)
    BY <1>1 DEF vars, tables, calls, history, Same, LinesAre, GoodsAre, Unbroken
  <2>3. QED
    BY <2>1, <2>2, SameStays DEF UnracedInv
<1>2. CASE Next
  <2>1. PICK p \in Processes : Act(p) /\ Local(p)
    BY <1>2, Acts, Locality DEF GlobalInv
  <2>2. OrderInv(o)
    <3>1. raced \subseteq raced'
      BY <2>1 DEF Local
    <3>2. Unraced(o)
      BY <3>1 DEF Unraced, Of
    <3>3. QED
      BY <3>2 DEF UnracedInv
  <2>3. CASE Of(p) # o
    BY <2>1, <2>2, <2>3, Elsewhere DEF GlobalInv, TypeInv
  <2>4. CASE Of(p) = o
    <3>1. Own(o, p)
      BY <2>1, <2>2, <2>4 DEF Own
    <3>2. QED
      BY <2>1, <3>1, StatusPart, DraftPart, CopyPart, OneBooksPart, BooksPart, EarnedPart
         DEF OrderInv
  <2>5. QED
    BY <2>3, <2>4
<1>3. QED
  BY <1>1, <1>2

LEMMA BooksInit == Init => GlobalInv /\ CancelIsSeen /\ UnracedInv
<1> SUFFICES ASSUME Init PROVE GlobalInv /\ CancelIsSeen /\ UnracedInv
  OBVIOUS
<1>1. \A p \in Processes : stage[p] = "idle"
  BY DEF Init
<1>2. Purchases \subseteq Processes /\ Calls \subseteq Processes /\ Receipts \subseteq Calls
      /\ Updates \subseteq Calls
  BY DEF Processes, Calls
<1>3. TypeInv
  BY TypeInit
<1>4. Unborn /\ CancelIsSeen /\ Targets
  BY <1>1, <1>2 DEF Init, Unborn, CancelIsSeen, Targets
<1>5. LineWithinOrder /\ CopyWithinOrder
  BY DEF Init, LineWithinOrder, CopyWithinOrder, NoLine
<1>6. BooksOnce
  <2>1. \A g \in Receipts : stage[g] = "idle" /\ rest[g] = {}
    BY <1>1, <1>2 DEF Init
  <2>2. \A i \in Goods : item[i] = 0 /\ added[i] = 0
    BY DEF Init
  <2>3. QED
    BY <2>1, <2>2, ItemFacts DEF BooksOnce, Running
<1>7. ASSUME NEW o \in Purchases PROVE OrderInv(o)
  <2>1. \A g \in Receipts : stage[g] = "idle"
    BY <1>1, <1>2
  <2>2. DraftIsUntouched(o) /\ status[o] = "NONE"
    BY DEF Init, DraftIsUntouched, NoLine
  <2>3. Empty(o)
    BY <2>1, <2>2 DEF Empty
  <2>4. Books(o)
    BY <1>3, <2>3, DraftBooks DEF TypeInv
  <2>5. StatusHolds(o)
    BY <1>1, <1>2 DEF StatusHolds, Running
  <2>6. CopyIsCurrent(o) /\ OneBooks(o) /\ StatusEarned(o)
    BY <2>1, <2>2 DEF CopyIsCurrent, OneBooks, StatusEarned, Earned
  <2>7. QED
    BY <2>2, <2>4, <2>5, <2>6 DEF OrderInv
<1>8. QED
  BY <1>3, <1>4, <1>5, <1>6, <1>7 DEF GlobalInv, UnracedInv

LEMMA UnracedAlways == Spec => [](GlobalInv /\ UnracedInv)
  BY BooksInit, GlobalNext, UnracedNext, PTL DEF Spec

(* The books of an order that no call overtook another on agree.           *)
THEOREM BooksAlwaysAgree == Spec => []BooksAgree
<1>1. GlobalInv /\ UnracedInv => BooksAgree
  <2> SUFFICES ASSUME GlobalInv, UnracedInv, NEW o \in Purchases, Unraced(o), NEW v \in Variants
               PROVE  /\ Stocked(o, v) <= Recorded(o, v) /\ Recorded(o, v) <= Delivered(o, v)
                      /\ Delivered(o, v) <= Wanted(o, v) \/ \E g \in broken : PurchaseOf[g] = o
    BY DEF BooksAgree, Stocked, Recorded, Delivered, Wanted
  <2>1. BooksOf(o, v)
    BY DEF UnracedInv, OrderInv, Books
  <2>2. QED
    BY <2>1 DEF BooksOf, Unbroken
<1>2. QED
  BY <1>1, UnracedAlways, PTL

(* The status of an order that no call overtook another on is earned.      *)
THEOREM StatusAlwaysEarned == Spec => []StatusIsEarned
<1>1. GlobalInv /\ UnracedInv => StatusIsEarned
  BY DEF StatusIsEarned, UnracedInv, OrderInv, StatusEarned, Earned
<1>2. QED
  BY <1>1, UnracedAlways, PTL
=============================================================================
