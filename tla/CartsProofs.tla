---------------------------- MODULE CartsProofs -----------------------------
(***************************************************************************)
(* What holds of carts and of the orders taken from them, for every set of *)
(* calls, every stock and every interleaving and crash.                    *)
(***************************************************************************)
EXTENDS Carts, FiniteSetTheorems, FunctionTheorems, TLAPS

(***************************************************************************)
(* Sums of units: the units of a row are counted one by one.               *)
(***************************************************************************)
(* The rows of a finite table hold finitely many cents.                    *)
LEMMA CentsFinite ==
  ASSUME NEW S, IsFiniteSet(S), NEW f, \A k \in S : f[k] \in Nat
  PROVE  IsFiniteSet(Cents(S, f))
<1> DEFINE T == {{k} \X (1 .. f[k]) : k \in S}
           g == [k \in S |-> {k} \X (1 .. f[k])]
<1>1. IsFiniteSet(T)
  <2>1. g \in Surjection(S, T)
    BY DEF Surjection
  <2>2. QED
    BY <2>1, FS_Surjection
<1>2. ASSUME NEW U \in T PROVE IsFiniteSet(U)
  <2>1. PICK k \in S : U = {k} \X (1 .. f[k])
    BY <1>2
  <2>2. IsFiniteSet({k})
    BY FS_Singleton
  <2>3. IsFiniteSet(1 .. f[k])
    BY FS_Interval
  <2>4. QED
    BY <2>1, <2>2, <2>3, FS_Product
<1>3. QED
  BY <1>1, <1>2, FS_UNION DEF Cents

(* A sum is a natural number.                                              *)
LEMMA TotalType ==
  ASSUME NEW S, IsFiniteSet(S), NEW f, \A k \in S : f[k] \in Nat
  PROVE  Total(S, f) \in Nat
BY CentsFinite, FS_CardinalityType DEF Total

(* The sum depends only on the amounts of the rows it adds.                *)
LEMMA TotalAgree ==
  ASSUME NEW S, NEW f, NEW g, \A k \in S : f[k] = g[k]
  PROVE  Total(S, f) = Total(S, g)
<1>1. Cents(S, f) = Cents(S, g)
  BY DEF Cents
<1>2. QED
  BY <1>1 DEF Total

(* Rows without an amount have no sum.                                     *)
LEMMA TotalZero ==
  ASSUME NEW S, NEW f, \A k \in S : f[k] = 0
  PROVE  Total(S, f) = 0
<1>1. Cents(S, f) = {}
  BY DEF Cents
<1>2. QED
  BY <1>1, FS_EmptySet DEF Total
-----------------------------------------------------------------------------
Buyers == Orders \cup Checkouts

(* A call remembers a cart while it works on it.                           *)
Working == {"add", "set", "sum", "write", "clear", "zero", "place", "paid"}

RemembersWhileWorking ==
  \A p \in Processes : copy[p] # Absent <=> stage[p] \in Working

Roles ==
  \A p \in Processes :
    /\ stage[p] \in {"create", "add"} => p \in Adds
    /\ stage[p] = "set" =>
         /\ p \in Edits /\ asked[p] \in Adds \X (Counts \cup {0})
         /\ copy[p].units[asked[p][1]] > 0
    /\ stage[p] \in {"sum", "write"} => p \in Adds \cup Edits
    /\ stage[p] \in {"clear", "zero"} => p \in Edits \cup Buyers
    /\ stage[p] \in {"place", "paid"} => p \in Buyers

(* The carts that calls and lines name exist, and no line is empty.        *)
CartsExist ==
  /\ \A p \in Processes : copy[p] # Absent => copy[p].cart \in Carts
  /\ \A l \in Adds : line[l] # Absent => line[l].cart \in Carts /\ line[l].units > 0

(* A line is in one cart for good, removed and saved again or not: nobody  *)
(* knows it before it is inserted, and those that do agree on its cart.    *)
OneHome ==
  /\ \A l \in Adds : stage[l] \in {"idle", "create", "add"} =>
       /\ line[l] = Absent
       /\ \A p \in Processes : copy[p] # Absent => copy[p].units[l] = 0
  /\ \A p, q \in Processes, l \in Adds :
       /\ copy[p] # Absent /\ copy[p].units[l] > 0
       /\ copy[q] # Absent /\ copy[q].units[l] > 0
       => copy[p].cart = copy[q].cart
  /\ \A p \in Processes, l \in Adds :
       copy[p] # Absent /\ copy[p].units[l] > 0 /\ line[l] # Absent =>
         line[l].cart = copy[p].cart

Shape == RemembersWhileWorking /\ Roles /\ CartsExist /\ OneHome

(***************************************************************************)
(* A step is one of a call.                                                *)
(***************************************************************************)
Act(p) ==
  \/ p \in Adds /\ (FindOrCreate(p) \/ CreateCart(p) \/ SaveAdd(p))
  \/ p \in Edits /\ (FindLine(p) \/ SaveLine(p))
  \/ p \in Buyers /\ (Take(p) \/ Place(p) \/ Commit(p))
  \/ Sum(p) \/ Write(p) \/ Clear(p) \/ Zero(p) \/ Crash(p)

LEMMA Acts == ASSUME Next PROVE \E p \in Processes : Act(p)
BY DEF Next, Act, Processes, Buyers

(* What a call may do to the lines, and to what it remembers.              *)
Writes(p) ==
  \A l \in Adds :
    \/ line'[l] = line[l]
    \/ line'[l] = Absent
    \/ /\ line'[l] \in Line /\ copy[p] # Absent
       /\ line'[l].cart = copy[p].cart /\ line'[l].units > 0
       /\ copy[p].units[l] > 0 \/ (l = p /\ stage[p] = "add")

Remembers(p) ==
  \/ copy'[p] = copy[p]
  \/ copy'[p] = Absent
  \/ /\ copy[p] \in Copy /\ copy'[p] \in Copy
     /\ copy'[p].cart = copy[p].cart /\ copy'[p].units = copy[p].units
     /\ stage[p] = "sum" /\ line' = line
  \/ line' = line /\ \E k \in Carts : copy'[p] = Seen(k)
  \/ /\ line' = line /\ p \in Adds /\ stage[p] = "create"
     /\ p \in Carts'
     /\ copy'[p] = [cart |-> p, total |-> 0, units |-> [l \in Adds |-> 0]]

Local(p) ==
  /\ \A q \in Processes : q # p => stage'[q] = stage[q] /\ copy'[q] = copy[q]
  /\ \A e \in Edits : e # p => asked'[e] = asked[e]
  /\ \A k \in Cart : total[k] # Absent => total'[k] # Absent

LEMMA Sorts ==
  /\ Adds \subseteq Processes /\ Edits \subseteq Processes /\ Buyers \subseteq Processes
  /\ Adds \cap Edits = {} /\ Adds \cap Buyers = {} /\ Edits \cap Buyers = {}
  /\ Absent \notin Nat /\ Absent \notin Line /\ Absent \notin Copy /\ Absent \notin Order
BY ConstantsAssumption DEF Processes, Buyers

(* Sums over the lines of a cart.                                          *)
LEMMA UnitsType ==
  ASSUME TypeOK, NEW k
  PROVE  /\ IsFiniteSet(Lines(k)) /\ Lines(k) \subseteq Adds
         /\ UnitsIn(k) \in Nat
<1> DEFINE f == [l \in Adds |-> IF line[l] = Absent THEN 0 ELSE line[l].units]
<1>1. Lines(k) \subseteq Adds
  BY DEF Lines
<1>2. IsFiniteSet(Lines(k))
  BY <1>1, ConstantsAssumption, FS_Subset
<1>3. \A l \in Lines(k) : f[l] \in Nat
  BY <1>1 DEF TypeOK, Line
<1> HIDE DEF f
<1>4. Total(Lines(k), f) \in Nat
  BY <1>2, <1>3, TotalType
<1>5. QED
  BY <1>1, <1>2, <1>4 DEF UnitsIn, f

LEMMA SeenType ==
  ASSUME TypeOK, NEW k \in Carts
  PROVE  Seen(k) \in Copy
<1>1. k \in Cart /\ total[k] \in Nat
  BY DEF Carts, TypeOK
<1>2. [l \in Adds |-> IF l \in Lines(k) THEN line[l].units ELSE 0] \in [Adds -> Nat]
  BY DEF Lines, TypeOK, Line
<1>3. QED
  BY <1>1, <1>2 DEF Seen, Copy

(***************************************************************************)
(* Type correctness.                                                       *)
(***************************************************************************)
LEMMA TypeInit == Init => TypeOK /\ Shape
<1> SUFFICES ASSUME Init PROVE TypeOK /\ Shape
  OBVIOUS
<1>1. TypeOK
  BY DEF Init, TypeOK, Stages, Processes
<1>2. RemembersWhileWorking /\ Roles
  BY DEF Init, RemembersWhileWorking, Roles, Working
<1>3. CartsExist /\ OneHome
  BY DEF Init, CartsExist, OneHome
<1>4. QED
  BY <1>1, <1>2, <1>3 DEF Shape

LEMMA Ends ==
  ASSUME TypeOK, NEW p \in Processes, End(p)
  PROVE  stage' \in [Processes -> Stages] /\ copy' \in [Processes -> Copy \cup {Absent}]
BY DEF TypeOK, End, Goto, Stages

LEMMA TypeNext == TypeOK /\ Shape /\ [Next]_vars => TypeOK'
<1> SUFFICES ASSUME TypeOK, Shape, [Next]_vars
             PROVE  TypeOK'
  OBVIOUS
<1>1. CASE UNCHANGED vars
  BY <1>1 DEF vars, tables, calls, history, TypeOK
<1>2. ASSUME NEW p \in Processes, Act(p) PROVE TypeOK'
  <2> USE Sorts
  <2>0. /\ stage[p] \in Working => copy[p] \in Copy /\ copy[p].cart \in Cart
                                   /\ copy[p].total \in Nat /\ copy[p].units \in [Adds -> Nat]
        /\ stage \in [Processes -> Stages]
    BY DEF Shape, RemembersWhileWorking, TypeOK, Copy
  <2>1. CASE p \in Adds /\ FindOrCreate(p)
    <3>1. copy' \in [Processes -> Copy \cup {Absent}]
      BY <2>1, SeenType DEF FindOrCreate, Find, TypeOK
    <3>2. stage' \in [Processes -> Stages]
      BY <2>0, <2>1 DEF FindOrCreate, Goto, Stages
    <3>3. QED
      BY <2>1, <3>1, <3>2 DEF FindOrCreate, TypeOK, tables, history
  <2>2. CASE p \in Adds /\ CreateCart(p)
    <3>1. [cart |-> p, total |-> 0, units |-> [l \in Adds |-> 0]] \in Copy
      BY <2>2 DEF Copy, Cart
    <3>2. copy' \in [Processes -> Copy \cup {Absent}]
      BY <2>2, <3>1 DEF CreateCart, TypeOK
    <3>3. stage' \in [Processes -> Stages]
      BY <2>0, <2>2 DEF CreateCart, Goto, Stages
    <3>4. total' \in [Cart -> Nat \cup {Absent}] /\ raced' \subseteq Processes
      BY <2>2 DEF CreateCart, TypeOK
    <3>5. QED
      BY <2>2, <3>2, <3>3, <3>4 DEF CreateCart, TypeOK
  <2>3. CASE p \in Adds /\ SaveAdd(p)
    <3>1. stage[p] \in Working
      BY <2>3 DEF SaveAdd, Working
    <3>2. PICK l \in IF Same(p) = {} THEN {p} ELSE Same(p) :
            line' = [line EXCEPT ![l] = [cart |-> copy[p].cart, units |-> copy[p].units[l] + 1]]
      BY <2>3 DEF SaveAdd
    <3>3. l \in Adds
      BY <2>3 DEF Same
    <3>4. [cart |-> copy[p].cart, units |-> copy[p].units[l] + 1] \in Line
      BY <2>0, <3>1, <3>3 DEF Line
    <3>5. line' \in [Adds -> Line \cup {Absent}]
      BY <3>2, <3>4 DEF TypeOK
    <3>6. stage' \in [Processes -> Stages] /\ raced' \subseteq Processes
      BY <2>0, <2>3 DEF SaveAdd, Goto, Stages, Changed, TypeOK
    <3>7. QED
      BY <2>3, <3>5, <3>6 DEF SaveAdd, TypeOK
  <2>4. CASE p \in Edits /\ FindLine(p)
    <3>1. copy' \in [Processes -> Copy \cup {Absent}]
      BY <2>4, SeenType DEF FindLine, Find, TypeOK
    <3>2. stage' \in [Processes -> Stages]
      BY <2>0, <2>4 DEF FindLine, Goto, Stages
    <3>3. asked' \in [Edits -> (Adds \X (Counts \cup {0})) \cup {Absent}]
      <4>1. asked' = asked \/ \E l \in Adds, n \in Counts \cup {0} : asked' = [asked EXCEPT ![p] = <<l, n>>]
        BY <2>4 DEF FindLine, Lines
      <4>2. QED
        BY <4>1 DEF TypeOK
    <3>4. QED
      BY <2>4, <3>1, <3>2, <3>3 DEF FindLine, TypeOK, tables, history
  <2>5. CASE p \in Edits /\ SaveLine(p)
    <3>1. stage[p] \in Working
      BY <2>5 DEF SaveLine, Working
    <3>2. asked[p][2] \in Nat
      <4>1. stage[p] = "set"
        BY <2>5 DEF SaveLine
      <4>2. asked[p] \in Adds \X (Counts \cup {0})
        BY <4>1 DEF Shape, Roles
      <4>3. Counts \cup {0} \subseteq Nat
        BY ConstantsAssumption
      <4>4. QED
        BY <4>2, <4>3
    <3>3. [cart |-> copy[p].cart, units |-> asked[p][2]] \in Line
      BY <2>0, <3>1, <3>2 DEF Line
    <3>4. line' \in [Adds -> Line \cup {Absent}]
      BY <2>5, <3>3 DEF SaveLine, TypeOK
    <3>5. stage' \in [Processes -> Stages] /\ raced' \subseteq Processes
      BY <2>0, <2>5 DEF SaveLine, Goto, Stages, Changed, TypeOK
    <3>6. asked' \in [Edits -> (Adds \X (Counts \cup {0})) \cup {Absent}]
      BY <2>5 DEF SaveLine, TypeOK
    <3>7. QED
      BY <2>5, <3>4, <3>5, <3>6 DEF SaveLine, TypeOK
  <2>6. CASE p \in Buyers /\ Take(p)
    <3>1. copy' \in [Processes -> Copy \cup {Absent}]
      BY <2>6, SeenType DEF Take, Find, TypeOK
    <3>2. stage' \in [Processes -> Stages]
      BY <2>0, <2>6 DEF Take, Goto, Stages
    <3>3. hurried' \subseteq Buyers
      BY <2>6 DEF Take, TypeOK, Buyers
    <3>4. QED
      BY <2>6, <3>1, <3>2, <3>3 DEF Take, TypeOK, tables, Buyers
  <2>7. CASE p \in Buyers /\ Place(p)
    <3>1. Ordered(p) \in Order
      BY <2>0, <2>7 DEF Place, Working, Ordered, Order
    <3>2. order' \in [Buyers -> Order \cup {Absent}]
      BY <2>7, <3>1 DEF Place, TypeOK, Buyers
    <3>3. stage' \in [Processes -> Stages]
      BY <2>0, <2>7 DEF Place, Goto, Stages
    <3>4. QED
      BY <2>7, <3>2, <3>3 DEF Place, TypeOK, Buyers, history
  <2>8. CASE p \in Buyers /\ Commit(p)
    <3>1. Ordered(p) \in Order
      BY <2>0, <2>8 DEF Commit, Working, Ordered, Order
    <3>2. order' \in [Buyers -> Order \cup {Absent}]
      BY <2>8, <3>1 DEF Commit, TypeOK, Buyers
    <3>3. line' \in [Adds -> Line \cup {Absent}] /\ total' \in [Cart -> Nat \cup {Absent}]
          /\ drifted' \subseteq Cart /\ raced' \subseteq Processes
      BY <2>8 DEF Commit, TypeOK, Changed
    <3>4. stage' \in [Processes -> Stages] /\ copy' \in [Processes -> Copy \cup {Absent}]
      BY <2>8, Ends DEF Commit
    <3>5. QED
      BY <2>8, <3>2, <3>3, <3>4 DEF Commit, TypeOK, Buyers
  <2>9. CASE Sum(p)
    <3>1. UnitsIn(copy[p].cart) \in Nat
      BY UnitsType
    <3>2. [copy[p] EXCEPT !.total = UnitsIn(copy[p].cart)] \in Copy
      BY <2>0, <2>9, <3>1 DEF Sum, Working, Copy
    <3>3. copy' \in [Processes -> Copy \cup {Absent}]
      BY <2>9, <3>2 DEF Sum, TypeOK
    <3>4. stage' \in [Processes -> Stages] /\ raced' \subseteq Processes
      BY <2>0, <2>9 DEF Sum, Goto, Stages, TypeOK
    <3>5. QED
      BY <2>9, <3>3, <3>4 DEF Sum, TypeOK, tables
  <2>10. CASE Write(p)
    <3>1. total' \in [Cart -> Nat \cup {Absent}] /\ drifted' \subseteq Cart /\ raced' \subseteq Processes
      BY <2>0, <2>10 DEF Write, TypeOK, Working
    <3>2. stage' \in [Processes -> Stages] /\ copy' \in [Processes -> Copy \cup {Absent}]
      BY <2>10, Ends DEF Write
    <3>3. QED
      BY <2>10, <3>1, <3>2 DEF Write, TypeOK
  <2>11. CASE Clear(p)
    <3>1. line' \in [Adds -> Line \cup {Absent}] /\ raced' \subseteq Processes
      BY <2>11 DEF Clear, Changed, TypeOK
    <3>2. stage' \in [Processes -> Stages]
      BY <2>0, <2>11 DEF Clear, Goto, Stages
    <3>3. QED
      BY <2>11, <3>1, <3>2 DEF Clear, TypeOK
  <2>12. CASE Zero(p)
    <3>1. \A l \in Adds : [cart |-> copy[p].cart, units |-> copy[p].units[l]] \in Line
      BY <2>0, <2>12 DEF Zero, Working, Line
    <3>2. line' \in [Adds -> Line \cup {Absent}]
      BY <2>12, <3>1 DEF Zero, TypeOK
    <3>3. total' \in [Cart -> Nat \cup {Absent}] /\ drifted' \subseteq Cart /\ raced' \subseteq Processes
      BY <2>0, <2>12 DEF Zero, Changed, TypeOK, Working
    <3>4. stage' \in [Processes -> Stages] /\ copy' \in [Processes -> Copy \cup {Absent}]
      BY <2>12, Ends DEF Zero
    <3>5. QED
      BY <2>12, <3>2, <3>3, <3>4 DEF Zero, TypeOK
  <2>13. CASE Crash(p)
    <3>1. asked' \in [Edits -> (Adds \X (Counts \cup {0})) \cup {Absent}]
      BY <2>13 DEF Crash, TypeOK
    <3>2. drifted' \subseteq Cart /\ raced' \subseteq Processes
      BY <2>0, <2>13 DEF Crash, TypeOK, Working
    <3>3. stage' \in [Processes -> Stages] /\ copy' \in [Processes -> Copy \cup {Absent}]
      BY <2>13, Ends DEF Crash
    <3>4. QED
      BY <2>13, <3>1, <3>2, <3>3 DEF Crash, TypeOK, tables
  <2>14. QED
    BY <1>2, <2>1, <2>2, <2>3, <2>4, <2>5, <2>6, <2>7, <2>8, <2>9, <2>10, <2>11, <2>12, <2>13
       DEF Act
<1>3. QED
  BY <1>1, <1>2, Acts

(***************************************************************************)
(* Every call keeps to itself.                                             *)
(***************************************************************************)
LEMMA WorkingCopy ==
  ASSUME TypeOK, Shape, NEW p \in Processes, stage[p] \in Working
  PROVE  /\ copy[p] \in Copy /\ copy[p] # Absent /\ copy[p].cart \in Cart /\ copy[p].cart \in Carts
         /\ copy[p].total \in Nat /\ copy[p].units \in [Adds -> Nat]
BY DEF TypeOK, Shape, RemembersWhileWorking, CartsExist, Copy

LEMMA Locality ==
  ASSUME TypeOK, Shape, NEW p \in Processes, Act(p)
  PROVE  Local(p)
<1> USE Sorts DEF TypeOK, Goto
<1>1. \A q \in Processes : q # p => stage'[q] = stage[q] /\ copy'[q] = copy[q]
  BY DEF Act, FindOrCreate, CreateCart, SaveAdd, FindLine, SaveLine, Take, Place, Commit, Sum,
     Write, Clear, Zero, Crash, End, Find
<1>2. \A e \in Edits : e # p => asked'[e] = asked[e]
  BY DEF Act, FindOrCreate, CreateCart, SaveAdd, FindLine, SaveLine, Take, Place, Commit, Sum,
     Write, Clear, Zero, Crash, tables, history
<1>3. \A k \in Cart : total[k] # Absent => total'[k] # Absent
  <2>1. CASE total' = total
    BY <2>1
  <2>2. CASE p \in Adds /\ CreateCart(p)
    BY <2>2 DEF CreateCart
  <2>3. CASE Write(p)
    <3>1. copy[p].total \in Nat
      BY <2>3, WorkingCopy DEF Write, Working
    <3>2. QED
      BY <2>3, <3>1 DEF Write
  <2>4. CASE Zero(p)
    BY <2>4 DEF Zero
  <2>5. CASE Commit(p)
    BY <2>5 DEF Commit
  <2>6. QED
    BY <2>1, <2>2, <2>3, <2>4, <2>5
       DEF Act, FindOrCreate, SaveAdd, FindLine, SaveLine, Take, Place, Sum, Clear, Crash, tables
<1>4. QED
  BY <1>1, <1>2, <1>3 DEF Local

LEMMA WritesOwn ==
  ASSUME TypeOK, Shape, NEW p \in Processes, Act(p)
  PROVE  Writes(p)
<1> USE Sorts
<1>1. CASE line' = line
  BY <1>1 DEF Writes
<1>2. CASE p \in Adds /\ SaveAdd(p)
  <2>1. stage[p] = "add" /\ copy[p] # Absent /\ copy[p].units \in [Adds -> Nat] /\ copy[p].cart \in Cart
    BY <1>2, WorkingCopy DEF SaveAdd, Working
  <2>2. PICK l \in IF Same(p) = {} THEN {p} ELSE Same(p) :
          line' = [line EXCEPT ![l] = [cart |-> copy[p].cart, units |-> copy[p].units[l] + 1]]
    BY <1>2 DEF SaveAdd
  <2>3. l \in Adds /\ (l = p \/ copy[p].units[l] > 0)
    BY <1>2 DEF Same
  <2>4. line'[l] = [cart |-> copy[p].cart, units |-> copy[p].units[l] + 1]
    BY <2>2, <2>3 DEF TypeOK
  <2>5. line'[l] \in Line /\ line'[l].cart = copy[p].cart /\ line'[l].units > 0
    BY <2>1, <2>3, <2>4 DEF Line
  <2>6. \A m \in Adds : m # l => line'[m] = line[m]
    BY <2>2 DEF TypeOK
  <2>7. QED
    BY <2>1, <2>3, <2>5, <2>6 DEF Writes
<1>3. CASE p \in Edits /\ SaveLine(p)
  <2>1. stage[p] = "set" /\ copy[p] # Absent /\ copy[p].cart \in Cart
    BY <1>3, WorkingCopy DEF SaveLine, Working
  <2>2. asked[p] \in Adds \X (Counts \cup {0}) /\ copy[p].units[asked[p][1]] > 0
    BY <2>1 DEF Shape, Roles
  <2>3. PICK l \in Adds, n \in Counts \cup {0} : l = asked[p][1] /\ n = asked[p][2]
    BY <2>2
  <2>4. line' = [line EXCEPT ![l] = IF n = 0 THEN Absent ELSE [cart |-> copy[p].cart, units |-> n]]
    BY <1>3, <2>3 DEF SaveLine
  <2>5. n \in Nat
    BY <2>3, ConstantsAssumption
  <2>6. line'[l] = Absent \/ (/\ line'[l] \in Line /\ line'[l].cart = copy[p].cart
                              /\ line'[l].units > 0)
    BY <2>1, <2>3, <2>4, <2>5 DEF TypeOK, Line
  <2>7. \A m \in Adds : m # l => line'[m] = line[m]
    BY <2>4 DEF TypeOK
  <2>8. QED
    BY <2>1, <2>2, <2>3, <2>6, <2>7 DEF Writes
<1>4. CASE Clear(p) \/ Commit(p)
  BY <1>4 DEF Clear, Commit, Writes
<1>5. CASE Zero(p) /\ line' # line
  <2>1. copy[p] # Absent /\ copy[p].cart \in Cart /\ copy[p].units \in [Adds -> Nat]
    BY <1>5, WorkingCopy DEF Zero, Working
  <2>2. line' = [l \in Adds |-> IF copy[p].units[l] > 0
                                  THEN [cart |-> copy[p].cart, units |-> copy[p].units[l]]
                                  ELSE line[l]]
    BY <1>5 DEF Zero
  <2>3. QED
    BY <2>1, <2>2 DEF Writes, Line
<1>6. QED
  BY <1>1, <1>2, <1>3, <1>4, <1>5
     DEF Act, FindOrCreate, CreateCart, FindLine, Take, Place, Sum, Write, Crash, tables

LEMMA RemembersOwn ==
  ASSUME TypeOK, Shape, NEW p \in Processes, Act(p)
  PROVE  Remembers(p)
<1> USE Sorts DEF Remembers
<1>1. CASE copy' = copy
  BY <1>1
<1>2. CASE End(p)
  BY <1>2 DEF End, TypeOK
<1>3. CASE line' = line /\ \E k \in Carts : Find(p, k)
  BY <1>3 DEF Find, TypeOK
<1>4. CASE p \in Adds /\ CreateCart(p)
  <2>1. p \in Carts'
    BY <1>4 DEF CreateCart, TypeOK, Carts, Cart
  <2>2. QED
    BY <1>4, <2>1 DEF CreateCart, TypeOK
<1>5. CASE Sum(p)
  <2>1. copy[p] \in Copy /\ UnitsIn(copy[p].cart) \in Nat
    BY <1>5, WorkingCopy, UnitsType DEF Sum, Working
  <2>2. copy'[p] = [copy[p] EXCEPT !.total = UnitsIn(copy[p].cart)]
    BY <1>5 DEF Sum, TypeOK
  <2>3. copy'[p] \in Copy /\ copy'[p].cart = copy[p].cart /\ copy'[p].units = copy[p].units
    BY <2>1, <2>2 DEF Copy
  <2>4. QED
    BY <1>5, <2>1, <2>3 DEF Sum, tables
<1>6. QED
  BY <1>1, <1>2, <1>3, <1>4, <1>5
     DEF Act, FindOrCreate, SaveAdd, FindLine, SaveLine, Take, Place, Commit, Write, Clear, Zero,
         Crash, tables

(* What the steps do to the stages and to what an edit asks.               *)
LEMMA RolesNext ==
  ASSUME TypeOK, Shape, NEW p \in Processes, Act(p)
  PROVE  RemembersWhileWorking' /\ Roles'
<1> USE Sorts
<1>1. Local(p)
  BY Locality
<1>2. SUFFICES /\ copy'[p] # Absent <=> stage'[p] \in Working
               /\ stage'[p] \in {"create", "add"} => p \in Adds
               /\ stage'[p] = "set" =>
                    /\ p \in Edits /\ asked'[p] \in Adds \X (Counts \cup {0})
                    /\ copy'[p].units[asked'[p][1]] > 0
               /\ stage'[p] \in {"sum", "write"} => p \in Adds \cup Edits
               /\ stage'[p] \in {"clear", "zero"} => p \in Edits \cup Buyers
               /\ stage'[p] \in {"place", "paid"} => p \in Buyers
  <2>1. ASSUME NEW q \in Processes, q # p
        PROVE  /\ stage'[q] = stage[q] /\ copy'[q] = copy[q]
               /\ q \in Edits => asked'[q] = asked[q]
    BY <1>1, <2>1 DEF Local
  <2>2. QED
    BY <1>2, <2>1 DEF Shape, RemembersWhileWorking, Roles
<1>3. /\ stage \in [Processes -> Stages] /\ copy \in [Processes -> Copy \cup {Absent}]
      /\ copy[p] # Absent <=> stage[p] \in Working
      /\ stage[p] \in {"sum", "write"} => p \in Adds \cup Edits
      /\ stage[p] \in {"clear", "zero"} => p \in Edits \cup Buyers
  BY DEF TypeOK, Shape, RemembersWhileWorking, Roles
<1>4. CASE End(p)
  BY <1>3, <1>4 DEF End, Goto, Working
<1>5. ASSUME NEW k \in Carts, Find(p, k) PROVE copy'[p] = Seen(k) /\ copy'[p] # Absent
  BY <1>3, <1>5, SeenType DEF Find
<1>6. CASE p \in Adds /\ FindOrCreate(p)
  <2>1. CASE Goto(p, "add") /\ \E k \in Carts : Find(p, k)
    BY <1>3, <1>5, <1>6, <2>1 DEF Goto, Working
  <2>2. CASE Goto(p, "create") /\ copy' = copy
    BY <1>3, <1>6, <2>2 DEF FindOrCreate, Goto, Working
  <2>3. QED
    BY <1>6, <2>1, <2>2 DEF FindOrCreate
<1>7. CASE p \in Adds /\ CreateCart(p)
  <2>1. [cart |-> p, total |-> 0, units |-> [l \in Adds |-> 0]] \in Copy
    BY <1>7 DEF Copy, Cart
  <2>2. QED
    BY <1>3, <1>7, <2>1 DEF CreateCart, Goto, Working
<1>8. CASE p \in Adds /\ SaveAdd(p)
  BY <1>3, <1>8 DEF SaveAdd, Goto, Working
<1>9. CASE p \in Edits /\ FindLine(p)
  <2>1. PICK k \in Carts :
          /\ Find(p, k)
          /\ \/ \E l \in Lines(k), n \in Counts \cup {0} :
                  asked' = [asked EXCEPT ![p] = <<l, n>>] /\ Goto(p, "set")
             \/ Goto(p, "clear")
    BY <1>9 DEF FindLine
  <2>2. copy'[p] = Seen(k) /\ copy'[p] # Absent
    BY <1>5, <2>1
  <2>3. CASE Goto(p, "clear")
    BY <1>3, <1>9, <2>2, <2>3 DEF Goto, Working
  <2>4. ASSUME NEW l \in Lines(k), NEW n \in Counts \cup {0},
               asked' = [asked EXCEPT ![p] = <<l, n>>], Goto(p, "set")
        PROVE  /\ stage'[p] = "set" /\ asked'[p] \in Adds \X (Counts \cup {0})
               /\ copy'[p].units[asked'[p][1]] > 0
    <3>1. l \in Adds /\ line[l].units > 0
      BY DEF Lines, Shape, CartsExist
    <3>2. asked'[p] = <<l, n>> /\ stage'[p] = "set"
      BY <1>3, <1>9, <2>4 DEF TypeOK, Goto
    <3>3. copy'[p].units[l] = line[l].units
      BY <2>2, <3>1 DEF Seen
    <3>4. QED
      BY <3>1, <3>2, <3>3
  <2>5. QED
    BY <1>9, <2>1, <2>2, <2>3, <2>4 DEF Working
<1>10. CASE p \in Edits /\ SaveLine(p)
  BY <1>3, <1>10 DEF SaveLine, Goto, Working
<1>11. CASE p \in Buyers /\ Take(p)
  <2>1. \E k \in Carts : Find(p, k)
    BY <1>11 DEF Take
  <2>2. stage'[p] \in {"place", "paid"}
    BY <1>3, <1>11 DEF Take, Goto
  <2>3. QED
    BY <1>5, <1>11, <2>1, <2>2 DEF Working
<1>12. CASE p \in Buyers /\ Place(p)
  BY <1>3, <1>12 DEF Place, Goto, Working
<1>13. CASE Sum(p)
  <2>1. copy'[p] # Absent
    <3>1. copy[p] \in Copy /\ UnitsIn(copy[p].cart) \in Nat
      BY <1>13, WorkingCopy, UnitsType DEF Sum, Working
    <3>2. [copy[p] EXCEPT !.total = UnitsIn(copy[p].cart)] \in Copy
      BY <3>1 DEF Copy
    <3>3. QED
      BY <1>3, <1>13, <3>2 DEF Sum
  <2>2. QED
    BY <1>3, <1>13, <2>1 DEF Sum, Goto, Working
<1>14. CASE Clear(p)
  BY <1>3, <1>14 DEF Clear, Goto, Working
<1>15. QED
  BY <1>4, <1>6, <1>7, <1>8, <1>9, <1>10, <1>11, <1>12, <1>13, <1>14
     DEF Act, Commit, Write, Zero, Crash

LEMMA StartsFresh ==
  ASSUME TypeOK, NEW p \in Processes, Act(p), stage'[p] \in {"idle", "create", "add"}
  PROVE  stage[p] \in {"idle", "create"} /\ line' = line
<1> stage \in [Processes -> Stages]
  BY DEF TypeOK
<1>1. CASE FindOrCreate(p) \/ CreateCart(p)
  BY <1>1 DEF FindOrCreate, CreateCart, tables
<1>2. CASE ~(FindOrCreate(p) \/ CreateCart(p))
  BY <1>2, Sorts DEF Act, SaveAdd, FindLine, SaveLine, Take, Place, Commit, Sum, Write, Clear, Zero,
     Crash, End, Goto
<1>3. QED
  BY <1>1, <1>2

LEMMA HomesNext ==
  ASSUME TypeOK, TypeOK', Shape, NEW p \in Processes, Act(p)
  PROVE  CartsExist' /\ OneHome'
<1> USE Sorts
<1>1. Local(p) /\ Writes(p) /\ Remembers(p)
  BY Locality, WritesOwn, RemembersOwn
<1>2. \A k \in Carts : k \in Carts'
  BY <1>1 DEF Local, Carts
<1>3. \A q \in Processes : copy[q] # Absent => copy[q] \in Copy /\ copy[q].cart \in Carts
                                              /\ copy[q].units \in [Adds -> Nat]
  BY DEF TypeOK, Shape, CartsExist, Copy
<1>4. \A q \in Processes : q # p => copy'[q] = copy[q] /\ stage'[q] = stage[q]
  BY <1>1 DEF Local
<1>5. CartsExist /\ OneHome
  BY DEF Shape
<1>6. CartsExist'
  <2>1. copy'[p] # Absent => copy'[p].cart \in Carts'
    <3>1. CASE copy'[p] = copy[p] \/ copy'[p] = Absent
      BY <1>2, <1>3, <3>1
    <3>2. CASE copy[p] \in Copy /\ copy'[p].cart = copy[p].cart
      BY <1>2, <1>3, <3>2
    <3>3. CASE \E k \in Carts : copy'[p] = Seen(k)
      BY <1>2, <3>3 DEF Seen
    <3>4. CASE p \in Carts' /\ copy'[p] = [cart |-> p, total |-> 0, units |-> [l \in Adds |-> 0]]
      BY <3>4
    <3>5. QED
      BY <1>1, <3>1, <3>2, <3>3, <3>4 DEF Remembers
  <2>2. ASSUME NEW l \in Adds, line'[l] # Absent
        PROVE  line'[l].cart \in Carts' /\ line'[l].units > 0
    <3>1. CASE line'[l] = line[l]
      BY <1>2, <1>5, <2>2, <3>1 DEF CartsExist
    <3>2. CASE line'[l] # line[l]
      BY <1>1, <1>2, <1>3, <2>2, <3>2 DEF Writes
    <3>3. QED
      BY <3>1, <3>2
  <2>3. QED
    BY <1>2, <1>3, <1>4, <2>1, <2>2 DEF CartsExist
<1>7. ASSUME NEW l \in Adds, stage'[l] \in {"idle", "create", "add"}
      PROVE  line'[l] = Absent /\ \A q \in Processes : copy'[q] # Absent => copy'[q].units[l] = 0
  <2>1. stage[l] \in {"idle", "create", "add"} /\ (l = p => line' = line)
    BY <1>4, <1>7, StartsFresh
  <2>2. line[l] = Absent /\ \A q \in Processes : copy[q] # Absent => copy[q].units[l] = 0
    BY <1>5, <2>1 DEF OneHome
  <2>3. line'[l] = Absent
    BY <1>1, <2>1, <2>2 DEF Writes
  <2>4. copy'[p] # Absent => copy'[p].units[l] = 0
    <3>1. CASE copy'[p] = copy[p] \/ copy'[p] = Absent
      BY <2>2, <3>1
    <3>2. CASE copy[p] \in Copy /\ copy'[p].units = copy[p].units
      BY <2>2, <3>2
    <3>3. CASE \E k \in Carts : copy'[p] = Seen(k)
      BY <2>2, <3>3 DEF Seen, Lines
    <3>4. CASE copy'[p] = [cart |-> p, total |-> 0, units |-> [m \in Adds |-> 0]]
      BY <3>4
    <3>5. QED
      BY <1>1, <3>1, <3>2, <3>3, <3>4 DEF Remembers
  <2>5. QED
    BY <1>4, <2>2, <2>3, <2>4
<1>8. ASSUME NEW l \in Adds, copy'[p] # Absent, copy'[p].units[l] > 0
      PROVE  /\ \A q \in Processes : copy[q] # Absent /\ copy[q].units[l] > 0
                                     => copy[q].cart = copy'[p].cart
             /\ line'[l] # Absent => line'[l].cart = copy'[p].cart
  <2>1. CASE /\ copy[p] # Absent /\ copy'[p].cart = copy[p].cart /\ copy'[p].units = copy[p].units
    <3>1. \A q \in Processes : copy[q] # Absent /\ copy[q].units[l] > 0 => copy[q].cart = copy[p].cart
      BY <1>5, <1>8, <2>1 DEF OneHome
    <3>2. line[l] # Absent => line[l].cart = copy[p].cart
      BY <1>5, <1>8, <2>1 DEF OneHome
    <3>3. line'[l] # Absent => line'[l].cart = copy[p].cart
      BY <1>1, <3>2 DEF Writes
    <3>4. QED
      BY <2>1, <3>1, <3>3
  <2>2. CASE line' = line /\ \E k \in Carts : copy'[p] = Seen(k)
    <3>1. PICK k \in Carts : copy'[p] = Seen(k)
      BY <2>2
    <3>2. copy'[p].cart = k /\ copy'[p].units = [m \in Adds |-> IF m \in Lines(k) THEN line[m].units ELSE 0]
      BY <3>1 DEF Seen
    <3>3. line[l] # Absent /\ line[l].cart = k
      BY <1>8, <3>2 DEF Lines
    <3>4. QED
      BY <1>5, <2>2, <3>2, <3>3 DEF OneHome
  <2>3. CASE copy'[p] = [cart |-> p, total |-> 0, units |-> [m \in Adds |-> 0]]
    BY <1>8, <2>3
  <2>4. QED
    BY <1>1, <1>8, <2>1, <2>2, <2>3 DEF Remembers
<1>9. ASSUME NEW q \in Processes, q # p, NEW l \in Adds,
             copy'[q] # Absent, copy'[q].units[l] > 0, line'[l] # Absent
      PROVE  line'[l].cart = copy'[q].cart
  <2>1. copy[q] # Absent /\ copy[q].units[l] > 0 /\ copy'[q].cart = copy[q].cart
    BY <1>4, <1>9
  <2>2. CASE line'[l] = line[l]
    BY <1>5, <1>9, <2>1, <2>2 DEF OneHome
  <2>3. CASE line'[l] # line[l]
    <3>1. /\ copy[p] # Absent /\ line'[l].cart = copy[p].cart
          /\ copy[p].units[l] > 0 \/ (l = p /\ stage[p] = "add")
      BY <1>1, <1>9, <2>3 DEF Writes
    <3>2. CASE copy[p].units[l] > 0
      BY <1>5, <2>1, <3>1, <3>2 DEF OneHome
    <3>3. CASE l = p /\ stage[p] = "add"
      <4>1. copy[q].units[l] = 0
        BY <1>5, <2>1, <3>3 DEF OneHome
      <4>2. QED
        BY <2>1, <4>1
    <3>4. QED
      BY <3>1, <3>2, <3>3
  <2>4. QED
    BY <2>2, <2>3
<1>10. OneHome'
  <2>1. \A l \in Adds : stage'[l] \in {"idle", "create", "add"} =>
          /\ line'[l] = Absent
          /\ \A q \in Processes : copy'[q] # Absent => copy'[q].units[l] = 0
    BY <1>7
  <2>2. ASSUME NEW q \in Processes, NEW r \in Processes, NEW l \in Adds,
               copy'[q] # Absent, copy'[q].units[l] > 0, copy'[r] # Absent, copy'[r].units[l] > 0
        PROVE  copy'[q].cart = copy'[r].cart
    <3>1. CASE q # p /\ r # p
      BY <1>4, <1>5, <2>2, <3>1 DEF OneHome
    <3>2. CASE q = p /\ r # p
      BY <1>4, <1>8, <2>2, <3>2
    <3>3. CASE q # p /\ r = p
      BY <1>4, <1>8, <2>2, <3>3
    <3>4. QED
      BY <3>1, <3>2, <3>3
  <2>3. ASSUME NEW q \in Processes, NEW l \in Adds,
               copy'[q] # Absent, copy'[q].units[l] > 0, line'[l] # Absent
        PROVE  line'[l].cart = copy'[q].cart
    BY <1>8, <1>9, <2>3
  <2>4. QED
    BY <2>1, <2>2, <2>3 DEF OneHome
<1>11. QED
  BY <1>6, <1>10

LEMMA ShapeNext == TypeOK /\ TypeOK' /\ Shape /\ [Next]_vars => Shape'
<1> SUFFICES ASSUME TypeOK, TypeOK', Shape, [Next]_vars
             PROVE  Shape'
  OBVIOUS
<1>1. CASE UNCHANGED vars
  BY <1>1 DEF vars, tables, calls, Shape, RemembersWhileWorking, Roles, CartsExist, OneHome, Carts
<1>2. CASE Next
  BY <1>2, Acts, RolesNext, HomesNext DEF Shape
<1>3. QED
  BY <1>1, <1>2

LEMMA ShapeAlways == Spec => [](TypeOK /\ Shape)
  BY TypeInit, TypeNext, ShapeNext, PTL DEF Spec

(* The variables of the carts keep their types.                            *)
THEOREM TypeCorrect == Spec => []TypeOK
  BY ShapeAlways, PTL

(***************************************************************************)
(* The lines of one cart, and who knows of a change to them.               *)
(***************************************************************************)
OnlyIn(k) ==
  \A l \in Adds : line'[l] # line[l] =>
    /\ line[l] # Absent => line[l].cart = k
    /\ line'[l] # Absent => line'[l].cart = k

Marks(p, k) ==
  \A q \in Processes \ {p} :
    copy[q] # Absent /\ copy[q].cart = k /\ stage[q] \notin {"sum", "done"} => q \in raced'

LEMMA Frame ==
  ASSUME NEW j, Lines(j)' = Lines(j), \A l \in Lines(j) : line'[l] = line[l]
  PROVE  UnitsIn(j)' = UnitsIn(j)
<1> DEFINE f == [l \in Adds |-> IF line[l] = Absent THEN 0 ELSE line[l].units]
           g == [l \in Adds |-> IF line'[l] = Absent THEN 0 ELSE line'[l].units]
<1>1. \A l \in Lines(j) : f[l] = g[l]
  BY DEF Lines
<1> HIDE DEF f, g
<1>2. Total(Lines(j), f) = Total(Lines(j), g)
  BY <1>1, TotalAgree
<1>3. UnitsIn(j) = Total(Lines(j), f) /\ UnitsIn(j)' = Total(Lines(j)', g)
  BY DEF UnitsIn, f, g
<1>4. QED
  BY <1>2, <1>3

LEMMA Elsewhere ==
  ASSUME NEW k, NEW j, j # k, OnlyIn(k)
  PROVE  /\ Lines(j)' = Lines(j) /\ \A l \in Lines(j) : line'[l] = line[l]
         /\ UnitsIn(j)' = UnitsIn(j)
<1>1. Lines(j)' = Lines(j) /\ \A l \in Lines(j) : line'[l] = line[l]
  BY DEF OnlyIn, Lines
<1>2. QED
  BY <1>1, Frame

LEMMA NoUnits == ASSUME NEW k, Lines(k) = {} PROVE UnitsIn(k) = 0
<1> DEFINE f == [l \in Adds |-> IF line[l] = Absent THEN 0 ELSE line[l].units]
<1> HIDE DEF f
<1>1. Total({}, f) = 0
  BY TotalZero
<1>2. QED
  BY <1>1 DEF UnitsIn, f

LEMMA NoUnitsNext == ASSUME NEW k, Lines(k)' = {} PROVE UnitsIn(k)' = 0
<1> DEFINE g == [l \in Adds |-> IF line'[l] = Absent THEN 0 ELSE line'[l].units]
<1> HIDE DEF g
<1>1. Total({}, g) = 0
  BY TotalZero
<1>2. UnitsIn(k)' = Total(Lines(k)', g)
  BY DEF UnitsIn, g
<1>3. QED
  BY <1>1, <1>2

(* The units a call has seen are those of the cart.                        *)
LEMMA SeenTotal ==
  ASSUME TypeOK, NEW k
  PROVE  Total(Adds, [l \in Adds |-> IF l \in Lines(k) THEN line[l].units ELSE 0]) = UnitsIn(k)
<1> DEFINE f == [l \in Adds |-> IF line[l] = Absent THEN 0 ELSE line[l].units]
           g == [l \in Adds |-> IF l \in Lines(k) THEN line[l].units ELSE 0]
           R == Adds \ Lines(k)
<1>1. /\ \A l \in Lines(k) : f[l] = g[l] /\ g[l] \in Nat
      /\ \A l \in Adds : g[l] \in Nat /\ (l \notin Lines(k) => g[l] = 0)
      /\ Lines(k) \subseteq Adds
  BY DEF Lines, TypeOK, Line
<1>2. IsFiniteSet(Adds)
  BY ConstantsAssumption
<1> DEFINE h == [l \in Adds |-> g[l]]
<1>3. Cents(Adds, g) = Cents(Lines(k), g)
  <2>1. \A l \in Adds \ Lines(k) : {l} \X (1 .. g[l]) = {}
    <3>1. \A l \in Adds \ Lines(k) : 1 .. g[l] = {}
      BY <1>1
    <3> HIDE DEF g
    <3>2. QED
      BY <3>1
  <2> HIDE DEF g
  <2>2. QED
    BY <1>1, <2>1 DEF Cents
<1> HIDE DEF f, g
<1>4. Total(Lines(k), g) = Total(Lines(k), f)
  BY <1>1, TotalAgree
<1>5. QED
  BY <1>3, <1>4 DEF Total, UnitsIn, f, g

LEMMA ChangedMarks ==
  ASSUME NEW p \in Processes, NEW k, Changed(p, k), line' # line
  PROVE  Marks(p, k) /\ raced \subseteq raced'
BY DEF Changed, Marks

LEMMA OwnCart ==
  ASSUME TypeOK, Shape, NEW p \in Processes, Act(p)
  PROVE  /\ \A q \in Processes \ {p} : q \in raced => q \in raced'
         /\ \/ line' = line
            \/ \E k \in Cart : OnlyIn(k) /\ Marks(p, k) /\ (stage[p] # "paid" => copy[p].cart = k)
<1> USE Sorts
<1>1. \A q \in Processes \ {p} : q \in raced => q \in raced'
  BY DEF Act, FindOrCreate, CreateCart, SaveAdd, FindLine, SaveLine, Take, Place, Commit, Sum,
     Write, Clear, Zero, Crash, Changed, history
<1>2. CASE line' # line /\ ~ Commit(p)
  <2>1. /\ Changed(p, copy[p].cart)
        /\ stage[p] \in Working
    BY <1>2 DEF Act, FindOrCreate, CreateCart, SaveAdd, FindLine, SaveLine, Take, Place, Sum,
       Write, Clear, Zero, Crash, tables, Working
  <2>2. PICK k \in Cart : k = copy[p].cart
    BY <2>1, WorkingCopy
  <2>3. Marks(p, k)
    BY <1>2, <2>1, <2>2, ChangedMarks
  <2>4. OnlyIn(k)
    <3>1. Writes(p)
      BY WritesOwn
    <3>2. ASSUME NEW l \in Adds, line'[l] # line[l], line[l] # Absent
          PROVE  line[l].cart = k
      <4>1. CASE copy[p].units[l] > 0
        BY <2>1, <2>2, <3>2, <4>1, WorkingCopy DEF Shape, OneHome
      <4>2. CASE l = p /\ stage[p] = "add"
        BY <3>2, <4>2 DEF Shape, OneHome
      <4>3. copy[p].units[l] > 0 \/ (l = p /\ stage[p] = "add")
        <5>1. CASE line'[l] # Absent
          BY <3>1, <3>2, <5>1 DEF Writes
        <5>2. CASE line'[l] = Absent /\ SaveAdd(p)
          <6>1. PICK m \in IF Same(p) = {} THEN {p} ELSE Same(p) :
                  line' = [line EXCEPT ![m] = [cart |-> copy[p].cart, units |-> copy[p].units[m] + 1]]
            BY <5>2 DEF SaveAdd
          <6>2. line'[l] = [cart |-> copy[p].cart, units |-> copy[p].units[m] + 1]
            BY <3>2, <6>1 DEF TypeOK
          <6>3. [cart |-> copy[p].cart, units |-> copy[p].units[m] + 1].cart = copy[p].cart
            OBVIOUS
          <6>4. p \in Adds /\ stage[p] = "add"
            BY <5>2 DEF SaveAdd, Shape, Roles
          <6>5. copy[p].cart \in Cart /\ copy[p].units \in [Adds -> Nat]
            BY <2>1, WorkingCopy
          <6>6. m \in Adds
            BY <6>1, <6>4 DEF Same
          <6>7. line'[l] \in Line
            BY <6>2, <6>5, <6>6 DEF Line
          <6>8. QED
            BY <5>2, <6>7
        <5>3. CASE line'[l] = Absent /\ SaveLine(p)
          <6>1. line' = [line EXCEPT ![asked[p][1]] = IF asked[p][2] = 0 THEN Absent
                                        ELSE [cart |-> copy[p].cart, units |-> asked[p][2]]]
                /\ stage[p] = "set"
            BY <5>3 DEF SaveLine
          <6>2. l = asked[p][1]
            BY <3>2, <6>1 DEF TypeOK
          <6>3. QED
            BY <6>1, <6>2 DEF Shape, Roles
        <5>4. CASE line'[l] = Absent /\ Clear(p)
          BY <3>2, <5>4 DEF Clear
        <5>5. CASE line'[l] = Absent /\ Zero(p)
          BY <3>2, <5>5 DEF Zero
        <5>6. QED
          BY <1>2, <5>1, <5>2, <5>3, <5>4, <5>5 DEF Act, FindOrCreate, CreateCart, FindLine, Take,
             Place, Sum, Write, Crash, tables
      <4>4. QED
        BY <4>1, <4>2, <4>3
    <3>3. ASSUME NEW l \in Adds, line'[l] # line[l], line'[l] # Absent
          PROVE  line'[l].cart = k
      BY <2>2, <3>1, <3>3 DEF Writes
    <3>4. QED
      BY <3>2, <3>3 DEF OnlyIn
  <2>5. OnlyIn(k) /\ Marks(p, k) /\ (stage[p] # "paid" => copy[p].cart = k)
    BY <2>2, <2>3, <2>4
  <2>6. \E j \in Cart : OnlyIn(j) /\ Marks(p, j) /\ (stage[p] # "paid" => copy[p].cart = j)
    BY <2>2, <2>5
  <2>7. QED
    BY <1>1, <2>6
<1>3. CASE line' # line /\ Commit(p)
  <2>1. PICK k \in Carts : line' = [l \in Adds |-> IF l \in Lines(k) THEN Absent ELSE line[l]]
                           /\ Changed(p, k) /\ stage[p] = "paid"
    BY <1>3 DEF Commit
  <2>2. OnlyIn(k)
    BY <2>1 DEF OnlyIn, Lines
  <2>3. QED
    BY <1>3, <2>1, <2>2, ChangedMarks DEF Carts
<1>4. QED
  BY <1>1, <1>2, <1>3

(***************************************************************************)
(* What a call knows that nobody has overtaken.                            *)
(***************************************************************************)
NotYet == \A a \in Adds : stage[a] \in {"idle", "create"} => total[a] = Absent

Fresh ==
  \A p \in Processes \ raced :
    /\ stage[p] \in {"add", "set", "clear", "place", "paid"} =>
         copy[p].units = Seen(copy[p].cart).units
    /\ stage[p] = "write" => copy[p].total = UnitsIn(copy[p].cart)
    /\ stage[p] = "zero" => Lines(copy[p].cart) = {}

LEMMA NotYetNext ==
  ASSUME TypeOK, Shape, NotYet, NEW p \in Processes, Act(p)
  PROVE  NotYet'
<1> USE Sorts
<1>1. SUFFICES ASSUME NEW a \in Adds, stage'[a] \in {"idle", "create"} PROVE total'[a] = Absent
  BY DEF NotYet
<1>2. stage[a] \in {"idle", "create"} /\ ~(a = p /\ CreateCart(p))
  <2>1. CASE a # p
    BY <1>1, <2>1, Locality, <2>1 DEF Local, CreateCart
  <2>2. CASE a = p
    <3>1. stage'[p] \in {"idle", "create"} /\ stage \in [Processes -> Stages]
      BY <1>1, <2>2 DEF TypeOK
    <3>2. stage[p] \in {"idle", "create"}
      BY <3>1, StartsFresh
    <3>3. CASE CreateCart(p)
      BY <3>1, <3>3 DEF CreateCart, Goto
    <3>4. QED
      BY <2>2, <3>2, <3>3
  <2>3. QED
    BY <2>1, <2>2
<1>3. total[a] = Absent
  BY <1>2 DEF NotYet
<1>4. a \notin Carts /\ a \in Cart
  BY <1>3 DEF Carts, Cart
<1>5. CASE total' = total
  BY <1>3, <1>5
<1>6. CASE p \in Adds /\ CreateCart(p)
  BY <1>2, <1>3, <1>6 DEF CreateCart, TypeOK
<1>7. CASE Write(p)
  <2>1. copy[p].cart # a
    BY <1>4, <1>7, WorkingCopy DEF Write, Working
  <2>2. QED
    BY <1>3, <1>4, <1>7, <2>1 DEF Write, TypeOK
<1>8. CASE Zero(p)
  <2>1. copy[p].cart # a
    BY <1>4, <1>8, WorkingCopy DEF Zero, Working
  <2>2. QED
    BY <1>3, <1>4, <1>8, <2>1 DEF Zero, TypeOK
<1>9. CASE Commit(p)
  <2>1. total' = total \/ \E k \in Carts : total' = [total EXCEPT ![k] = 0]
    BY <1>9 DEF Commit
  <2>2. QED
    BY <1>3, <1>4, <2>1 DEF TypeOK
<1>10. QED
  BY <1>5, <1>6, <1>7, <1>8, <1>9
     DEF Act, FindOrCreate, SaveAdd, FindLine, SaveLine, Take, Place, Sum, Clear, Crash, tables

(* Those that do not move, and are not overtaken.                          *)
LEMMA FreshOthers ==
  ASSUME TypeOK, Shape, Fresh, NEW p \in Processes, Act(p),
         NEW q \in Processes, q # p, q \notin raced'
  PROVE  /\ stage'[q] \in {"add", "set", "clear", "place", "paid"} =>
              copy'[q].units = Seen(copy[q].cart)'.units
         /\ stage'[q] = "write" => copy'[q].total = UnitsIn(copy[q].cart)'
         /\ stage'[q] = "zero" => Lines(copy[q].cart)' = {}
<1>1. stage'[q] = stage[q] /\ copy'[q] = copy[q] /\ q \notin raced
  BY Locality, OwnCart DEF Local
<1>2. SUFFICES ASSUME stage[q] \in {"add", "set", "clear", "place", "paid", "write", "zero"}
               PROVE  /\ Lines(copy[q].cart)' = Lines(copy[q].cart)
                      /\ \A l \in Lines(copy[q].cart) : line'[l] = line[l]
                      /\ UnitsIn(copy[q].cart)' = UnitsIn(copy[q].cart)
  <2> DEFINE moving == {"add", "set", "clear", "place", "paid", "write", "zero"}
  <2>1. CASE stage[q] \in moving
    <3>1. /\ stage[q] \in {"add", "set", "clear", "place", "paid"} =>
               copy[q].units = Seen(copy[q].cart).units
          /\ stage[q] = "write" => copy[q].total = UnitsIn(copy[q].cart)
          /\ stage[q] = "zero" => Lines(copy[q].cart) = {}
      BY <1>1 DEF Fresh
    <3>2. /\ Lines(copy[q].cart)' = Lines(copy[q].cart)
          /\ \A l \in Lines(copy[q].cart) : line'[l] = line[l]
          /\ UnitsIn(copy[q].cart)' = UnitsIn(copy[q].cart)
      BY <1>2, <2>1
    <3>3. Seen(copy[q].cart)'.units = Seen(copy[q].cart).units
      BY <3>2 DEF Seen
    <3>4. QED
      BY <1>1, <3>1, <3>2, <3>3
  <2>2. CASE stage[q] \notin moving
    BY <1>1, <2>2
  <2>3. QED
    BY <2>1, <2>2
<1>3. PICK j \in Cart : j = copy[q].cart /\ copy[q] # Absent
  BY <1>2, WorkingCopy DEF Working
<1>4. Lines(j)' = Lines(j) /\ (\A l \in Lines(j) : line'[l] = line[l]) /\ UnitsIn(j)' = UnitsIn(j)
  <2>1. CASE line' = line
    <3>1. Lines(j)' = Lines(j) /\ \A l \in Lines(j) : line'[l] = line[l]
      BY <2>1 DEF Lines
    <3>2. QED
      BY <3>1, Frame
  <2>2. CASE line' # line
    <3>1. PICK k \in Cart : OnlyIn(k) /\ Marks(p, k)
      BY <2>2, OwnCart
    <3>2. k # j
      BY <1>2, <1>3, <3>1 DEF Marks
    <3>3. QED
      BY <3>1, <3>2, Elsewhere
  <2>3. QED
    BY <2>1, <2>2
<1>5. Lines(copy[q].cart)' = Lines(j)' /\ UnitsIn(copy[q].cart)' = UnitsIn(j)'
  BY <1>1, <1>3
<1>6. QED
  BY <1>3, <1>4, <1>5

LEMMA Unmoved ==
  ASSUME NEW k, line' = line
  PROVE  Lines(k)' = Lines(k) /\ UnitsIn(k)' = UnitsIn(k) /\ Seen(k)'.units = Seen(k).units
<1>1. Lines(k)' = Lines(k)
  BY DEF Lines
<1>2. QED
  BY <1>1, Frame DEF Seen

LEMMA SeenUnits ==
  ASSUME NEW k
  PROVE  /\ Seen(k).units = [l \in Adds |-> IF l \in Lines(k) THEN line[l].units ELSE 0]
         /\ Seen(k).cart = k /\ Seen(k).total = total[k]
BY DEF Seen

(* The call that moves.                                                    *)
LEMMA FreshSelf ==
  ASSUME TypeOK, Shape, NotYet, Fresh, NEW p \in Processes, Act(p), p \notin raced'
  PROVE  /\ stage'[p] \in {"add", "set", "clear", "place", "paid"} =>
              copy'[p].units = Seen(copy[p].cart)'.units
         /\ stage'[p] = "write" => copy'[p].total = UnitsIn(copy[p].cart)'
         /\ stage'[p] = "zero" => Lines(copy[p].cart)' = {}
<1> USE Sorts
<1>1. stage \in [Processes -> Stages] /\ copy \in [Processes -> Copy \cup {Absent}]
  BY DEF TypeOK
<1>2. CASE End(p)
  BY <1>1, <1>2 DEF End, Goto
<1>3. CASE stage'[p] = "create"
  BY <1>3
<1>4. ASSUME NEW k \in Carts, Find(p, k), line' = line,
             stage'[p] \in {"add", "set", "clear", "place", "paid"}
      PROVE  copy'[p].units = Seen(copy[p].cart)'.units
  <2>1. copy'[p] = Seen(k)
    BY <1>1, <1>4 DEF Find
  <2>2. copy'[p].cart = k /\ copy'[p].units = Seen(k).units
    BY <2>1, SeenUnits
  <2>3. Seen(k)'.units = Seen(k).units
    BY <1>4, Unmoved
  <2>4. Seen(copy[p].cart)' = Seen(k)'
    BY <2>2
  <2>5. QED
    BY <2>2, <2>3, <2>4
<1>5. CASE p \in Adds /\ FindOrCreate(p)
  <2>1. line' = line /\ stage'[p] \in {"add", "create"}
    BY <1>1, <1>5 DEF FindOrCreate, tables, Goto
  <2>2. stage'[p] = "add" => \E k \in Carts : Find(p, k)
    BY <1>1, <1>5 DEF FindOrCreate, Goto
  <2>3. QED
    BY <1>4, <2>1, <2>2
<1>6. CASE p \in Adds /\ CreateCart(p)
  <2>1. /\ copy'[p] = [cart |-> p, total |-> 0, units |-> [l \in Adds |-> 0]]
        /\ stage'[p] = "add" /\ line' = line /\ stage[p] = "create"
    BY <1>1, <1>6 DEF CreateCart, Goto
  <2>2. Lines(p) = {}
    <3>1. p \notin Carts
      BY <1>6, <2>1 DEF NotYet, Carts
    <3>2. QED
      BY <3>1 DEF Lines, Shape, CartsExist
  <2>3. Seen(p)'.units = Seen(p).units
    BY <2>1, Unmoved
  <2>4. Seen(p).units = [l \in Adds |-> 0]
    BY <2>2, SeenUnits
  <2>5. copy'[p].cart = p /\ copy'[p].units = [l \in Adds |-> 0]
    BY <2>1
  <2>6. Seen(copy[p].cart)' = Seen(p)'
    BY <2>5
  <2>7. QED
    BY <2>1, <2>3, <2>4, <2>5, <2>6
<1>7. CASE (p \in Adds /\ SaveAdd(p)) \/ (p \in Edits /\ SaveLine(p))
  BY <1>1, <1>7 DEF SaveAdd, SaveLine, Goto
<1>8. CASE p \in Edits /\ FindLine(p)
  <2>1. line' = line /\ stage'[p] \in {"set", "clear"}
    BY <1>1, <1>8 DEF FindLine, tables, Goto
  <2>2. \E k \in Carts : Find(p, k)
    BY <1>8 DEF FindLine
  <2>3. QED
    BY <1>4, <2>1, <2>2
<1>9. CASE p \in Buyers /\ Take(p)
  <2>1. line' = line /\ stage'[p] \in {"place", "paid"}
    BY <1>1, <1>9 DEF Take, tables, Goto
  <2>2. \E k \in Carts : Find(p, k)
    BY <1>9 DEF Take
  <2>3. QED
    BY <1>4, <2>1, <2>2
<1>10. CASE p \in Buyers /\ Place(p)
  <2>1. /\ stage[p] = "place" /\ stage'[p] = "clear" /\ copy'[p] = copy[p] /\ line' = line
        /\ p \notin raced
    BY <1>1, <1>10 DEF Place, Goto, history
  <2>2. copy[p].units = Seen(copy[p].cart).units
    BY <2>1 DEF Fresh
  <2>3. PICK k \in Cart : k = copy[p].cart
    BY <2>1, WorkingCopy DEF Working
  <2>4. Seen(k)'.units = Seen(k).units
    BY <2>1, Unmoved
  <2>5. Seen(copy[p].cart)' = Seen(k)'
    BY <2>1, <2>3
  <2>6. QED
    BY <2>1, <2>2, <2>3, <2>4, <2>5
<1>11. CASE Sum(p)
  <2>1. stage'[p] = "write" /\ line' = line /\ copy[p] \in Copy /\ stage[p] \in Working
    BY <1>1, <1>11, WorkingCopy DEF Sum, Goto, tables, Working
  <2>2. PICK k \in Cart : k = copy[p].cart
    BY <2>1, WorkingCopy
  <2>3. copy'[p] = [copy[p] EXCEPT !.total = UnitsIn(copy[p].cart)]
    BY <1>1, <1>11 DEF Sum
  <2>4. copy'[p].total = UnitsIn(k) /\ copy'[p].cart = k
    BY <2>1, <2>2, <2>3 DEF Copy
  <2>5. UnitsIn(k)' = UnitsIn(k)
    BY <2>1, Unmoved
  <2>6. UnitsIn(copy[p].cart)' = UnitsIn(k)'
    BY <2>4
  <2>7. QED
    BY <2>1, <2>4, <2>5, <2>6
<1>12. CASE Clear(p)
  <2>1. /\ stage[p] = "clear" /\ stage'[p] = "zero" /\ copy'[p] = copy[p] /\ p \notin raced
        /\ line' = [l \in Adds |-> IF copy[p].units[l] > 0 THEN Absent ELSE line[l]]
    BY <1>1, <1>12 DEF Clear, Goto, Changed
  <2>2. copy[p].units = Seen(copy[p].cart).units
    BY <2>1 DEF Fresh
  <2>3. PICK k \in Cart : k = copy[p].cart
    BY <2>1, WorkingCopy DEF Working
  <2>4. \A l \in Lines(k) : copy[p].units[l] > 0
    <3>1. \A l \in Lines(k) : l \in Adds /\ line[l].units > 0
      BY DEF Lines, Shape, CartsExist
    <3>2. copy[p].units = [l \in Adds |-> IF l \in Lines(k) THEN line[l].units ELSE 0]
      BY <2>2, <2>3, SeenUnits
    <3>3. \A l \in Lines(k) : copy[p].units[l] = line[l].units
      BY <3>1, <3>2
    <3>4. QED
      BY <3>1, <3>3
  <2>5. Lines(k)' = {}
    BY <2>1, <2>4 DEF Lines
  <2>6. Lines(copy[p].cart)' = Lines(k)'
    BY <2>1, <2>3
  <2>7. QED
    BY <2>1, <2>5, <2>6
<1>13. QED
  BY <1>2, <1>5, <1>6, <1>7, <1>8, <1>9, <1>10, <1>11, <1>12
     DEF Act, Commit, Write, Zero, Crash

Known == NotYet /\ Fresh

LEMMA KnownInit == Init => Known
BY DEF Init, Known, NotYet, Fresh, Cart

LEMMA KnownNext == TypeOK /\ Shape /\ Known /\ [Next]_vars => Known'
<1> SUFFICES ASSUME TypeOK, Shape, Known, [Next]_vars
             PROVE  Known'
  OBVIOUS
<1>1. CASE UNCHANGED vars
  <2>1. line' = line /\ total' = total /\ stage' = stage /\ copy' = copy /\ raced' = raced
    BY <1>1 DEF vars, tables, calls, history
  <2>2. NotYet'
    BY <2>1 DEF Known, NotYet
  <2>3. ASSUME NEW q \in Processes, q \notin raced
        PROVE  /\ stage'[q] \in {"add", "set", "clear", "place", "paid"} =>
                    copy'[q].units = Seen(copy[q].cart)'.units
               /\ stage'[q] = "write" => copy'[q].total = UnitsIn(copy[q].cart)'
               /\ stage'[q] = "zero" => Lines(copy[q].cart)' = {}
    <3>1. PICK j : j = copy[q].cart
      OBVIOUS
    <3>2. Lines(j)' = Lines(j) /\ UnitsIn(j)' = UnitsIn(j) /\ Seen(j)'.units = Seen(j).units
      BY <2>1, Unmoved
    <3>3. /\ Lines(copy[q].cart)' = Lines(j)' /\ UnitsIn(copy[q].cart)' = UnitsIn(j)'
          /\ Seen(copy[q].cart)' = Seen(j)'
      BY <2>1, <3>1
    <3>4. QED
      BY <2>1, <2>3, <3>1, <3>2, <3>3 DEF Known, Fresh
  <2>4. Fresh'
    BY <2>1, <2>3 DEF Fresh
  <2>5. QED
    BY <2>2, <2>4 DEF Known
<1>2. ASSUME NEW p \in Processes, Act(p) PROVE Known'
  <2>1. NotYet'
    BY <1>2, NotYetNext DEF Known
  <2>2. ASSUME NEW q \in Processes, q \notin raced'
        PROVE  /\ stage'[q] \in {"add", "set", "clear", "place", "paid"} =>
                    copy'[q].units = Seen(copy[q].cart)'.units
               /\ stage'[q] = "write" => copy'[q].total = UnitsIn(copy[q].cart)'
               /\ stage'[q] = "zero" => Lines(copy[q].cart)' = {}
    <3>1. CASE q = p
      BY <1>2, <2>2, <3>1, FreshSelf DEF Known
    <3>2. CASE q # p
      BY <1>2, <2>2, <3>2, FreshOthers DEF Known
    <3>3. QED
      BY <3>1, <3>2
  <2>3. Fresh'
    BY <2>2 DEF Fresh
  <2>4. QED
    BY <2>1, <2>3 DEF Known
<1>3. QED
  BY <1>1, <1>2, Acts

(***************************************************************************)
(* The total of a cart.                                                    *)
(***************************************************************************)
Bringing == {"sum", "write", "zero"}

(* A step that has nothing to do with the cart.                            *)
LEMMA Stays ==
  ASSUME TotalFollowsLines, NEW p \in Processes, Local(p), NEW j \in Carts,
         total'[j] = total[j], UnitsIn(j)' = UnitsIn(j), j \in drifted => j \in drifted',
         ~(copy[p] # Absent /\ copy[p].cart = j /\ stage[p] \in Bringing)
  PROVE  total'[j] = UnitsIn(j)' \/ Behind(j)'
<1>1. CASE total[j] = UnitsIn(j)
  BY <1>1
<1>2. CASE j \in drifted
  BY <1>2 DEF Behind
<1>3. ASSUME NEW q \in Processes, copy[q] # Absent, copy[q].cart = j, stage[q] \in Bringing
      PROVE  Behind(j)'
  <2>1. q # p
    BY <1>3
  <2>2. copy'[q] = copy[q] /\ stage'[q] = stage[q]
    BY <2>1 DEF Local
  <2>3. QED
    BY <1>3, <2>2 DEF Behind, Bringing
<1>4. QED
  BY <1>1, <1>2, <1>3 DEF TotalFollowsLines, Behind, Bringing

LEMMA TotalNext ==
  ASSUME TypeOK, Shape, NotYet, Fresh, TotalFollowsLines, NEW p \in Processes, Act(p),
         NEW j \in Cart, total'[j] # Absent
  PROVE  total'[j] = UnitsIn(j)' \/ Behind(j)'
<1> USE Sorts
<1>1. Local(p) /\ copy \in [Processes -> Copy \cup {Absent}] /\ stage \in [Processes -> Stages]
      /\ total \in [Cart -> Nat \cup {Absent}]
  BY Locality DEF TypeOK
<1>2. CASE p \in Adds /\ CreateCart(p)
  <2>1. line' = line /\ drifted' = drifted /\ stage[p] = "create" /\ total' = [total EXCEPT ![p] = 0]
    BY <1>2 DEF CreateCart
  <2>2. CASE j = p
    <3>1. j \notin Carts
      BY <1>2, <2>1, <2>2 DEF NotYet, Carts
    <3>2. Lines(j) = {}
      BY <3>1 DEF Lines, Shape, CartsExist
    <3>3. UnitsIn(j)' = 0
      BY <2>1, <3>2, Unmoved, NoUnits
    <3>4. QED
      BY <1>1, <2>1, <2>2, <3>3
  <2>3. CASE j # p
    <3>1. total'[j] = total[j] /\ j \in Carts
      BY <1>1, <2>1, <2>3 DEF Carts
    <3>2. UnitsIn(j)' = UnitsIn(j)
      BY <2>1, Unmoved
    <3>3. QED
      BY <1>1, <2>1, <3>1, <3>2, Stays DEF Bringing
  <2>4. QED
    BY <2>2, <2>3
<1>3. CASE \/ p \in Adds /\ FindOrCreate(p)
           \/ p \in Edits /\ FindLine(p)
           \/ p \in Buyers /\ (Take(p) \/ Place(p))
  <2>1. line' = line /\ total' = total /\ drifted' = drifted /\ stage[p] \in {"idle", "place"}
    BY <1>3 DEF FindOrCreate, FindLine, Take, Place, tables, history
  <2>2. UnitsIn(j)' = UnitsIn(j) /\ j \in Carts
    BY <2>1, Unmoved DEF Carts
  <2>3. QED
    BY <1>1, <2>1, <2>2, Stays DEF Bringing
<1>4. ASSUME stage[p] \in Working, stage[p] # "paid", total' = total,
             drifted' = drifted, copy' = copy, stage[p] \notin Bringing, stage'[p] \in Bringing
      PROVE  total'[j] = UnitsIn(j)' \/ Behind(j)'
  <2>1. PICK k \in Cart : k = copy[p].cart /\ copy[p] # Absent
    BY <1>4, WorkingCopy
  <2>2. CASE j = k
    BY <1>4, <2>1, <2>2 DEF Behind, Bringing
  <2>3. CASE j # k
    <3>1. UnitsIn(j)' = UnitsIn(j)
      <4>1. CASE line' = line
        BY <4>1, Unmoved
      <4>2. CASE line' # line
        <5>1. OnlyIn(k)
          BY <1>4, <2>1, <4>2, OwnCart
        <5>2. QED
          BY <2>3, <5>1, Elsewhere
      <4>3. QED
        BY <4>1, <4>2
    <3>2. j \in Carts
      BY <1>4 DEF Carts
    <3>3. QED
      BY <1>1, <1>4, <2>1, <2>3, <3>1, <3>2, Stays
  <2>4. QED
    BY <2>2, <2>3
<1>5. CASE (p \in Adds /\ SaveAdd(p)) \/ (p \in Edits /\ SaveLine(p)) \/ Clear(p)
  <2>1. /\ stage[p] \in {"add", "set", "clear"} /\ stage'[p] \in {"sum", "zero"}
        /\ total' = total /\ drifted' = drifted /\ copy' = copy
    BY <1>1, <1>5 DEF SaveAdd, SaveLine, Clear, Goto
  <2>2. QED
    BY <1>4, <2>1 DEF Working, Bringing
<1>6. CASE Sum(p)
  <2>1. /\ stage[p] = "sum" /\ stage'[p] = "write" /\ total' = total /\ line' = line
        /\ drifted' = drifted /\ copy'[p] = [copy[p] EXCEPT !.total = UnitsIn(copy[p].cart)]
    BY <1>1, <1>6 DEF Sum, Goto, tables
  <2>2. PICK k \in Cart : k = copy[p].cart /\ copy[p] \in Copy
    BY <2>1, WorkingCopy DEF Working
  <2>3. copy'[p].cart = k /\ copy'[p] \in Copy
    <3>1. UnitsIn(copy[p].cart) \in Nat
      BY UnitsType
    <3>2. QED
      BY <2>1, <2>2, <3>1 DEF Copy
  <2>4. CASE j = k
    BY <2>1, <2>3, <2>4 DEF Behind
  <2>5. CASE j # k
    <3>1. UnitsIn(j)' = UnitsIn(j) /\ j \in Carts
      BY <2>1, Unmoved DEF Carts
    <3>2. QED
      BY <1>1, <2>1, <2>2, <2>5, <3>1, Stays
  <2>6. QED
    BY <2>4, <2>5
<1>7. ASSUME stage[p] \in Working, NEW k \in Cart, k = copy[p].cart, j # k,
             \/ line' = line
             \/ stage[p] # "paid",
             total'[j] = total[j], j \in drifted => j \in drifted'
      PROVE  total'[j] = UnitsIn(j)' \/ Behind(j)'
  <2>1. UnitsIn(j)' = UnitsIn(j)
    <3>1. CASE line' = line
      BY <3>1, Unmoved
    <3>2. CASE line' # line
      <4>1. OnlyIn(k)
        BY <1>7, <3>2, OwnCart
      <4>2. QED
        BY <1>7, <4>1, Elsewhere
    <3>3. QED
      BY <3>1, <3>2
  <2>2. j \in Carts
    BY <1>7 DEF Carts
  <2>3. QED
    BY <1>1, <1>7, <2>1, <2>2, Stays
<1>8. CASE Write(p)
  <2>1. /\ stage[p] = "write" /\ line' = line /\ total' = [total EXCEPT ![copy[p].cart] = copy[p].total]
        /\ drifted' = IF p \in raced THEN drifted \cup {copy[p].cart} ELSE drifted \ {copy[p].cart}
    BY <1>8 DEF Write
  <2>2. PICK k \in Cart : k = copy[p].cart
    BY <2>1, WorkingCopy DEF Working
  <2>3. CASE j = k /\ p \in raced
    BY <2>1, <2>2, <2>3 DEF Behind
  <2>4. CASE j = k /\ p \notin raced
    <3>1. total'[j] = UnitsIn(k)
      BY <1>1, <2>1, <2>2, <2>4 DEF Fresh
    <3>2. UnitsIn(k)' = UnitsIn(k)
      BY <2>1, Unmoved
    <3>3. UnitsIn(j)' = UnitsIn(k)'
      BY <2>4
    <3>4. QED
      BY <3>1, <3>2, <3>3
  <2>5. CASE j # k
    <3>1. total'[j] = total[j] /\ (j \in drifted => j \in drifted')
      BY <1>1, <2>1, <2>2, <2>5
    <3>2. QED
      BY <1>7, <2>1, <2>2, <2>5, <3>1 DEF Working
  <2>6. QED
    BY <2>3, <2>4, <2>5
<1>9. CASE Zero(p)
  <2>1. /\ stage[p] = "zero" /\ total' = [total EXCEPT ![copy[p].cart] = 0]
        /\ \/ /\ line' = line
              /\ drifted' = IF p \in raced THEN drifted \cup {copy[p].cart} ELSE drifted \ {copy[p].cart}
           \/ drifted' = drifted \cup {copy[p].cart}
    BY <1>9 DEF Zero
  <2>2. PICK k \in Cart : k = copy[p].cart
    BY <2>1, WorkingCopy DEF Working
  <2>3. CASE j = k /\ k \in drifted'
    BY <2>3 DEF Behind
  <2>4. CASE j = k /\ k \notin drifted'
    <3>1. p \notin raced /\ line' = line
      BY <2>1, <2>2, <2>4
    <3>2. Lines(k) = {}
      BY <2>1, <2>2, <3>1 DEF Fresh
    <3>3. UnitsIn(k)' = 0
      BY <3>1, <3>2, Unmoved, NoUnits
    <3>4. UnitsIn(j)' = UnitsIn(k)' /\ total'[j] = 0
      BY <1>1, <2>1, <2>2, <2>4
    <3>5. QED
      BY <3>3, <3>4
  <2>5. CASE j # k
    <3>1. total'[j] = total[j] /\ (j \in drifted => j \in drifted')
      BY <1>1, <2>1, <2>2, <2>5
    <3>2. QED
      BY <1>7, <2>1, <2>2, <2>5, <3>1 DEF Working
  <2>6. QED
    BY <2>3, <2>4, <2>5
<1>10. CASE p \in Buyers /\ Commit(p)
  <2>1. stage[p] = "paid"
    BY <1>10 DEF Commit
  <2>2. CASE line' = line /\ total' = total /\ drifted' = drifted
    <3>1. UnitsIn(j)' = UnitsIn(j) /\ j \in Carts
      BY <2>2, Unmoved DEF Carts
    <3>2. QED
      BY <1>1, <2>1, <2>2, <3>1, Stays DEF Bringing
  <2>3. ASSUME NEW k \in Carts,
               line' = [l \in Adds |-> IF l \in Lines(k) THEN Absent ELSE line[l]],
               total' = [total EXCEPT ![k] = 0], drifted' = drifted \ {k}
        PROVE  total'[j] = UnitsIn(j)' \/ Behind(j)'
    <3>1. CASE j = k
      <4>1. Lines(k)' = {}
        BY <2>3 DEF Lines
      <4>2. UnitsIn(k)' = 0
        BY <4>1, NoUnitsNext
      <4>3. UnitsIn(j)' = UnitsIn(k)' /\ total'[j] = 0
        BY <1>1, <2>3, <3>1
      <4>4. QED
        BY <4>2, <4>3
    <3>2. CASE j # k
      <4>1. OnlyIn(k)
        BY <2>3 DEF OnlyIn, Lines
      <4>2. UnitsIn(j)' = UnitsIn(j)
        BY <3>2, <4>1, Elsewhere
      <4>3. total'[j] = total[j] /\ (j \in drifted => j \in drifted') /\ j \in Carts
        BY <1>1, <2>3, <3>2 DEF Carts
      <4>4. QED
        BY <1>1, <2>1, <4>2, <4>3, Stays DEF Bringing
    <3>3. QED
      BY <3>1, <3>2
  <2>4. QED
    BY <1>10, <2>2, <2>3 DEF Commit
<1>11. CASE Crash(p)
  <2>1. /\ total' = total /\ line' = line
        /\ drifted' = IF stage[p] \in {"sum", "write", "zero"}
                        THEN drifted \cup {copy[p].cart} ELSE drifted
    BY <1>11 DEF Crash, tables
  <2>2. UnitsIn(j)' = UnitsIn(j) /\ j \in Carts
    BY <2>1, Unmoved DEF Carts
  <2>3. CASE copy[p] # Absent /\ copy[p].cart = j /\ stage[p] \in Bringing
    BY <2>1, <2>3 DEF Behind, Bringing
  <2>4. CASE ~(copy[p] # Absent /\ copy[p].cart = j /\ stage[p] \in Bringing)
    BY <1>1, <2>1, <2>2, <2>4, Stays
  <2>5. QED
    BY <2>3, <2>4
<1>12. QED
  BY <1>2, <1>3, <1>5, <1>6, <1>8, <1>9, <1>10, <1>11 DEF Act

LEMMA TotalsInit == Init => TotalFollowsLines
BY DEF Init, TotalFollowsLines, Carts, Cart

LEMMA TotalsNext ==
  TypeOK /\ Shape /\ Known /\ TotalFollowsLines /\ [Next]_vars => TotalFollowsLines'
<1> SUFFICES ASSUME TypeOK, Shape, Known, TotalFollowsLines, [Next]_vars
             PROVE  TotalFollowsLines'
  OBVIOUS
<1>1. SUFFICES ASSUME NEW j \in Cart, total'[j] # Absent
               PROVE  total'[j] = UnitsIn(j)' \/ Behind(j)'
  BY DEF TotalFollowsLines, Carts
<1>2. CASE UNCHANGED vars
  <2>1. /\ line' = line /\ total' = total /\ stage' = stage /\ copy' = copy
        /\ drifted' = drifted
    BY <1>2 DEF vars, tables, calls, history
  <2>2. UnitsIn(j)' = UnitsIn(j) /\ j \in Carts
    BY <1>1, <2>1, Unmoved DEF Carts
  <2>3. Behind(j) => Behind(j)'
    BY <2>1 DEF Behind
  <2>4. QED
    BY <2>1, <2>2, <2>3 DEF TotalFollowsLines
<1>3. CASE Next
  BY <1>1, <1>3, Acts, TotalNext DEF Known
<1>4. QED
  BY <1>2, <1>3

LEMMA TotalsAlways == Spec => [](TypeOK /\ Shape /\ Known /\ TotalFollowsLines)
<1>1. Init => Known /\ TotalFollowsLines
  BY KnownInit, TotalsInit
<1>2. TypeOK /\ Shape /\ Known /\ TotalFollowsLines /\ [Next]_vars => (Known /\ TotalFollowsLines)'
  BY KnownNext, TotalsNext
<1>3. QED
  BY <1>1, <1>2, ShapeAlways, PTL DEF Spec

(* The total of a cart is that of its lines unless a call is still to      *)
(* bring it up to date, or the last one to write it was late: however many *)
(* calls recalculate one cart at once (recalculateCart).                   *)
THEOREM TotalAlwaysFollows == Spec => []TotalFollowsLines
  BY TotalsAlways, PTL

(***************************************************************************)
(* The price of an order.                                                  *)
(***************************************************************************)
Priced ==
  \A o \in Buyers :
    /\ stage[o] \in {"place", "paid"} =>
         copy[o].total = Total(Adds, copy[o].units) \/ o \in hurried
    /\ order[o] # Absent => order[o].price = Total(Adds, order[o].units) \/ o \in hurried
    /\ stage[o] = "clear" => order[o] # Absent /\ order[o].units = copy[o].units

LEMMA PricedNext ==
  ASSUME TypeOK, Shape, TotalFollowsLines, Priced, NEW p \in Processes, Act(p)
  PROVE  Priced'
<1> USE Sorts
<1>1. Local(p) /\ copy \in [Processes -> Copy \cup {Absent}] /\ stage \in [Processes -> Stages]
      /\ order \in [Buyers -> Order \cup {Absent}]
  BY Locality DEF TypeOK, Buyers
<1>2. SUFFICES ASSUME NEW o \in Buyers
               PROVE  /\ stage'[o] \in {"place", "paid"} =>
                           copy'[o].total = Total(Adds, copy'[o].units) \/ o \in hurried'
                      /\ order'[o] # Absent =>
                           order'[o].price = Total(Adds, order'[o].units) \/ o \in hurried'
                      /\ stage'[o] = "clear" => order'[o] # Absent /\ order'[o].units = copy'[o].units
  BY DEF Priced
<1>3. o \in hurried => o \in hurried'
  BY DEF Act, FindOrCreate, CreateCart, SaveAdd, FindLine, SaveLine, Take, Place, Commit, Sum,
     Write, Clear, Zero, Crash, history
<1>4. CASE order'[o] = order[o] /\ stage'[o] = stage[o] /\ copy'[o] = copy[o]
  BY <1>3, <1>4 DEF Priced
<1>5. CASE order'[o] = order[o] /\ stage'[o] \notin {"place", "paid", "clear"}
  BY <1>3, <1>5 DEF Priced
<1>6. CASE Take(p) /\ o = p
  <2>1. PICK k \in Carts : Find(p, k) /\ hurried' = IF Behind(k) THEN hurried \cup {p} ELSE hurried
    BY <1>6 DEF Take
  <2>2. order'[o] = order[o] /\ stage'[o] \in {"place", "paid"}
    BY <1>1, <1>6 DEF Take, tables, Goto
  <2>3. copy'[o] = Seen(k)
    BY <1>1, <1>6, <2>1 DEF Find
  <2>4. copy'[o].units = [l \in Adds |-> IF l \in Lines(k) THEN line[l].units ELSE 0]
        /\ copy'[o].total = total[k]
    BY <2>3, SeenUnits
  <2>5. CASE Behind(k)
    BY <1>3, <1>6, <2>1, <2>2, <2>5 DEF Priced
  <2>6. CASE total[k] = UnitsIn(k)
    <3>1. copy'[o].total = Total(Adds, copy'[o].units)
      BY <2>4, <2>6, SeenTotal
    <3>2. QED
      BY <1>3, <2>2, <3>1 DEF Priced
  <2>7. QED
    BY <2>5, <2>6 DEF TotalFollowsLines
<1>7. CASE (Place(p) \/ Commit(p)) /\ o = p
  <2>1. /\ stage[o] \in {"place", "paid"} /\ order' = [order EXCEPT ![o] = Ordered(o)]
        /\ stage'[o] \in {"clear", "done"}
        /\ stage'[o] = "clear" => copy'[o] = copy[o]
    BY <1>1, <1>7 DEF Place, Commit, End, Goto
  <2>2. order'[o] = [units |-> copy[o].units, price |-> copy[o].total]
    BY <1>1, <2>1 DEF Ordered
  <2>3. copy[o].total = Total(Adds, copy[o].units) \/ o \in hurried
    BY <2>1 DEF Priced
  <2>4. order'[o] # Absent
    <3>1. copy[o].units \in [Adds -> Nat] /\ copy[o].total \in Nat
      BY <2>1, WorkingCopy DEF Working
    <3>2. order'[o] \in Order
      BY <2>2, <3>1 DEF Order
    <3>3. QED
      BY <3>2
  <2>5. QED
    BY <1>3, <2>1, <2>2, <2>3, <2>4
<1>8. CASE p # o
  <2>1. order'[o] = order[o]
    BY <1>1, <1>8 DEF Act, FindOrCreate, CreateCart, SaveAdd, FindLine, SaveLine, Take, Place, Commit,
       Sum, Write, Clear, Zero, Crash, tables
  <2>2. QED
    BY <1>1, <1>4, <1>8, <2>1 DEF Local
<1>9. CASE p = o
  <2>1. CASE Sum(p) \/ Write(p) \/ Clear(p) \/ Zero(p) \/ Crash(p)
    <3>1. order' = order /\ stage'[o] \in {"write", "zero", "done"}
      BY <1>1, <1>9, <2>1 DEF Sum, Write, Clear, Zero, Crash, End, Goto, tables
    <3>2. QED
      BY <1>5, <3>1
  <2>2. QED
    BY <1>6, <1>7, <1>9, <2>1 DEF Act
<1>10. QED
  BY <1>8, <1>9

LEMMA PricedAlways == Spec => []Priced
<1>1. Init => Priced
  BY Sorts DEF Init, Priced, Buyers
<1>2. ASSUME TypeOK, Shape, TotalFollowsLines, Priced, [Next]_vars PROVE Priced'
  <2>1. CASE UNCHANGED vars
    BY <1>2, <2>1 DEF vars, tables, calls, history, Priced
  <2>2. CASE Next
    BY <1>2, <2>2, Acts, PricedNext
  <2>3. QED
    BY <1>2, <2>1, <2>2
<1>3. QED
  BY <1>1, <1>2, TotalsAlways, PTL DEF Spec

(* Every order is charged for exactly its lines, unless the total of the   *)
(* cart was behind when the order read it: the cart may change between any *)
(* two steps of the call (createOrder, createPaymentIntent).               *)
THEOREM OrdersChargedForLines == Spec => []ChargedForItsLines
<1>1. Priced => ChargedForItsLines
  BY DEF Priced, ChargedForItsLines, Buyers
<1>2. QED
  BY <1>1, PricedAlways, PTL

(***************************************************************************)
(* The lines an order takes out of its cart.                               *)
(***************************************************************************)
OnlyLate ==
  \A o \in (Orders \cup Checkouts) \ raced, l \in Adds :
    stage'[o] # stage[o] /\ line[l] # Absent /\ line'[l] = Absent
      /\ line[l].cart = copy[o].cart =>
        order'[o].units[l] = line[l].units

LEMMA OnlyLateStep ==
  ASSUME TypeOK, Shape, Fresh, Priced, NEW p \in Processes, Act(p)
  PROVE  OnlyLate
<1> USE Sorts
<1>1. SUFFICES ASSUME NEW o \in Buyers, o \notin raced, NEW l \in Adds, stage'[o] # stage[o],
                      line[l] # Absent, line'[l] = Absent, line[l].cart = copy[o].cart
               PROVE  order'[o].units[l] = line[l].units
  BY DEF OnlyLate, Buyers
<1>2. o = p
  BY <1>1, Locality DEF Local
<1>3. stage \in [Processes -> Stages] /\ order \in [Buyers -> Order \cup {Absent}]
  BY DEF TypeOK, Buyers
<1>4. l \in Lines(copy[o].cart)
  BY <1>1 DEF Lines
<1>5. Seen(copy[o].cart).units[l] = line[l].units
  BY <1>4, SeenUnits
<1>6. CASE Clear(p)
  <2>1. stage[o] = "clear" /\ order' = order
    BY <1>2, <1>6 DEF Clear
  <2>2. copy[o].units = Seen(copy[o].cart).units /\ order[o].units = copy[o].units
    BY <1>1, <2>1 DEF Fresh, Priced
  <2>3. QED
    BY <1>5, <2>1, <2>2
<1>7. CASE Commit(p)
  <2>1. stage[o] = "paid" /\ order'[o] = [units |-> copy[o].units, price |-> copy[o].total]
    BY <1>2, <1>3, <1>7 DEF Commit, Ordered
  <2>2. copy[o].units = Seen(copy[o].cart).units
    BY <1>1, <2>1 DEF Fresh
  <2>3. QED
    BY <1>5, <2>1, <2>2
<1>8. CASE Zero(p)
  BY <1>1, <1>2, <1>8 DEF Zero
<1>9. QED
  BY <1>1, <1>2, <1>6, <1>7, <1>8 DEF Act, Take, Place, Sum, Write, Crash, tables

(* A line that an order takes out of its cart is in the order with the     *)
(* units it had, unless the cart was changed since the order read it.      *)
THEOREM OnlyLateLines == Spec => OnlyLateLinesAreLost
<1>1. ASSUME TypeOK, Shape, Known, Priced, [Next]_vars PROVE [OnlyLate]_vars
  <2>1. CASE Next
    BY <1>1, <2>1, Acts, OnlyLateStep DEF Known
  <2>2. QED
    BY <1>1, <2>1
<1>2. Spec => [][OnlyLate]_vars
  BY <1>1, TotalsAlways, PricedAlways, PTL DEF Spec
<1>3. QED
  BY <1>2 DEF OnlyLate, OnlyLateLinesAreLost
=============================================================================
