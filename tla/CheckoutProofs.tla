--------------------------- MODULE CheckoutProofs ---------------------------
(***************************************************************************)
(* What holds of the checkout for every set of checkouts, customers,       *)
(* variants and processes, every stock, and every interleaving, delay and  *)
(* crash.                                                                  *)
(***************************************************************************)
EXTENDS Checkout, FiniteSetTheorems, FunctionTheorems, NaturalsInduction, TLAPS

Tx == {"lock", "number", "coupon", "commit"}
Working == {"lookup", "load", "expire", "process", "begin", "ack"} \cup Tx

(* The items of a snapshot are its lines in some order, and only a         *)
(* snapshot that was saved has an intent or is a candidate.                *)
Saved ==
  \A s \in Snapshots :
    /\ status[s] # "NONE" => items[s] \in Bijection(1 .. Cardinality(LinesOf(s)), LinesOf(s))
    /\ intent[s] # "none" \/ s \in declined \/ s \in queue => status[s] # "NONE"

(* A process in the pipeline works on a checkout that has been paid.       *)
Jobs == \A p \in Processes : pc[p] \in Working => job[p] \in Snapshots /\ Captured(job[p])

(* Its transaction is in the timeline once, from BEGIN to its end.         *)
Transactions ==
  \A p \in Processes :
    /\ pc[p] \in Tx => \E i \in DOMAIN timeline : timeline[i].by = p
    /\ \A i \in DOMAIN timeline : timeline[i].by = p => pc[p] \in Tx /\ timeline[i].snapshot = job[p]
    /\ \A i, j \in DOMAIN timeline : timeline[i].by = p /\ timeline[j].by = p => i = j

(* A process holds the rows it has locked alone, and their stock is what   *)
(* it found to be enough for each line.                                    *)
Enough(l) == UnitsOf[l] <= stock[VariantOf[l]].available

Locks ==
  \A p \in Processes :
    /\ pc[p] \notin Tx => held[p] = 0
    /\ pc[p] = "lock" => held[p] < Len(items[job[p]])
    /\ pc[p] \in {"number", "coupon", "commit"} => held[p] = Len(items[job[p]])
    /\ \A q \in Processes \ {p} : Locked(p) \cap Locked(q) = {}
    /\ \A i \in 1 .. held[p] : Enough(items[job[p]][i])

(* What is closed or acknowledged is sold.                                 *)
Closed ==
  /\ UsedHasOrder /\ HandledHasOrder
  /\ \A p \in Processes : pc[p] = "ack" => Sold(job[p])

(***************************************************************************)
(* The steps: what happens outside the pipeline, and in it.                *)
(***************************************************************************)
Outside ==
  \/ \E s \in Snapshots :
       \/ CreateSnapshot(s) \/ SaveIntent(s) \/ Expire(s)
       \/ Pay(s) \/ Decline(s) \/ PaymentFailed(s)
  \/ \E u \in Users : FillCart(u)
  \/ Cleanup
  \/ CronStart

Inside(p) ==
  \/ p \in Requests /\ Request(p)
  \/ p = Cron /\ \E s \in Snapshots : CronNext(s)
  \/ Step(p) \/ Crash(p)

LEMMA Steps == ASSUME Next PROVE Outside \/ \E p \in Processes : Inside(p)
<1>1. Cron \in Processes /\ \A r \in Requests : r \in Processes
  BY DEF Processes
<1>2. CASE \E s \in Snapshots : CronNext(s)
  BY <1>1, <1>2 DEF Inside
<1>3. CASE \E r \in Requests : Request(r)
  BY <1>1, <1>3 DEF Inside
<1>4. CASE \E p \in Processes : Step(p) \/ Crash(p)
  BY <1>4 DEF Inside
<1>5. QED
  BY <1>2, <1>3, <1>4 DEF Next, Outside

LEMMA Sorts ==
  /\ None \notin Processes /\ Cron \in Processes /\ Cron \notin Requests
  /\ Requests \subseteq Processes
  /\ \A s \in Snapshots : UserOf[s] \in Users
  /\ IsFiniteSet(Lines)
  /\ \A l \in Lines : /\ CheckoutOf[l] \in Snapshots /\ VariantOf[l] \in Variants
                       /\ UnitsOf[l] \in Nat /\ UnitsOf[l] > 0
  /\ MaxCrashes \in Nat
BY ConstantsAssumption DEF Processes

(* The lines of a checkout, and the items they become.                     *)
LEMMA LinesFinite ==
  ASSUME NEW s \in Snapshots
  PROVE  /\ LinesOf(s) \subseteq Lines /\ IsFiniteSet(LinesOf(s)) /\ LinesOf(s) # {}
         /\ Cardinality(LinesOf(s)) \in Nat \ {0}
<1>1. LinesOf(s) \subseteq Lines /\ LinesOf(s) # {}
  BY ConstantsAssumption DEF LinesOf
<1>2. IsFiniteSet(LinesOf(s))
  BY <1>1, Sorts, FS_Subset
<1>3. Cardinality(LinesOf(s)) \in Nat /\ Cardinality(LinesOf(s)) # 0
  BY <1>1, <1>2, FS_CardinalityType, FS_EmptySet
<1>4. QED
  BY <1>1, <1>2, <1>3

LEMMA Items ==
  ASSUME NEW s \in Snapshots, NEW f \in Bijection(1 .. Cardinality(LinesOf(s)), LinesOf(s))
  PROVE  /\ f \in Seq(LinesOf(s)) /\ f \in Seq(Lines)
         /\ Len(f) = Cardinality(LinesOf(s)) /\ Len(f) \in Nat \ {0}
         /\ \A i, j \in 1 .. Len(f) : f[i] = f[j] => i = j
         /\ \A l \in LinesOf(s) : \E i \in 1 .. Len(f) : f[i] = l
<1> DEFINE n == Cardinality(LinesOf(s))
<1>1. n \in Nat \ {0} /\ LinesOf(s) \subseteq Lines
  BY LinesFinite
<1>2. /\ f \in [1 .. n -> LinesOf(s)]
      /\ \A i, j \in 1 .. n : f[i] = f[j] => i = j
      /\ \A l \in LinesOf(s) : \E i \in 1 .. n : f[i] = l
  BY DEF Bijection, Injection, Surjection, IsInjective
<1> HIDE DEF n
<1>3. f \in Seq(LinesOf(s)) /\ f \in Seq(Lines) /\ Len(f) = n
  BY <1>1, <1>2
<1>4. QED
  BY <1>1, <1>2, <1>3 DEF n

(***************************************************************************)
(* What a checkout takes of a variant.                                     *)
(***************************************************************************)
LEMMA OneRow ==
  ASSUME NEW k, NEW n \in Nat
  PROVE  IsFiniteSet({k} \X (1 .. n)) /\ Cardinality({k} \X (1 .. n)) = n
<1>1. IsFiniteSet({k}) /\ Cardinality({k}) = 1
  BY FS_Singleton
<1>2. IsFiniteSet(1 .. n) /\ Cardinality(1 .. n) = n
  BY FS_Interval
<1>3. /\ IsFiniteSet({k} \X (1 .. n))
      /\ Cardinality({k} \X (1 .. n)) = Cardinality({k}) * Cardinality(1 .. n)
  BY <1>1, <1>2, FS_Product
<1>4. 1 * n = n
  OBVIOUS
<1>5. QED
  BY <1>1, <1>2, <1>3, <1>4

LEMMA WantsType == ASSUME NEW s, NEW v PROVE Wants(s, v) \in Nat
<1> DEFINE S == {l \in LinesOf(s) : VariantOf[l] = v}
           T == {{l} \X (1 .. UnitsOf[l]) : l \in S}
           f == [l \in S |-> {l} \X (1 .. UnitsOf[l])]
<1>1. S \subseteq Lines /\ IsFiniteSet(S) /\ \A l \in S : UnitsOf[l] \in Nat
  BY Sorts, FS_Subset DEF LinesOf
<1>2. IsFiniteSet(T)
  <2>1. f \in Surjection(S, T)
    BY DEF Surjection
  <2>2. QED
    BY <1>1, <2>1, FS_Surjection
<1>3. ASSUME NEW U \in T PROVE IsFiniteSet(U)
  <2>1. PICK l \in S : U = {l} \X (1 .. UnitsOf[l])
    BY <1>3
  <2>2. UnitsOf[l] \in Nat
    BY <1>1, <2>1
  <2>3. QED
    BY <2>1, <2>2, OneRow
<1>4. IsFiniteSet(Cents(S, UnitsOf))
  BY <1>2, <1>3, FS_UNION DEF Cents
<1>5. QED
  BY <1>4, FS_CardinalityType DEF Wants, Total

(* A checkout without a line of the variant takes none of it, one with a   *)
(* single line takes what the line says.                                   *)
LEMMA WantsNone ==
  ASSUME NEW s, NEW v, \A l \in LinesOf(s) : VariantOf[l] # v
  PROVE  Wants(s, v) = 0
<1>1. Cents({l \in LinesOf(s) : VariantOf[l] = v}, UnitsOf) = {}
  BY DEF Cents
<1>2. QED
  BY <1>1, FS_EmptySet DEF Wants, Total

LEMMA WantsOne ==
  ASSUME NEW s, NEW l \in LinesOf(s),
         \A k \in LinesOf(s) : VariantOf[k] = VariantOf[l] => k = l
  PROVE  Wants(s, VariantOf[l]) = UnitsOf[l]
<1>1. {k \in LinesOf(s) : VariantOf[k] = VariantOf[l]} = {l}
  OBVIOUS
<1>2. Cents({l}, UnitsOf) = {l} \X (1 .. UnitsOf[l])
  BY DEF Cents
<1>3. l \in Lines /\ UnitsOf[l] \in Nat
  BY Sorts DEF LinesOf
<1>4. Cardinality({l} \X (1 .. UnitsOf[l])) = UnitsOf[l]
  BY <1>3, OneRow
<1>5. QED
  BY <1>1, <1>2, <1>4 DEF Wants, Total

(* The last of some positions in a sequence.                               *)
LEMMA GreatestExists ==
  ASSUME NEW n \in Nat, NEW S \in SUBSET (1 .. n), S # {}
  PROVE  \E x \in S : \A y \in S : x >= y
<1> DEFINE T == {n - x : x \in S}
<1>1. T \subseteq Nat /\ T # {}
  <2>1. \A x \in S : n - x \in Nat
    OBVIOUS
  <2>2. T # {}
    <3>1. PICK x \in S : TRUE
      OBVIOUS
    <3>2. n - x \in T
      OBVIOUS
    <3>3. QED
      BY <3>2
  <2>3. QED
    BY <2>1, <2>2
<1> DEFINE R == OpToRel(<, Nat)
<1>2. IsWellFoundedOn(R, Nat)
  BY NatLessThanWellFounded
<1>3. \A k, m \in Nat : m < k => <<m, k>> \in R
  BY DEF OpToRel
<1> HIDE DEF R
<1>4. PICK k \in T : \A m \in T : ~(<<m, k>> \in R)
  BY <1>1, <1>2, WFMin
<1>5. PICK x \in S : k = n - x
  OBVIOUS
<1>6. \A y \in S : n - y \in T /\ n - y \in Nat /\ n - x \in Nat /\ x \in Nat /\ y \in Nat
  OBVIOUS
<1>7. \A y \in S : ~(n - y < n - x)
  BY <1>3, <1>4, <1>5, <1>6
<1>8. \A y \in S : x >= y
  BY <1>6, <1>7
<1>9. QED
  BY <1>8

LEMMA LessType ==
  ASSUME NEW row \in [quantity : Nat, available : Nat], NEW n \in Nat
  PROVE  /\ Less(row, n) \in [quantity : Nat, available : Nat]
         /\ n <= row.available => Less(row, n).available = row.available - n
         /\ ~(n <= row.available) => Less(row, n).available = 0
         /\ n = 0 => Less(row, n) = row
<1>1. \A a \in Int :
        /\ Max({0, a}) \in Nat
        /\ a >= 0 => Max({0, a}) = a
        /\ a < 0 => Max({0, a}) = 0
  <2> TAKE a \in Int
  <2>1. \E x \in {0, a} : \A y \in {0, a} : x >= y
    OBVIOUS
  <2>2. Max({0, a}) \in {0, a} /\ \A y \in {0, a} : Max({0, a}) >= y
    BY <2>1 DEF Max
  <2>3. QED
    BY <2>2
<1>2. row.quantity - n \in Int /\ row.available - n \in Int
  OBVIOUS
<1>3. Max({0, row.quantity - n}) \in Nat /\ Max({0, row.available - n}) \in Nat
      /\ (row.available - n >= 0 => Max({0, row.available - n}) = row.available - n)
      /\ (row.available - n < 0 => Max({0, row.available - n}) = 0)
      /\ (row.quantity - n >= 0 => Max({0, row.quantity - n}) = row.quantity - n)
  BY <1>1, <1>2
<1>4. ASSUME n = 0 PROVE Less(row, n) = row
  <2>1. row.quantity - n = row.quantity /\ row.available - n = row.available
    BY <1>4
  <2>2. row.quantity >= 0 /\ row.available >= 0
    OBVIOUS
  <2>3. Less(row, n) = [quantity |-> row.quantity, available |-> row.available]
    BY <1>1, <2>1, <2>2 DEF Less
  <2>4. QED
    BY <2>3
<1>5. /\ Less(row, n) \in [quantity : Nat, available : Nat]
      /\ Less(row, n).available = Max({0, row.available - n})
  BY <1>3 DEF Less
<1>6. n <= row.available <=> row.available - n >= 0
  OBVIOUS
<1>7. ~(n <= row.available) <=> row.available - n < 0
  OBVIOUS
<1>8. QED
  BY <1>3, <1>4, <1>5, <1>6, <1>7

LEMMA WithoutType ==
  ASSUME NEW E, timeline \in Seq(E), NEW i \in DOMAIN timeline
  PROVE  /\ Without(i) \in Seq(E)
         /\ DOMAIN Without(i) = 1 .. Len(timeline) - 1
         /\ \A j \in 1 .. Len(timeline) - 1 :
              /\ j < i => Without(i)[j] = timeline[j]
              /\ j >= i => Without(i)[j] = timeline[j + 1]
<1>1. Len(timeline) \in Nat /\ DOMAIN timeline = 1 .. Len(timeline)
  OBVIOUS
<1>2. \A j \in 1 .. Len(timeline) - 1 : timeline[IF j < i THEN j ELSE j + 1] \in E
  <2> TAKE j \in 1 .. Len(timeline) - 1
  <2>1. (IF j < i THEN j ELSE j + 1) \in 1 .. Len(timeline)
    BY <1>1
  <2>2. QED
    BY <2>1
<1>3. Without(i) \in [1 .. Len(timeline) - 1 -> E]
  BY <1>2 DEF Without
<1>4. Len(timeline) - 1 \in Nat
  BY <1>1
<1>5. Without(i) \in Seq(E)
  BY <1>3, <1>4
<1>6. QED
  BY <1>1, <1>5 DEF Without

(***************************************************************************)
(* Type correctness.                                                       *)
(***************************************************************************)
Entry == Entries(Processes \cup {None})

ProcessTypes ==
  /\ pc \in [Processes -> Stages]
  /\ job \in [Processes -> Snapshots \cup {None}]
  /\ via \in [Processes -> {"confirm", "webhook"}]

LEMMA Leaves ==
  ASSUME ProcessTypes, NEW p \in Processes, Leave(p)
  PROVE  ProcessTypes' /\ pc'[p] \notin Working
BY DEF ProcessTypes, Leave, Stages, Working, Tx

LEMMA Gotos ==
  ASSUME ProcessTypes, NEW p \in Processes, NEW x \in Stages, Goto(p, x)
  PROVE  ProcessTypes' /\ pc'[p] = x
BY DEF ProcessTypes, Goto

LEMMA Succeeds ==
  ASSUME ProcessTypes, NEW p \in Processes, Succeed(p)
  PROVE  ProcessTypes' /\ (pc'[p] = "ack" \/ pc'[p] \notin Working)
<1>1. CASE Goto(p, "ack")
  BY <1>1, Gotos DEF Stages
<1>2. CASE Leave(p)
  BY <1>2, Leaves
<1>3. QED
  BY <1>1, <1>2 DEF Succeed

LEMMA Rollbacks ==
  ASSUME TypeOK, NEW p \in Processes, Rollback(p)
  PROVE  /\ ProcessTypes' /\ pc'[p] \notin Working
         /\ held' \in [Processes -> Nat] /\ seen' \in [Processes -> Nat]
         /\ usage' \in [Processes -> Nat] /\ timeline' \in Seq(Entry)
<1>1. ProcessTypes
  BY DEF TypeOK, ProcessTypes
<1>2. ProcessTypes' /\ pc'[p] \notin Working
  BY <1>1, Leaves DEF Rollback
<1>3. held' \in [Processes -> Nat] /\ seen' \in [Processes -> Nat] /\ usage' \in [Processes -> Nat]
  BY DEF Rollback, Release, TypeOK
<1>4. timeline' \in Seq(Entry)
  <2>1. CASE timeline' = timeline
    BY <2>1 DEF TypeOK, Entry
  <2>2. CASE \E i \in BegunAt(p) : timeline' = Without(i)
    <3>1. PICK i \in DOMAIN timeline : timeline' = Without(i)
      BY <2>2 DEF BegunAt
    <3>2. timeline \in Seq(Entry)
      BY DEF TypeOK, Entry
    <3>3. QED
      BY <3>1, <3>2, WithoutType
  <2>3. QED
    BY <2>1, <2>2 DEF Rollback
<1>5. QED
  BY <1>2, <1>3, <1>4

LEMMA TypeInit == Init => TypeOK
<1> SUFFICES ASSUME Init PROVE TypeOK
  OBVIOUS
<1>1. stock \in [Variants -> [quantity : Nat, available : Nat]]
  <2>1. PICK units \in Stocks :
          stock = [v \in Variants |-> [quantity |-> units[v] + Withheld[v], available |-> units[v]]]
    BY DEF Init
  <2>2. units \in [Variants -> Nat] /\ Withheld \in [Variants -> Nat]
    BY ConstantsAssumption
  <2>3. QED
    BY <2>1, <2>2
<1>2. items \in [Snapshots -> Seq(Lines)] /\ timeline \in Seq(Entry)
  BY DEF Init
<1>3. crashes \in 0 .. MaxCrashes
  BY Sorts DEF Init
<1>4. status \in [Snapshots -> SnapshotStatus] /\ pc \in [Processes -> Stages]
  BY DEF Init, SnapshotStatus, Stages
<1>5. QED
  BY <1>1, <1>2, <1>3, <1>4 DEF Init, TypeOK, Entry

LEMMA OutsideType == ASSUME TypeOK, Outside PROVE TypeOK'
<1>1. ASSUME NEW s \in Snapshots, CreateSnapshot(s) PROVE TypeOK'
  <2>1. items' \in [Snapshots -> Seq(Lines)]
    <3>1. PICK f \in Bijection(1 .. Cardinality(LinesOf(s)), LinesOf(s)) : items' = [items EXCEPT ![s] = f]
      BY <1>1 DEF CreateSnapshot
    <3>2. f \in Seq(Lines)
      BY Items
    <3>3. QED
      BY <3>1, <3>2 DEF TypeOK
  <2>2. status' \in [Snapshots -> SnapshotStatus]
    BY <1>1 DEF CreateSnapshot, TypeOK, SnapshotStatus
  <2>3. QED
    BY <1>1, <2>1, <2>2 DEF CreateSnapshot, TypeOK, database, process
<1>2. ASSUME NEW s \in Snapshots, SaveIntent(s) \/ Expire(s) \/ Pay(s) \/ Decline(s) PROVE TypeOK'
  <2>1. intent' \in [Snapshots -> {"none", "open", "succeeded"}]
    BY <1>2 DEF SaveIntent, Expire, Pay, Decline, TypeOK
  <2>2. late' \subseteq Snapshots /\ declined' \subseteq Snapshots
    BY <1>2 DEF SaveIntent, Expire, Pay, Decline, TypeOK
  <2>3. /\ status' = status /\ items' = items /\ cart' = cart /\ handled' = handled
        /\ stock' = stock /\ uses' = uses /\ timeline' = timeline /\ pc' = pc /\ job' = job
        /\ via' = via /\ held' = held /\ seen' = seen /\ usage' = usage /\ queue' = queue
        /\ crashes' = crashes
    BY <1>2 DEF SaveIntent, Expire, Pay, Decline, database, process
  <2>4. QED
    BY <2>1, <2>2, <2>3 DEF TypeOK
<1>3. ASSUME NEW s \in Snapshots, PaymentFailed(s) PROVE TypeOK'
  BY <1>3 DEF PaymentFailed, TypeOK, SnapshotStatus, database, process
<1>4. ASSUME NEW u \in Users, FillCart(u) PROVE TypeOK'
  BY <1>4 DEF FillCart, TypeOK, database, process
<1>5. CASE Cleanup
  BY <1>5 DEF Cleanup, TypeOK, SnapshotStatus, database, process
<1>6. CASE CronStart
  <2>1. queue' \subseteq Snapshots
    BY <1>6 DEF CronStart, Candidates
  <2>2. QED
    BY <1>6, <2>1 DEF CronStart, TypeOK, checkout, database
<1>7. QED
  BY <1>1, <1>2, <1>3, <1>4, <1>5, <1>6 DEF Outside

LEMMA InsideType == ASSUME TypeOK, Jobs, Transactions, NEW p \in Processes, Inside(p) PROVE TypeOK'
<1> USE Sorts
<1>0. ProcessTypes /\ timeline \in Seq(Entry)
  BY DEF TypeOK, ProcessTypes, Entry
<1>1. CASE p \in Requests /\ Request(p)
  <2>1. PICK s \in Snapshots : Enter(p, s, "confirm") \/ Enter(p, s, "webhook")
    BY <1>1 DEF Request
  <2>2. ProcessTypes'
    BY <1>0, <2>1 DEF Enter, ProcessTypes, Stages
  <2>3. QED
    BY <1>1, <2>2 DEF Request, TypeOK, ProcessTypes, checkout, database
<1>2. CASE p = Cron /\ \E s \in Snapshots : CronNext(s)
  <2>1. PICK s \in Snapshots : CronNext(s)
    BY <1>2
  <2>2. ProcessTypes'
    BY <1>0, <1>2, <2>1 DEF CronNext, Enter, ProcessTypes, Stages
  <2>3. status' \in [Snapshots -> SnapshotStatus] /\ queue' \subseteq Snapshots
    BY <2>1 DEF CronNext, TypeOK, SnapshotStatus
  <2>4. QED
    BY <2>1, <2>2, <2>3 DEF CronNext, TypeOK, ProcessTypes, database
<1>3. CASE Lookup(p) \/ Load(p)
  <2>1. ProcessTypes'
    <3>1. CASE Succeed(p)
      BY <1>0, <3>1, Succeeds
    <3>2. CASE Goto(p, "load") \/ Goto(p, "expire") \/ Goto(p, "process")
      BY <1>0, <3>2, Gotos DEF Stages
    <3>3. QED
      BY <1>3, <3>1, <3>2 DEF Lookup, Load
  <2>2. QED
    BY <1>3, <2>1 DEF Lookup, Load, TypeOK, ProcessTypes, checkout, database
<1>4. CASE SaveExpired(p)
  <2>1. ProcessTypes'
    BY <1>0, <1>4, Leaves DEF SaveExpired
  <2>2. status' \in [Snapshots -> SnapshotStatus]
    BY <1>4 DEF SaveExpired, TypeOK, SnapshotStatus
  <2>3. QED
    BY <1>4, <2>1, <2>2 DEF SaveExpired, TypeOK, ProcessTypes, database
<1>5. CASE SaveProcessing(p)
  <2>1. ProcessTypes'
    BY <1>0, <1>5, Gotos DEF SaveProcessing, SaveStatus, Stages
  <2>2. status' \in [Snapshots -> SnapshotStatus]
    BY <1>5 DEF SaveProcessing, SaveStatus, TypeOK, SnapshotStatus
  <2>3. QED
    BY <1>5, <2>1, <2>2 DEF SaveProcessing, SaveStatus, TypeOK, ProcessTypes, database
<1>6. CASE BeginTx(p)
  <2>1. ProcessTypes'
    BY <1>0, <1>6, Gotos DEF BeginTx, Stages
  <2>2. job[p] \in Snapshots
    BY <1>6 DEF BeginTx, Jobs, Working
  <2>3. [by |-> p, snapshot |-> job[p], number |-> 0] \in Entry
    BY <2>2 DEF Entry, Entries
  <2>4. timeline' \in Seq(Entry)
    BY <1>0, <1>6, <2>3 DEF BeginTx
  <2>5. QED
    BY <1>6, <2>1, <2>4 DEF BeginTx, TypeOK, ProcessTypes, checkout, Entry
<1>7. CASE LockRow(p)
  <2>1. CASE Rollback(p)
    <3>1. ProcessTypes' /\ held' \in [Processes -> Nat] /\ seen' \in [Processes -> Nat]
          /\ usage' \in [Processes -> Nat] /\ timeline' \in Seq(Entry)
      BY <2>1, Rollbacks
    <3>2. QED
      BY <1>7, <3>1 DEF LockRow, TypeOK, ProcessTypes, checkout, Entry
  <2>2. CASE \E x \in {"lock", "number"} : Goto(p, x) /\ held' = [held EXCEPT ![p] = held[p] + 1]
             /\ UNCHANGED <<timeline, seen, usage>>
    <3>1. ProcessTypes'
      BY <1>0, <2>2, Gotos DEF Stages
    <3>2. held' \in [Processes -> Nat]
      BY <2>2 DEF TypeOK
    <3>3. QED
      BY <1>7, <2>2, <3>1, <3>2 DEF LockRow, TypeOK, ProcessTypes, checkout
  <2>3. QED
    BY <1>7, <2>1, <2>2 DEF LockRow
<1>8. CASE BreakDeadlock(p) \/ CommitFails(p) \/ Crash(p)
  <2>1. Rollback(p)
    BY <1>8 DEF BreakDeadlock, CommitFails, Crash
  <2>2. ProcessTypes' /\ held' \in [Processes -> Nat] /\ seen' \in [Processes -> Nat]
        /\ usage' \in [Processes -> Nat] /\ timeline' \in Seq(Entry)
    BY <2>1, Rollbacks
  <2>3. queue' \subseteq Snapshots /\ crashes' \in 0 .. MaxCrashes
    BY <1>8 DEF BreakDeadlock, CommitFails, Crash, TypeOK
  <2>4. QED
    BY <1>8, <2>2, <2>3 DEF BreakDeadlock, CommitFails, Crash, TypeOK, ProcessTypes, checkout, Entry
<1>9. CASE ReadNumber(p)
  <2>1. ProcessTypes'
    <3>1. (IF job[p] \in Couponed THEN "coupon" ELSE "commit") \in Stages
      BY DEF Stages
    <3>2. QED
      BY <1>0, <1>9, <3>1, Gotos DEF ReadNumber
  <2>2. LastNumber \in Nat
    <3>1. CASE OrderAt = {}
      BY <3>1 DEF LastNumber
    <3>2. CASE OrderAt # {}
      <4>1. OrderAt \subseteq DOMAIN timeline /\ DOMAIN timeline = 1 .. Len(timeline) /\ Len(timeline) \in Nat
        BY <1>0 DEF OrderAt
      <4>2. OrderAt \in SUBSET (1 .. Len(timeline))
        BY <4>1
      <4>3. Max(OrderAt) \in OrderAt
        <5>1. \E x \in OrderAt : \A y \in OrderAt : x >= y
          BY <3>2, <4>1, <4>2, GreatestExists
        <5>2. QED
          BY <5>1 DEF Max
      <4>4. timeline[Max(OrderAt)] \in Entry
        BY <1>0, <4>1, <4>3
      <4>5. timeline[Max(OrderAt)].number \in Nat
        BY <4>4 DEF Entry, Entries
      <4>6. QED
        BY <3>2, <4>5 DEF LastNumber
    <3>3. QED
      BY <3>1, <3>2
  <2>3. seen' \in [Processes -> Nat]
    BY <1>9, <2>2 DEF ReadNumber, TypeOK
  <2>4. QED
    BY <1>9, <2>1, <2>3 DEF ReadNumber, TypeOK, ProcessTypes, checkout, database
<1>10. CASE Commit(p)
  <2>1. job[p] \in Snapshots
    BY <1>10 DEF Commit, Jobs, Working, Tx
  <2>2. ProcessTypes'
    BY <1>0, <1>10, Succeeds DEF Commit
  <2>3. timeline' \in Seq(Entry)
    <3>1. [by |-> None, snapshot |-> job[p], number |-> seen[p]] \in Entry
      BY <2>1 DEF Entry, Entries, TypeOK
    <3>2. timeline' \in [1 .. Len(timeline) -> Entry] /\ Len(timeline) \in Nat
      BY <1>0, <1>10, <3>1 DEF Commit
    <3>3. QED
      BY <3>2
  <2>4. stock' \in [Variants -> [quantity : Nat, available : Nat]]
    <3>1. \A v \in Variants : Less(stock[v], Wants(job[p], v)) \in [quantity : Nat, available : Nat]
      BY WantsType, LessType DEF TypeOK
    <3>2. QED
      BY <1>10, <3>1 DEF Commit, TypeOK
  <2>5. uses' \in Nat /\ status' \in [Snapshots -> SnapshotStatus] /\ cart' \subseteq Users
    BY <1>10, <2>1 DEF Commit, TypeOK, SnapshotStatus
  <2>6. held' \in [Processes -> Nat] /\ seen' \in [Processes -> Nat] /\ usage' \in [Processes -> Nat]
    BY <1>10 DEF Commit, Release, TypeOK
  <2>7. QED
    BY <1>10, <2>2, <2>3, <2>4, <2>5, <2>6 DEF Commit, TypeOK, ProcessTypes, Entry
<1>11. CASE Ack(p)
  <2>1. job[p] \in Snapshots
    BY <1>11 DEF Ack, Jobs, Working
  <2>2. ProcessTypes'
    BY <1>0, <1>11, Leaves DEF Ack
  <2>3. handled' \subseteq Snapshots
    BY <1>11, <2>1 DEF Ack, TypeOK
  <2>4. QED
    BY <1>11, <2>2, <2>3 DEF Ack, TypeOK, ProcessTypes, checkout
<1>12. CASE LockCoupon(p)
  <2>1. ProcessTypes'
    BY <1>0, <1>12, Gotos DEF LockCoupon, Stages
  <2>2. usage' \in [Processes -> Nat]
    BY <1>12 DEF LockCoupon, TypeOK
  <2>3. QED
    BY <1>12, <2>1, <2>2 DEF LockCoupon, TypeOK, ProcessTypes, checkout, database
<1>13. QED
  BY <1>1, <1>2, <1>3, <1>4, <1>5, <1>6, <1>7, <1>8, <1>9, <1>10, <1>11, <1>12 DEF Inside, Step


(***************************************************************************)
(* What a step leaves alone.                                               *)
(***************************************************************************)
LEMMA OutsideFrame ==
  ASSUME TypeOK, Saved, Outside
  PROVE  /\ stock' = stock /\ uses' = uses /\ timeline' = timeline /\ handled' = handled
         /\ pc' = pc /\ job' = job /\ via' = via /\ held' = held /\ seen' = seen /\ usage' = usage
         /\ \A s \in Snapshots : Captured(s) => Captured(s)' /\ items'[s] = items[s]
<1>1. /\ stock' = stock /\ uses' = uses /\ timeline' = timeline /\ handled' = handled
      /\ pc' = pc /\ job' = job /\ via' = via /\ held' = held /\ seen' = seen /\ usage' = usage
  BY DEF Outside, CreateSnapshot, SaveIntent, Expire, Pay, Decline, PaymentFailed, FillCart, Cleanup,
     CronStart, database, process
<1>2. ASSUME NEW s \in Snapshots, Captured(s) PROVE Captured(s)' /\ items'[s] = items[s]
  <2>1. status[s] # "NONE" /\ intent[s] = "succeeded"
    BY <1>2 DEF Captured, Saved
  <2>2. ASSUME NEW t \in Snapshots, CreateSnapshot(t)
        PROVE  Captured(s)' /\ items'[s] = items[s]
    <3>1. t # s /\ intent' = intent
      BY <2>1, <2>2 DEF CreateSnapshot
    <3>2. items'[s] = items[s]
      BY <2>2, <3>1 DEF CreateSnapshot, TypeOK
    <3>3. QED
      BY <2>1, <3>1, <3>2 DEF Captured
  <2>3. ASSUME NEW t \in Snapshots, SaveIntent(t) \/ Pay(t)
        PROVE  Captured(s)' /\ items'[s] = items[s]
    BY <2>1, <2>3 DEF SaveIntent, Pay, Captured, TypeOK
  <2>4. CASE intent' = intent /\ items' = items
    BY <2>1, <2>4 DEF Captured
  <2>5. QED
    BY <2>2, <2>3, <2>4 DEF Outside, Expire, Decline, PaymentFailed, FillCart, Cleanup, CronStart, checkout
<1>3. QED
  BY <1>1, <1>2

LEMMA InsideFrame ==
  ASSUME TypeOK, NEW p \in Processes, Inside(p)
  PROVE  /\ items' = items /\ intent' = intent /\ late' = late /\ declined' = declined
         /\ \A q \in Processes : q # p =>
              /\ pc'[q] = pc[q] /\ job'[q] = job[q] /\ via'[q] = via[q]
              /\ held'[q] = held[q] /\ seen'[q] = seen[q] /\ usage'[q] = usage[q]
<1>1. items' = items /\ intent' = intent /\ late' = late /\ declined' = declined
  BY DEF Inside, Request, CronNext, Step, Lookup, Load, SaveExpired, SaveProcessing, SaveStatus, BeginTx,
     LockRow, BreakDeadlock, ReadNumber, LockCoupon, Commit, CommitFails, Ack, Crash, checkout
<1>2. ASSUME NEW q \in Processes, q # p
      PROVE  /\ pc'[q] = pc[q] /\ job'[q] = job[q] /\ via'[q] = via[q]
             /\ held'[q] = held[q] /\ seen'[q] = seen[q] /\ usage'[q] = usage[q]
  <2>1. ASSUME NEW x, Goto(p, x) PROVE pc'[q] = pc[q] /\ job'[q] = job[q] /\ via'[q] = via[q]
    BY <1>2, <2>1 DEF Goto, TypeOK
  <2>2. ASSUME Leave(p) PROVE pc'[q] = pc[q] /\ job'[q] = job[q] /\ via'[q] = via[q]
    BY <1>2, <2>2 DEF Leave, TypeOK
  <2>3. ASSUME NEW s, NEW x, Enter(p, s, x) PROVE pc'[q] = pc[q] /\ job'[q] = job[q] /\ via'[q] = via[q]
    BY <1>2, <2>3 DEF Enter, TypeOK
  <2>4. ASSUME Succeed(p) PROVE pc'[q] = pc[q] /\ job'[q] = job[q] /\ via'[q] = via[q]
    BY <2>1, <2>2, <2>4 DEF Succeed
  <2>5. pc'[q] = pc[q] /\ job'[q] = job[q] /\ via'[q] = via[q]
    BY <2>1, <2>2, <2>3, <2>4 DEF Inside, Request, CronNext, Step, Lookup, Load, SaveExpired,
       SaveProcessing, SaveStatus, BeginTx, LockRow, BreakDeadlock, ReadNumber, LockCoupon, Commit, CommitFails,
       Ack, Crash, Rollback
  <2>6. ASSUME Release(p) PROVE held'[q] = held[q] /\ seen'[q] = seen[q] /\ usage'[q] = usage[q]
    BY <1>2, <2>6 DEF Release, TypeOK
  <2>7. held'[q] = held[q] /\ seen'[q] = seen[q] /\ usage'[q] = usage[q]
    BY <1>2, <2>6 DEF Inside, Request, CronNext, Step, Lookup, Load, SaveExpired,
       SaveProcessing, SaveStatus, BeginTx, LockRow, BreakDeadlock, ReadNumber, LockCoupon, Commit, CommitFails,
       Ack, Crash, Rollback, TypeOK
  <2>8. QED
    BY <2>5, <2>7
<1>3. QED
  BY <1>1, <1>2

(***************************************************************************)
(* Snapshots and jobs.                                                     *)
(***************************************************************************)
LEMMA SavedNext ==
  ASSUME TypeOK, Saved, Jobs, Outside \/ \E p \in Processes : Inside(p)
  PROVE  Saved'
<1> SUFFICES ASSUME NEW s \in Snapshots
             PROVE  /\ status'[s] # "NONE" => items'[s] \in Bijection(1 .. Cardinality(LinesOf(s)), LinesOf(s))
                    /\ intent'[s] # "none" \/ s \in declined' \/ s \in queue' => status'[s] # "NONE"
  BY DEF Saved, LinesOf
<1>1. CASE /\ items'[s] = items[s] /\ (status'[s] = "NONE" <=> status[s] = "NONE")
           /\ intent'[s] # "none" \/ s \in declined' \/ s \in queue' =>
                intent[s] # "none" \/ s \in declined \/ s \in queue \/ status[s] # "NONE"
  BY <1>1 DEF Saved
<1>2. ASSUME NEW t \in Snapshots, CreateSnapshot(t)
      PROVE  /\ status'[s] # "NONE" => items'[s] \in Bijection(1 .. Cardinality(LinesOf(s)), LinesOf(s))
             /\ intent'[s] # "none" \/ s \in declined' \/ s \in queue' => status'[s] # "NONE"
  <2>1. intent' = intent /\ declined' = declined /\ queue' = queue
    BY <1>2 DEF CreateSnapshot, process
  <2>2. CASE s = t
    BY <1>2, <2>1, <2>2 DEF CreateSnapshot, TypeOK
  <2>3. CASE s # t
    <3>1. items'[s] = items[s] /\ status'[s] = status[s]
      BY <1>2, <2>3 DEF CreateSnapshot, TypeOK
    <3>2. QED
      BY <1>1, <2>1, <3>1
  <2>4. QED
    BY <2>2, <2>3
<1>3. CASE \E t \in Snapshots : SaveIntent(t) \/ Expire(t) \/ Pay(t) \/ Decline(t)
  <2>1. PICK t \in Snapshots : SaveIntent(t) \/ Expire(t) \/ Pay(t) \/ Decline(t)
    BY <1>3
  <2>2. items' = items /\ status' = status /\ queue' = queue
    BY <2>1 DEF SaveIntent, Expire, Pay, Decline, process
  <2>3. intent'[s] # "none" \/ s \in declined' => intent[s] # "none" \/ s \in declined \/ status[s] # "NONE"
    BY <2>1 DEF SaveIntent, Expire, Pay, Decline, TypeOK
  <2>4. QED
    BY <1>1, <2>2, <2>3
<1>4. CASE \E t \in Snapshots : PaymentFailed(t)
  <2>1. PICK t \in Snapshots : PaymentFailed(t)
    BY <1>4
  <2>2. status[t] # "NONE"
    BY <2>1 DEF PaymentFailed, Saved
  <2>3. QED
    BY <1>1, <2>1, <2>2 DEF PaymentFailed, TypeOK, process
<1>5. CASE \E u \in Users : FillCart(u)
  BY <1>1, <1>5 DEF FillCart, process
<1>6. CASE Cleanup
  BY <1>1, <1>6 DEF Cleanup, process
<1>7. CASE CronStart
  BY <1>1, <1>7 DEF CronStart, Candidates, checkout
<1>8. ASSUME NEW p \in Processes, Inside(p)
      PROVE  /\ status'[s] # "NONE" => items'[s] \in Bijection(1 .. Cardinality(LinesOf(s)), LinesOf(s))
             /\ intent'[s] # "none" \/ s \in declined' \/ s \in queue' => status'[s] # "NONE"
  <2>1. items' = items /\ intent' = intent /\ declined' = declined
    BY <1>8, InsideFrame
  <2>2. s \in queue' => s \in queue
    BY <1>8 DEF Inside, Request, CronNext, Step, Lookup, Load, SaveExpired, SaveProcessing, SaveStatus,
       BeginTx, LockRow, BreakDeadlock, ReadNumber, LockCoupon, Commit, CommitFails, Ack, Crash
  <2>3. status'[s] = "NONE" <=> status[s] = "NONE"
    <3>1. CASE SaveExpired(p) \/ SaveProcessing(p) \/ Commit(p)
      <4>1. job[p] \in Snapshots /\ Captured(job[p])
        BY <3>1 DEF SaveExpired, SaveProcessing, SaveStatus, Commit, Jobs, Working, Tx
      <4>2. status[job[p]] # "NONE"
        BY <4>1 DEF Captured, Saved
      <4>3. QED
        BY <3>1, <4>1, <4>2 DEF SaveExpired, SaveProcessing, SaveStatus, Commit, TypeOK
    <3>2. CASE \E t \in Snapshots : CronNext(t)
      BY <3>2 DEF CronNext, Saved, TypeOK
    <3>3. CASE status' = status
      BY <3>3
    <3>4. QED
      BY <1>8, <3>1, <3>2, <3>3 DEF Inside, Request, Step, Lookup, Load, BeginTx, LockRow,
         BreakDeadlock, ReadNumber, LockCoupon, CommitFails, Ack, Crash, checkout
  <2>4. QED
    BY <1>1, <2>1, <2>2, <2>3
<1>9. QED
  BY <1>2, <1>3, <1>4, <1>5, <1>6, <1>7, <1>8 DEF Outside

LEMMA JobsNext ==
  ASSUME TypeOK, Saved, Jobs, Outside \/ \E p \in Processes : Inside(p)
  PROVE  Jobs'
<1> SUFFICES ASSUME NEW q \in Processes, pc'[q] \in Working
             PROVE  job'[q] \in Snapshots /\ Captured(job[q])'
  BY DEF Jobs
<1>1. CASE Outside
  <2>1. pc[q] \in Working /\ job'[q] = job[q]
    BY <1>1, OutsideFrame
  <2>2. PICK s \in Snapshots : s = job[q] /\ Captured(s)
    BY <2>1 DEF Jobs
  <2>3. Captured(s)' /\ Captured(job[q])' = Captured(s)'
    BY <1>1, <2>1, <2>2, OutsideFrame
  <2>4. QED
    BY <2>1, <2>2, <2>3
<1>2. ASSUME NEW p \in Processes, Inside(p)
      PROVE  job'[q] \in Snapshots /\ Captured(job[q])'
  <2>1. intent' = intent
    BY <1>2, InsideFrame
  <2>2. CASE pc[q] \in Working /\ job'[q] = job[q]
    BY <2>1, <2>2 DEF Jobs, Captured
  <2>3. CASE q # p
    BY <1>2, <2>2, <2>3, InsideFrame
  <2>4. ASSUME q = p, NEW s \in Snapshots, Captured(s), job' = [job EXCEPT ![p] = s]
        PROVE  job'[q] \in Snapshots /\ Captured(job[q])'
    BY <2>1, <2>4 DEF Captured, TypeOK
  <2>5. ASSUME q = p, NEW x, Goto(p, x), pc[p] \in Working
        PROVE  job'[q] \in Snapshots /\ Captured(job[q])'
    BY <2>2, <2>5 DEF Goto
  <2>6. CASE q = p /\ Leave(p)
    BY <2>6, Leaves DEF TypeOK, ProcessTypes
  <2>7. CASE q = p /\ Succeed(p) /\ pc[p] \in Working
    BY <2>5, <2>6, <2>7 DEF Succeed
  <2>8. CASE q = p /\ p \in Requests /\ Request(p)
    BY <2>4, <2>8 DEF Request, Enter
  <2>9. CASE q = p /\ p = Cron /\ \E s \in Snapshots : CronNext(s)
    <3>1. PICK s \in Snapshots : CronNext(s)
      BY <2>9
    <3>2. CASE Captured(s) /\ Enter(Cron, s, "confirm")
      BY <2>4, <2>9, <3>2 DEF Enter
    <3>3. CASE UNCHANGED <<pc, job, via>>
      BY <2>2, <2>9, <3>3
    <3>4. QED
      BY <3>1, <3>2, <3>3 DEF CronNext
  <2>10. CASE q = p /\ Step(p)
    BY <2>5, <2>6, <2>7, <2>10 DEF Step, Lookup, Load, SaveExpired, SaveProcessing, SaveStatus,
       BeginTx, LockRow, BreakDeadlock, ReadNumber, LockCoupon, Commit, CommitFails, Ack, Rollback, Working, Tx
  <2>11. CASE q = p /\ Crash(p)
    BY <2>6, <2>11 DEF Crash, Rollback
  <2>12. QED
    BY <1>2, <2>3, <2>8, <2>9, <2>10, <2>11 DEF Inside
<1>3. QED
  BY <1>1, <1>2

(***************************************************************************)
(* Transactions.                                                           *)
(***************************************************************************)
Back(i, j) == IF j < i THEN j ELSE j + 1

(* The other entries move up by one, and nothing else happens to them.     *)
LEMMA Shift ==
  ASSUME TypeOK, NEW i \in DOMAIN timeline, timeline' = Without(i)
  PROVE  /\ \A j \in DOMAIN timeline' :
              /\ Back(i, j) \in DOMAIN timeline /\ Back(i, j) # i
              /\ timeline'[j] = timeline[Back(i, j)]
         /\ \A k \in DOMAIN timeline : k # i => \E j \in DOMAIN timeline' : Back(i, j) = k
         /\ \A j, k \in DOMAIN timeline' : Back(i, j) = Back(i, k) => j = k
<1>1. timeline \in Seq(Entry) /\ Len(timeline) \in Nat /\ DOMAIN timeline = 1 .. Len(timeline)
  BY DEF TypeOK, Entry
<1>2. /\ DOMAIN timeline' = 1 .. Len(timeline) - 1
      /\ \A j \in DOMAIN timeline' :
           /\ j < i => timeline'[j] = timeline[j]
           /\ j >= i => timeline'[j] = timeline[j + 1]
  BY <1>1, WithoutType
<1>3. \A j \in DOMAIN timeline' : Back(i, j) \in DOMAIN timeline /\ Back(i, j) # i
                                  /\ timeline'[j] = timeline[Back(i, j)]
  BY <1>1, <1>2 DEF Back
<1>4. \A k \in DOMAIN timeline : k # i => \E j \in DOMAIN timeline' : Back(i, j) = k
  <2> TAKE k \in DOMAIN timeline
  <2> HAVE k # i
  <2>1. CASE k < i
    <3>1. k \in DOMAIN timeline' /\ Back(i, k) = k
      BY <1>1, <1>2, <2>1 DEF Back
    <3>2. QED
      BY <3>1
  <2>2. CASE k > i
    <3>1. k - 1 \in DOMAIN timeline' /\ Back(i, k - 1) = k
      BY <1>1, <1>2, <2>2 DEF Back
    <3>2. QED
      BY <3>1
  <2>3. QED
    BY <1>1, <2>1, <2>2
<1>5. \A j, k \in DOMAIN timeline' : Back(i, j) = Back(i, k) => j = k
  BY <1>1, <1>2 DEF Back
<1>6. QED
  BY <1>3, <1>4, <1>5

(* What the steps of a process do to the timeline.                         *)
Still(p) ==
  timeline' = timeline /\ (pc'[p] \in Tx <=> pc[p] \in Tx) /\ (pc[p] \in Tx => job'[p] = job[p])
Begins(p) ==
  /\ pc[p] = "begin" /\ pc'[p] = "lock" /\ job'[p] = job[p]
  /\ timeline' = Append(timeline, [by |-> p, snapshot |-> job[p], number |-> 0])
Undoes(p) == pc'[p] \notin Tx /\ \E i \in BegunAt(p) : timeline' = Without(i)
Commits(p) ==
  /\ Commit(p) /\ pc'[p] \notin Tx
  /\ timeline' = [i \in DOMAIN timeline |->
                    IF timeline[i].by = p
                    THEN [by |-> None, snapshot |-> job[p], number |-> seen[p]] ELSE timeline[i]]

LEMMA Timelines ==
  ASSUME TypeOK, Transactions, NEW p \in Processes, Inside(p)
  PROVE  Still(p) \/ Begins(p) \/ Undoes(p) \/ Commits(p)
<1>0. ProcessTypes
  BY DEF TypeOK, ProcessTypes
<1>1. ASSUME Leave(p) PROVE pc'[p] \notin Tx
  BY <1>0, <1>1, Leaves DEF Working
<1>2. ASSUME NEW x, Goto(p, x) PROVE pc'[p] = x /\ job' = job
  BY <1>0, <1>2 DEF Goto, ProcessTypes
<1>3. ASSUME Succeed(p) PROVE pc'[p] \notin Tx
  BY <1>0, <1>3, Succeeds DEF Working, Tx
<1>4. CASE Rollback(p)
  <2>1. pc'[p] \notin Tx
    BY <1>1, <1>4 DEF Rollback
  <2>2. CASE BegunAt(p) = {} /\ timeline' = timeline
    <3>1. pc[p] \notin Tx
      BY <2>2 DEF BegunAt, Transactions
    <3>2. QED
      BY <2>1, <2>2, <3>1 DEF Still
  <2>3. CASE \E i \in BegunAt(p) : timeline' = Without(i)
    BY <2>1, <2>3 DEF Undoes
  <2>4. QED
    BY <1>4, <2>2, <2>3 DEF Rollback
<1>5. CASE p \in Requests /\ Request(p)
  <2>1. pc[p] = "idle" /\ pc'[p] = "lookup" /\ timeline' = timeline
    BY <1>0, <1>5 DEF Request, Enter, ProcessTypes, database
  <2>2. QED
    BY <2>1 DEF Still, Tx
<1>6. CASE p = Cron /\ \E s \in Snapshots : CronNext(s)
  <2>1. pc[p] = "idle" /\ pc'[p] \in {"idle", "lookup"} /\ timeline' = timeline
    BY <1>0, <1>6 DEF CronNext, Enter, ProcessTypes, database
  <2>2. QED
    BY <2>1 DEF Still, Tx
<1>7. CASE Lookup(p) \/ Load(p)
  <2>1. pc[p] \in {"lookup", "load"} /\ timeline' = timeline
    BY <1>7 DEF Lookup, Load, database
  <2>2. pc'[p] \notin Tx
    BY <1>2, <1>3, <1>7 DEF Lookup, Load, Tx
  <2>3. QED
    BY <2>1, <2>2 DEF Still, Tx
<1>8. CASE SaveExpired(p) \/ SaveProcessing(p)
  <2>1. pc[p] \in {"expire", "process"} /\ timeline' = timeline
    BY <1>8 DEF SaveExpired, SaveProcessing, SaveStatus, database
  <2>2. pc'[p] \notin Tx
    BY <1>1, <1>2, <1>8 DEF SaveExpired, SaveProcessing, SaveStatus, Tx
  <2>3. QED
    BY <2>1, <2>2 DEF Still, Tx
<1>9. CASE BeginTx(p)
  BY <1>2, <1>9 DEF BeginTx, Begins
<1>10. CASE LockRow(p) /\ ~Rollback(p)
  <2>1. pc[p] = "lock" /\ timeline' = timeline /\ \E x \in {"lock", "number"} : Goto(p, x)
    BY <1>10 DEF LockRow
  <2>2. pc'[p] \in {"lock", "number"} /\ job' = job
    BY <1>2, <2>1
  <2>3. QED
    BY <2>1, <2>2 DEF Still, Tx
<1>11. CASE ReadNumber(p)
  <2>1. pc[p] = "number" /\ pc'[p] \in {"coupon", "commit"} /\ job' = job /\ timeline' = timeline
    BY <1>2, <1>11 DEF ReadNumber, database
  <2>2. QED
    BY <2>1 DEF Still, Tx
<1>12. CASE Commit(p)
  BY <1>3, <1>12 DEF Commit, Commits
<1>13. CASE Ack(p)
  <2>1. pc[p] = "ack" /\ timeline' = timeline /\ pc'[p] \notin Tx
    BY <1>1, <1>13 DEF Ack
  <2>2. QED
    BY <2>1 DEF Still, Tx
<1>14. CASE LockCoupon(p)
  <2>1. pc[p] = "coupon" /\ pc'[p] = "commit" /\ job' = job /\ timeline' = timeline
    BY <1>2, <1>14 DEF LockCoupon, database
  <2>2. QED
    BY <2>1 DEF Still, Tx
<1>15. QED
  BY <1>4, <1>5, <1>6, <1>7, <1>8, <1>9, <1>10, <1>11, <1>12, <1>13, <1>14
     DEF Inside, Step, BreakDeadlock, CommitFails, Crash

LEMMA TransactionsNext ==
  ASSUME TypeOK, Jobs, Transactions, NEW p \in Processes, Inside(p)
  PROVE  Transactions'
<1>1. timeline \in Seq(Entry) /\ Len(timeline) \in Nat /\ DOMAIN timeline = 1 .. Len(timeline)
      /\ None \notin Processes
  BY Sorts DEF TypeOK, Entry
<1>2. SUFFICES ASSUME NEW q \in Processes
               PROVE  /\ pc'[q] \in Tx => \E i \in DOMAIN timeline' : timeline'[i].by = q
                      /\ \A i \in DOMAIN timeline' :
                           timeline'[i].by = q => pc'[q] \in Tx /\ timeline'[i].snapshot = job'[q]
                      /\ \A i, j \in DOMAIN timeline' :
                           timeline'[i].by = q /\ timeline'[j].by = q => i = j
  BY DEF Transactions
<1>3. /\ pc[q] \in Tx => \E i \in DOMAIN timeline : timeline[i].by = q
      /\ \A i \in DOMAIN timeline : timeline[i].by = q => pc[q] \in Tx /\ timeline[i].snapshot = job[q]
      /\ \A i, j \in DOMAIN timeline : timeline[i].by = q /\ timeline[j].by = q => i = j
  BY DEF Transactions
<1>4. q # p => pc'[q] = pc[q] /\ job'[q] = job[q]
  BY InsideFrame
<1>5. CASE Still(p)
  BY <1>3, <1>4, <1>5 DEF Still
<1>6. CASE Begins(p)
  <2>1. /\ DOMAIN timeline' = 1 .. Len(timeline) + 1
        /\ \A i \in 1 .. Len(timeline) : timeline'[i] = timeline[i]
        /\ timeline'[Len(timeline) + 1] = [by |-> p, snapshot |-> job[p], number |-> 0]
    BY <1>1, <1>6 DEF Begins
  <2>2. timeline'[Len(timeline) + 1].by = p /\ timeline'[Len(timeline) + 1].snapshot = job[p]
    BY <2>1
  <2>3. CASE q = p
    <3>1. pc[q] \notin Tx /\ pc'[q] \in Tx /\ job'[q] = job[q]
      BY <1>6, <2>3 DEF Begins, Tx
    <3>2. \A i \in 1 .. Len(timeline) : timeline[i].by # q
      BY <1>1, <1>3, <3>1
    <3>3. \A i \in DOMAIN timeline' : timeline'[i].by = q => i = Len(timeline) + 1
      BY <1>1, <2>1, <3>2
    <3>4. Len(timeline) + 1 \in DOMAIN timeline'
      BY <1>1, <2>1
    <3>5. QED
      BY <2>2, <2>3, <3>1, <3>3, <3>4
  <2>4. CASE q # p
    <3>1. \A i \in DOMAIN timeline' : timeline'[i].by = q =>
            i \in DOMAIN timeline /\ timeline'[i] = timeline[i]
      BY <1>1, <2>1, <2>2, <2>4
    <3>2. \A i \in DOMAIN timeline : i \in DOMAIN timeline' /\ timeline'[i] = timeline[i]
      BY <1>1, <2>1
    <3>3. QED
      BY <1>3, <1>4, <2>4, <3>1, <3>2
  <2>5. QED
    BY <2>3, <2>4
<1>7. CASE Undoes(p)
  <2>1. PICK i \in DOMAIN timeline : timeline[i].by = p /\ timeline' = Without(i)
    BY <1>7 DEF Undoes, BegunAt
  <2>2. /\ \A j \in DOMAIN timeline' :
             /\ Back(i, j) \in DOMAIN timeline /\ Back(i, j) # i
             /\ timeline'[j] = timeline[Back(i, j)]
        /\ \A k \in DOMAIN timeline : k # i => \E j \in DOMAIN timeline' : Back(i, j) = k
        /\ \A j, k \in DOMAIN timeline' : Back(i, j) = Back(i, k) => j = k
    BY <2>1, Shift
  <2>3. CASE q = p
    <3>1. \A j \in DOMAIN timeline' : timeline'[j].by # q
      BY <1>3, <2>1, <2>2, <2>3
    <3>2. pc'[q] \notin Tx
      BY <1>7, <2>3 DEF Undoes
    <3>3. QED
      BY <3>1, <3>2
  <2>4. CASE q # p
    <3>1. pc'[q] \in Tx => \E j \in DOMAIN timeline' : timeline'[j].by = q
      BY <1>3, <1>4, <2>1, <2>2, <2>4
    <3>2. \A j \in DOMAIN timeline' : timeline'[j].by = q => pc'[q] \in Tx /\ timeline'[j].snapshot = job'[q]
      BY <1>3, <1>4, <2>2, <2>4
    <3>3. \A j, k \in DOMAIN timeline' : timeline'[j].by = q /\ timeline'[k].by = q => j = k
      BY <1>3, <2>2
    <3>4. QED
      BY <3>1, <3>2, <3>3
  <2>5. QED
    BY <2>3, <2>4
<1>8. CASE Commits(p)
  <2>1. DOMAIN timeline' = DOMAIN timeline
    BY <1>8 DEF Commits
  <2>2. \A i \in DOMAIN timeline :
          /\ timeline[i].by = p => timeline'[i].by = None
          /\ timeline[i].by # p => timeline'[i] = timeline[i]
    BY <1>8 DEF Commits
  <2>3. CASE q = p
    <3>1. \A i \in DOMAIN timeline' : timeline'[i].by # q
      BY <1>1, <2>1, <2>2, <2>3
    <3>2. pc'[q] \notin Tx
      BY <1>8, <2>3 DEF Commits
    <3>3. QED
      BY <3>1, <3>2
  <2>4. CASE q # p
    <3>1. \A i \in DOMAIN timeline : timeline'[i].by = q <=> timeline[i].by = q
      BY <1>1, <2>2, <2>4
    <3>2. \A i \in DOMAIN timeline : timeline[i].by = q => timeline'[i] = timeline[i]
      BY <2>2, <2>4
    <3>3. QED
      BY <1>3, <1>4, <2>1, <2>4, <3>1, <3>2
  <2>5. QED
    BY <2>3, <2>4
<1>9. QED
  BY <1>5, <1>6, <1>7, <1>8, Timelines


LEMMA TransactionsStay ==
  ASSUME Transactions, UNCHANGED <<timeline, pc, job>>
  PROVE  Transactions'
BY DEF Transactions

(* What every step relies on, and keeps.                                   *)
Core == TypeOK /\ Saved /\ Jobs /\ Transactions

LEMMA CoreInit == Init => Core
<1> SUFFICES ASSUME Init PROVE Core
  OBVIOUS
<1>1. TypeOK
  BY TypeInit
<1>2. Saved
  BY DEF Init, Saved
<1>3. Jobs /\ Transactions
  BY DEF Init, Jobs, Transactions, Working, Tx
<1>4. QED
  BY <1>1, <1>2, <1>3 DEF Core

LEMMA CoreNext == Core /\ [Next]_vars => Core'
<1>1. ASSUME Core, Next PROVE Core'
  <2>1. CASE Outside
    <3>1. TypeOK'
      BY <1>1, <2>1, OutsideType DEF Core
    <3>2. Saved' /\ Jobs'
      BY <1>1, <2>1, SavedNext, JobsNext DEF Core
    <3>3. Transactions'
      <4>1. UNCHANGED <<timeline, pc, job>>
        BY <1>1, <2>1, OutsideFrame DEF Core
      <4>2. QED
        BY <1>1, <4>1, TransactionsStay DEF Core
    <3>4. QED
      BY <3>1, <3>2, <3>3 DEF Core
  <2>2. ASSUME NEW p \in Processes, Inside(p) PROVE Core'
    <3>1. TypeOK'
      BY <1>1, <2>2, InsideType DEF Core
    <3>2. Saved' /\ Jobs'
      BY <1>1, <2>2, SavedNext, JobsNext DEF Core
    <3>3. Transactions'
      BY <1>1, <2>2, TransactionsNext DEF Core
    <3>4. QED
      BY <3>1, <3>2, <3>3 DEF Core
  <2>3. QED
    BY <1>1, <2>1, <2>2, Steps
<1>2. ASSUME Core, UNCHANGED vars PROVE Core'
  <2>1. TypeOK'
    BY <1>2 DEF Core, vars, checkout, database, process, TypeOK
  <2>2. Saved' /\ Jobs'
    BY <1>2 DEF Core, vars, checkout, database, process, Saved, Jobs, Captured, LinesOf
  <2>3. Transactions'
    BY <1>2, TransactionsStay DEF Core, vars, database, process
  <2>4. QED
    BY <2>1, <2>2, <2>3 DEF Core
<1>3. QED
  BY <1>1, <1>2

LEMMA CoreAlways == Spec => []Core
BY CoreInit, CoreNext, PTL DEF Spec

(* Every variable keeps its type, whatever the processes do to each other, *)
(* the last number that ReadNumber takes from the orders included.         *)
THEOREM TypeCorrect == Spec => []TypeOK
<1>1. Core => TypeOK
  BY DEF Core
<1>2. QED
  BY <1>1, CoreAlways, PTL

(***************************************************************************)
(* What is closed is sold.                                                 *)
(***************************************************************************)
LEMMA SoldStays ==
  ASSUME Core, NEW p \in Processes, Inside(p), NEW s \in Snapshots, Sold(s)
  PROVE  Sold(s)'
<1>1. timeline \in Seq(Entry) /\ Len(timeline) \in Nat /\ DOMAIN timeline = 1 .. Len(timeline)
      /\ None \notin Processes
  BY Sorts DEF Core, TypeOK, Entry
<1>2. PICK k \in DOMAIN timeline : timeline[k].by = None /\ timeline[k].snapshot = s
  BY DEF Sold, OrderOf, OrderAt
<1>3. SUFFICES \E i \in DOMAIN timeline' : timeline'[i].by = None /\ timeline'[i].snapshot = s
  BY DEF Sold, OrderOf, OrderAt
<1>4. CASE Still(p)
  BY <1>2, <1>4 DEF Still
<1>5. CASE Begins(p)
  <2>1. k \in DOMAIN timeline' /\ timeline'[k] = timeline[k]
    BY <1>1, <1>5 DEF Begins
  <2>2. QED
    BY <1>2, <2>1
<1>6. CASE Undoes(p)
  <2>1. PICK i \in DOMAIN timeline : timeline[i].by = p /\ timeline' = Without(i)
    BY <1>6 DEF Undoes, BegunAt
  <2>2. k # i
    BY <1>1, <1>2, <2>1
  <2>3. \E j \in DOMAIN timeline' : timeline'[j] = timeline[k]
    BY <2>1, <2>2, Shift DEF Core
  <2>4. QED
    BY <1>2, <2>3
<1>7. CASE Commits(p)
  <2>1. k \in DOMAIN timeline' /\ timeline'[k] = timeline[k]
    BY <1>1, <1>2, <1>7 DEF Commits
  <2>2. QED
    BY <1>2, <2>1
<1>8. QED
  BY <1>4, <1>5, <1>6, <1>7, Timelines DEF Core

LEMMA CommitSells ==
  ASSUME Core, NEW p \in Processes, Commit(p)
  PROVE  job[p] \in Snapshots /\ \A x : x = job[p] => Sold(x)'
<1>1. job[p] \in Snapshots
  BY DEF Commit, Core, Jobs, Working, Tx
<1>2. PICK i \in DOMAIN timeline : timeline[i].by = p
  BY DEF Commit, Core, Transactions, Tx
<1>3. ASSUME NEW x, x = job[p] PROVE Sold(x)'
  <2>1. i \in DOMAIN timeline' /\ timeline'[i] = [by |-> None, snapshot |-> x, number |-> seen[p]]
    BY <1>2, <1>3 DEF Commit
  <2>2. timeline'[i].by = None /\ timeline'[i].snapshot = x
    BY <2>1
  <2>3. QED
    BY <2>1, <2>2 DEF Sold, OrderOf, OrderAt
<1>4. QED
  BY <1>1, <1>3


LEMMA ClosedOutside == ASSUME Core, Closed, Outside PROVE Closed'
<1>1. /\ timeline' = timeline /\ handled' = handled /\ pc' = pc /\ job' = job
  BY OutsideFrame DEF Core
<1>2. \A s \in Snapshots : status'[s] = "USED" => status[s] = "USED"
  BY DEF Outside, CreateSnapshot, SaveIntent, Expire, Pay, Decline, PaymentFailed, FillCart, Cleanup,
     CronStart, checkout, Core, TypeOK
<1>3. \A x : Sold(x)' <=> Sold(x)
  BY <1>1 DEF Sold, OrderOf, OrderAt
<1>4. UsedHasOrder' /\ HandledHasOrder'
  BY <1>1, <1>2, <1>3 DEF Closed, UsedHasOrder, HandledHasOrder
<1>5. \A p \in Processes : pc'[p] = "ack" => Sold(job[p])'
  BY <1>1 DEF Closed, Sold, OrderOf, OrderAt
<1>6. QED
  BY <1>4, <1>5 DEF Closed

LEMMA ClosedInside == ASSUME Core, Closed, NEW p \in Processes, Inside(p) PROVE Closed'
<1>0. TypeOK /\ ProcessTypes
  BY DEF Core, TypeOK, ProcessTypes
<1>1. \A s \in Snapshots : Sold(s) => Sold(s)'
  BY SoldStays
<1>2. UsedHasOrder'
  <2> SUFFICES ASSUME NEW s \in Snapshots, status'[s] = "USED" PROVE Sold(s)'
    BY DEF UsedHasOrder
  <2>1. CASE status[s] = "USED"
    BY <1>1, <2>1 DEF Closed, UsedHasOrder
  <2>2. CASE Commit(p)
    <3>1. CASE s = job[p]
      BY <2>2, <3>1, CommitSells
    <3>2. CASE s # job[p]
      BY <1>0, <2>1, <2>2, <3>2 DEF Commit, TypeOK
    <3>3. QED
      BY <3>1, <3>2
  <2>3. CASE \E t \in Snapshots : CronNext(t)
    BY <1>0, <1>1, <2>1, <2>3 DEF CronNext, TypeOK
  <2>4. CASE SaveExpired(p) \/ SaveProcessing(p)
    BY <1>0, <2>1, <2>4 DEF SaveExpired, SaveProcessing, SaveStatus, TypeOK
  <2>5. CASE status' = status
    BY <2>1, <2>5
  <2>6. QED
    BY <2>2, <2>3, <2>4, <2>5 DEF Inside, Request, Step, Lookup, Load, BeginTx, LockRow, BreakDeadlock,
       ReadNumber, LockCoupon, CommitFails, Ack, Crash, checkout
<1>3. HandledHasOrder'
  <2> SUFFICES ASSUME NEW s \in handled' PROVE Sold(s)'
    BY DEF HandledHasOrder
  <2>1. CASE s \in handled
    BY <1>0, <1>1, <2>1 DEF Closed, HandledHasOrder, TypeOK
  <2>2. CASE Ack(p) /\ s = job[p]
    <3>1. s \in Snapshots /\ Sold(s)
      BY <2>2 DEF Ack, Closed, Core, Jobs, Working
    <3>2. QED
      BY <1>1, <3>1
  <2>3. QED
    BY <2>1, <2>2 DEF Inside, Request, CronNext, Step, Lookup, Load, SaveExpired, SaveProcessing,
       SaveStatus, BeginTx, LockRow, BreakDeadlock, ReadNumber, LockCoupon, Commit, CommitFails, Ack, Crash, database
<1>4. ASSUME NEW q \in Processes, pc'[q] = "ack" PROVE Sold(job[q])'
  <2>1. ASSUME NEW s \in Snapshots, s = job'[q], Sold(s)' PROVE Sold(job[q])'
    BY <2>1 DEF Sold, OrderOf
  <2>2. CASE pc[q] = "ack" /\ job'[q] = job[q]
    <3>1. job[q] \in Snapshots /\ Sold(job[q])
      BY <2>2 DEF Closed, Core, Jobs, Working
    <3>2. PICK s \in Snapshots : s = job[q] /\ Sold(s)
      BY <3>1
    <3>3. QED
      BY <1>1, <2>1, <2>2, <3>2
  <2>3. CASE q # p
    BY <1>4, <2>2, <2>3, InsideFrame, <1>0
  <2>4. CASE q = p /\ Succeed(p) /\ pc[p] \in {"lookup", "load"} /\ Sold(job[p])
    <3>1. PICK s \in Snapshots : s = job[p] /\ Sold(s)
      BY <2>4 DEF Core, Jobs, Working
    <3>2. job'[p] = job[p]
      BY <1>0, <1>4, <2>4 DEF Succeed, Goto, Leave, ProcessTypes
    <3>3. QED
      BY <1>1, <2>1, <2>4, <3>1, <3>2
  <2>5. CASE q = p /\ Commit(p)
    <3>1. PICK s \in Snapshots : s = job[p] /\ Sold(s)'
      BY <2>5, CommitSells
    <3>2. job'[p] = job[p]
      BY <1>0, <1>4, <2>5 DEF Commit, Succeed, Goto, Leave, ProcessTypes
    <3>3. QED
      BY <2>1, <2>5, <3>1, <3>2
  <2>6. ASSUME q = p, Leave(p) PROVE FALSE
    BY <1>0, <1>4, <2>6 DEF Leave, ProcessTypes
  <2>7. ASSUME q = p, NEW x, x # "ack", Goto(p, x) PROVE FALSE
    BY <1>0, <1>4, <2>7 DEF Goto, ProcessTypes
  <2>8. CASE q = p /\ p \in Requests /\ Request(p)
    BY <1>0, <1>4, <2>8 DEF Request, Enter, ProcessTypes
  <2>9. CASE q = p /\ p = Cron /\ \E s \in Snapshots : CronNext(s)
    BY <1>0, <1>4, <2>9 DEF CronNext, Enter, ProcessTypes
  <2>10. CASE q = p /\ (Step(p) \/ Crash(p))
    BY <1>4, <2>4, <2>5, <2>6, <2>7, <2>10 DEF Step, Lookup, Load, SaveExpired, SaveProcessing, SaveStatus,
       BeginTx, LockRow, BreakDeadlock, ReadNumber, LockCoupon, CommitFails, Ack, Rollback, Crash
  <2>11. QED
    BY <2>3, <2>8, <2>9, <2>10 DEF Inside
<1>5. QED
  BY <1>2, <1>3, <1>4 DEF Closed

LEMMA ClosedAlways == Spec => []Closed
<1>1. Init => Closed
  BY DEF Init, Closed, UsedHasOrder, HandledHasOrder
<1>2. Core /\ Closed /\ [Next]_vars => Closed'
  <2>1. ASSUME Core, Closed, Next PROVE Closed'
    BY <2>1, ClosedOutside, ClosedInside, Steps
  <2>2. ASSUME Closed, UNCHANGED vars PROVE Closed'
    BY <2>2 DEF Closed, vars, checkout, database, process, UsedHasOrder, HandledHasOrder, Sold, OrderOf, OrderAt
  <2>3. QED
    BY <2>1, <2>2
<1>3. QED
  BY <1>1, <1>2, CoreAlways, PTL DEF Spec

(* Whoever closes a snapshot as USED, the transaction or the cron job's    *)
(* shortcut, its order exists, and no rollback or crash takes it away.     *)
THEOREM UsedIsSold == Spec => []UsedHasOrder
<1>1. Closed => UsedHasOrder
  BY DEF Closed
<1>2. QED
  BY <1>1, ClosedAlways, PTL

(* A webhook that died in the pipeline is never marked as processed: an    *)
(* event that Stripe will not send again has its order.                    *)
THEOREM HandledIsSold == Spec => []HandledHasOrder
<1>1. Closed => HandledHasOrder
  BY DEF Closed
<1>2. QED
  BY <1>1, ClosedAlways, PTL


(***************************************************************************)
(* The coupon.                                                             *)
(***************************************************************************)
CouponOrders == {i \in OrderAt : timeline[i].snapshot \in Couponed}

LEMMA CouponOrdersFinite ==
  ASSUME TypeOK
  PROVE  IsFiniteSet(CouponOrders) /\ CouponOrders \subseteq 1 .. Len(timeline)
<1>1. Len(timeline) \in Nat /\ DOMAIN timeline = 1 .. Len(timeline)
  BY DEF TypeOK
<1>2. CouponOrders \subseteq 1 .. Len(timeline)
  BY <1>1 DEF CouponOrders, OrderAt
<1>3. IsFiniteSet(1 .. Len(timeline))
  BY <1>1, FS_Interval
<1>4. QED
  BY <1>2, <1>3, FS_Subset

LEMMA CouponStays ==
  ASSUME Core, NEW p \in Processes, Still(p) \/ Begins(p) \/ Undoes(p)
  PROVE  Cardinality(CouponOrders') = Cardinality(CouponOrders)
<1>1. timeline \in Seq(Entry) /\ Len(timeline) \in Nat /\ DOMAIN timeline = 1 .. Len(timeline)
      /\ p # None /\ IsFiniteSet(CouponOrders)
  BY Sorts, CouponOrdersFinite DEF Core, TypeOK, Entry
<1>2. CASE Still(p)
  BY <1>2 DEF Still, CouponOrders, OrderAt
<1>3. CASE Begins(p)
  <2>1. /\ DOMAIN timeline' = 1 .. Len(timeline) + 1
        /\ \A i \in 1 .. Len(timeline) : timeline'[i] = timeline[i]
        /\ timeline'[Len(timeline) + 1] = [by |-> p, snapshot |-> job[p], number |-> 0]
    BY <1>1, <1>3 DEF Begins
  <2>2. timeline'[Len(timeline) + 1].by = p
    BY <2>1
  <2>3. \A i \in DOMAIN timeline' : i = Len(timeline) + 1 \/ i \in 1 .. Len(timeline)
    BY <1>1, <2>1
  <2>4. ASSUME NEW i PROVE i \in CouponOrders' <=> i \in CouponOrders
    BY <1>1, <2>1, <2>2, <2>3 DEF CouponOrders, OrderAt
  <2>5. QED
    BY <2>4
<1>4. CASE Undoes(p)
  <2>1. PICK i \in DOMAIN timeline : timeline[i].by = p /\ timeline' = Without(i)
    BY <1>4 DEF Undoes, BegunAt
  <2>2. /\ \A j \in DOMAIN timeline' :
             /\ Back(i, j) \in DOMAIN timeline /\ Back(i, j) # i
             /\ timeline'[j] = timeline[Back(i, j)]
        /\ \A k \in DOMAIN timeline : k # i => \E j \in DOMAIN timeline' : Back(i, j) = k
        /\ \A j, k \in DOMAIN timeline' : Back(i, j) = Back(i, k) => j = k
    BY <2>1, Shift DEF Core
  <2> DEFINE f == [j \in CouponOrders' |-> Back(i, j)]
  <2>3. \A j \in CouponOrders' : j \in DOMAIN timeline' /\ Back(i, j) \in CouponOrders
    BY <2>2 DEF CouponOrders, OrderAt
  <2>4. \A k \in CouponOrders : \E j \in CouponOrders' : Back(i, j) = k
    <3> TAKE k \in CouponOrders
    <3>1. k \in DOMAIN timeline /\ timeline[k].by = None /\ timeline[k].snapshot \in Couponed
      BY DEF CouponOrders, OrderAt
    <3>2. PICK j \in DOMAIN timeline' : Back(i, j) = k
      BY <1>1, <2>1, <2>2, <3>1
    <3>3. j \in CouponOrders'
      BY <2>2, <3>1, <3>2 DEF CouponOrders, OrderAt
    <3>4. QED
      BY <3>2, <3>3
  <2>5. f \in Bijection(CouponOrders', CouponOrders)
    BY <2>2, <2>3, <2>4 DEF Bijection, Injection, Surjection, IsInjective
  <2>6. ExistsBijection(CouponOrders', CouponOrders)
    BY <2>5 DEF ExistsBijection
  <2>7. ExistsBijection(CouponOrders, CouponOrders')
    BY <2>6, Fun_ExistsBijSymmetric
  <2>8. QED
    BY <1>1, <2>7, FS_Bijection
<1>5. QED
  BY <1>2, <1>3, <1>4

(* The row lock on the coupon: of the processes that have read its count   *)
(* there is one, and the count is still what it has read.                  *)
Counting(p) == pc[p] = "commit" /\ job[p] \in Couponed

CouponLock ==
  /\ \A p, q \in Processes : Counting(p) /\ Counting(q) => p = q
  /\ \A p \in Processes : Counting(p) => usage[p] = uses

LEMMA CouponLockInside ==
  ASSUME Core, CouponLock, NEW p \in Processes, Inside(p)
  PROVE  CouponLock'
<1>0. /\ TypeOK /\ ProcessTypes
      /\ \A q \in Processes : q # p => pc'[q] = pc[q] /\ job'[q] = job[q] /\ usage'[q] = usage[q]
  BY InsideFrame DEF Core, TypeOK, ProcessTypes
<1>1. \A q \in Processes : q # p => (Counting(q)' <=> Counting(q))
  BY <1>0 DEF Counting
<1>2. ASSUME ~Counting(p)', uses' = uses PROVE CouponLock'
  BY <1>0, <1>1, <1>2 DEF CouponLock
<1>3. ASSUME pc'[p] # "commit", uses' = uses PROVE CouponLock'
  BY <1>2, <1>3 DEF Counting
<1>4. ASSUME Leave(p) PROVE pc'[p] # "commit"
  BY <1>0, <1>4, Leaves DEF Working, Tx
<1>5. ASSUME NEW x, Goto(p, x) PROVE pc'[p] = x /\ job' = job
  BY <1>0, <1>5 DEF Goto, ProcessTypes
<1>6. ASSUME Succeed(p) PROVE pc'[p] # "commit"
  BY <1>0, <1>6, Succeeds DEF Working, Tx
<1>7. CASE Commit(p)
  <2>1. pc'[p] # "commit" /\ ~Counting(p)'
    BY <1>6, <1>7 DEF Commit, Counting
  <2>2. CASE job[p] \in Couponed
    <3>1. Counting(p)
      BY <1>7, <2>2 DEF Commit, Counting
    <3>2. \A q \in Processes : ~Counting(q)'
      BY <1>1, <2>1, <3>1 DEF CouponLock
    <3>3. QED
      BY <3>2 DEF CouponLock
  <2>3. CASE job[p] \notin Couponed
    <3>1. uses' = uses
      BY <1>7, <2>3 DEF Commit
    <3>2. QED
      BY <1>2, <2>1, <3>1
  <2>4. QED
    BY <2>2, <2>3
<1>8. CASE LockCoupon(p)
  <2>1. /\ \A q \in Processes : ~Counting(q)
        /\ usage'[p] = uses /\ uses' = uses
    BY <1>0, <1>8 DEF LockCoupon, Counting, database, TypeOK
  <2>2. \A q \in Processes : Counting(q)' => q = p
    BY <1>1, <2>1
  <2>3. QED
    BY <2>1, <2>2 DEF CouponLock
<1>9. CASE ReadNumber(p)
  <2>1. uses' = uses /\ job' = job /\ pc'[p] = IF job[p] \in Couponed THEN "coupon" ELSE "commit"
    BY <1>5, <1>9 DEF ReadNumber, database
  <2>2. ~Counting(p)'
    BY <2>1 DEF Counting
  <2>3. QED
    BY <1>2, <2>1, <2>2
<1>10. CASE p \in Requests /\ Request(p)
  <2>1. pc'[p] = "lookup" /\ uses' = uses
    BY <1>0, <1>10 DEF Request, Enter, ProcessTypes, database
  <2>2. QED
    BY <1>3, <2>1
<1>11. CASE p = Cron /\ \E s \in Snapshots : CronNext(s)
  <2>1. pc'[p] \in {"idle", "lookup"} /\ uses' = uses
    BY <1>0, <1>11 DEF CronNext, Enter, ProcessTypes, database
  <2>2. QED
    BY <1>3, <2>1
<1>12. CASE Lookup(p) \/ Load(p) \/ SaveExpired(p) \/ SaveProcessing(p) \/ BeginTx(p) \/ Ack(p)
  <2>1. uses' = uses
    BY <1>12 DEF Lookup, Load, SaveExpired, SaveProcessing, SaveStatus, BeginTx, Ack, database
  <2>2. pc'[p] # "commit"
    BY <1>4, <1>5, <1>6, <1>12 DEF Lookup, Load, SaveExpired, SaveProcessing, SaveStatus, BeginTx, Ack
  <2>3. QED
    BY <1>3, <2>1, <2>2
<1>13. CASE LockRow(p)
  <2>1. uses' = uses
    BY <1>13 DEF LockRow
  <2>2. CASE Rollback(p)
    BY <1>3, <1>4, <2>1, <2>2 DEF Rollback
  <2>3. CASE \E x \in {"lock", "number"} : Goto(p, x)
    <3>1. pc'[p] # "commit"
      BY <1>5, <2>3
    <3>2. QED
      BY <1>3, <2>1, <3>1
  <2>4. QED
    BY <1>13, <2>2, <2>3 DEF LockRow
<1>14. CASE BreakDeadlock(p) \/ CommitFails(p) \/ Crash(p)
  <2>1. uses' = uses /\ Leave(p)
    BY <1>14 DEF BreakDeadlock, CommitFails, Crash, Rollback
  <2>2. QED
    BY <1>3, <1>4, <2>1
<1>15. QED
  BY <1>7, <1>8, <1>9, <1>10, <1>11, <1>12, <1>13, <1>14 DEF Inside, Step

LEMMA CouponLockAlways == Spec => []CouponLock
<1>1. Init => CouponLock
  BY DEF Init, CouponLock, Counting
<1>2. Core /\ CouponLock /\ [Next]_vars => CouponLock'
  <2>1. ASSUME UNCHANGED <<pc, job, usage, uses>>, CouponLock PROVE CouponLock'
    BY <2>1 DEF CouponLock, Counting
  <2>2. ASSUME Core, CouponLock, Outside PROVE CouponLock'
    <3>1. UNCHANGED <<pc, job, usage, uses>>
      BY <2>2, OutsideFrame DEF Core
    <3>2. QED
      BY <2>1, <2>2, <3>1
  <2>3. ASSUME CouponLock, UNCHANGED vars PROVE CouponLock'
    BY <2>1, <2>3 DEF vars, database, process
  <2>4. QED
    BY <2>2, <2>3, CouponLockInside, Steps
<1>3. QED
  BY <1>1, <1>2, CoreAlways, PTL DEF Spec

LEMMA CouponCommits ==
  ASSUME Core, CouponLock, CouponCountsOrders, NEW p \in Processes, Commit(p)
  PROVE  CouponCountsOrders'
<1>1. PICK s : s = job[p]
  OBVIOUS
<1>2. PICK i \in DOMAIN timeline : timeline[i].by = p /\ timeline[i].snapshot = s
  BY <1>1 DEF Commit, Core, Transactions, Tx
<1>3. /\ IsFiniteSet(CouponOrders) /\ p # None
      /\ \A k \in DOMAIN timeline : timeline[k].by = p => k = i
  BY <1>2, Sorts, CouponOrdersFinite DEF Core, Transactions
<1>4. /\ DOMAIN timeline' = DOMAIN timeline
      /\ timeline'[i] = [by |-> None, snapshot |-> s, number |-> seen[p]]
      /\ \A k \in DOMAIN timeline : k # i => timeline'[k] = timeline[k]
  BY <1>1, <1>2, <1>3 DEF Commit
<1>5. timeline'[i].by = None /\ timeline'[i].snapshot = s
  BY <1>4
<1>6. i \notin CouponOrders
  BY <1>2, <1>3 DEF CouponOrders, OrderAt
<1>7. Cardinality(CouponOrders) = uses /\ uses \in Nat
  BY DEF CouponCountsOrders, CouponOrders, Core, TypeOK
<1>8. uses' = Cardinality(CouponOrders')
  <2>1. CASE s \in Couponed
    <3>1. ASSUME NEW k PROVE k \in CouponOrders' <=> k \in CouponOrders \cup {i}
      BY <1>2, <1>3, <1>4, <1>5, <2>1 DEF CouponOrders, OrderAt
    <3>2. CouponOrders' = CouponOrders \cup {i}
      BY <3>1
    <3>3. Cardinality(CouponOrders') = uses + 1
      BY <1>3, <1>6, <1>7, <3>2, FS_AddElement
    <3>4. usage[p] = uses
      BY <1>1, <2>1 DEF Commit, CouponLock, Counting
    <3>5. uses' = usage[p] + 1
      BY <1>1, <2>1 DEF Commit
    <3>6. QED
      BY <3>3, <3>4, <3>5
  <2>2. CASE s \notin Couponed
    <3>1. ASSUME NEW k PROVE k \in CouponOrders' <=> k \in CouponOrders
      BY <1>2, <1>3, <1>4, <1>5, <2>2 DEF CouponOrders, OrderAt
    <3>2. CouponOrders' = CouponOrders
      BY <3>1
    <3>3. QED
      BY <1>1, <1>7, <2>2, <3>2 DEF Commit
  <2>3. QED
    BY <2>1, <2>2
<1>9. QED
  BY <1>8 DEF CouponCountsOrders, CouponOrders

LEMMA CouponNext == Core /\ CouponLock /\ CouponCountsOrders /\ [Next]_vars => CouponCountsOrders'
<1> SUFFICES ASSUME Core, CouponLock, CouponCountsOrders, [Next]_vars PROVE CouponCountsOrders'
  OBVIOUS
<1>1. ASSUME UNCHANGED <<uses, timeline>> PROVE CouponCountsOrders'
  BY <1>1 DEF CouponCountsOrders, OrderAt
<1>2. CASE Outside
  BY <1>1, <1>2, OutsideFrame DEF Core
<1>3. ASSUME NEW p \in Processes, Inside(p) PROVE CouponCountsOrders'
  <2>1. ASSUME uses' = uses, Still(p) \/ Begins(p) \/ Undoes(p) PROVE CouponCountsOrders'
    BY <2>1, CouponStays DEF CouponCountsOrders, CouponOrders
  <2>2. uses' = uses \/ Commit(p)
    BY <1>3 DEF Inside, Request, CronNext, Step, Lookup, Load, SaveExpired, SaveProcessing, SaveStatus,
       BeginTx, LockRow, BreakDeadlock, ReadNumber, LockCoupon, CommitFails, Ack, Crash, database
  <2>3. Still(p) \/ Begins(p) \/ Undoes(p) \/ Commit(p)
    BY <1>3, Timelines DEF Core, Commits
  <2>4. QED
    BY <2>1, <2>2, <2>3, CouponCommits
<1>4. CASE UNCHANGED vars
  BY <1>1, <1>4 DEF vars, database
<1>5. QED
  BY <1>2, <1>3, <1>4, Steps

(* coupons.usage_count counts the orders with the coupon exactly: it is    *)
(* read in one step and saved in another, but under its row lock, so no    *)
(* use is lost, and a pipeline that rolled back in between, however late,  *)
(* has not counted (processSuccessfulPayment).                             *)
THEOREM CouponIsCounted == Spec => []CouponCountsOrders
<1>1. Init => CouponCountsOrders
  <2> SUFFICES ASSUME Init PROVE CouponCountsOrders
    OBVIOUS
  <2>1. {i \in OrderAt : timeline[i].snapshot \in Couponed} = {} /\ uses = 0
    BY DEF Init, OrderAt
  <2>2. QED
    BY <2>1, FS_EmptySet DEF CouponCountsOrders
<1>2. QED
  BY <1>1, CouponNext, CoreAlways, CouponLockAlways, PTL DEF Spec


(***************************************************************************)
(* The locks, and the stock behind them.                                   *)
(***************************************************************************)
LEMMA Unlocked == ASSUME NEW p \in Processes, held[p] = 0 PROVE Locked(p) = {}
BY DEF Locked

(* What a process in its transaction works through, and what it holds.     *)
LEMMA Items2 ==
  ASSUME Core, Locks, NEW p \in Processes, pc[p] \in Tx, NEW s \in Snapshots, s = job[p]
  PROVE  /\ items[s] \in Bijection(1 .. Cardinality(LinesOf(s)), LinesOf(s))
         /\ items[s] \in Seq(LinesOf(s)) /\ Len(items[s]) \in Nat \ {0}
         /\ \A l \in LinesOf(s) : \E i \in 1 .. Len(items[s]) : items[s][i] = l
         /\ held[p] \in Nat /\ held[p] <= Len(items[s])
         /\ \A i \in 1 .. Len(items[s]) : items[s][i] \in LinesOf(s)
         /\ LinesOf(s) \subseteq Lines
         /\ Locked(p) = {VariantOf[items[s][i]] : i \in 1 .. held[p]}
         /\ \A i \in 1 .. held[p] : Enough(items[s][i])
         /\ pc[p] = "commit" => held[p] = Len(items[s])
<1>1. status[s] # "NONE"
  BY DEF Core, Jobs, Working, Captured, Saved
<1>2. items[s] \in Bijection(1 .. Cardinality(LinesOf(s)), LinesOf(s))
  BY <1>1 DEF Core, Saved
<1>3. /\ items[s] \in Seq(LinesOf(s)) /\ Len(items[s]) \in Nat \ {0}
      /\ \A l \in LinesOf(s) : \E i \in 1 .. Len(items[s]) : items[s][i] = l
  BY <1>2, Items
<1>4. /\ pc[p] = "lock" => held[p] < Len(items[s])
      /\ pc[p] # "lock" => held[p] = Len(items[s])
      /\ \A i \in 1 .. held[p] : Enough(items[s][i])
  BY DEF Locks, Tx
<1>5. held[p] \in Nat /\ held[p] <= Len(items[s])
  BY <1>3, <1>4 DEF Core, TypeOK
<1>6. \A i \in 1 .. Len(items[s]) : items[s][i] \in LinesOf(s)
  BY <1>3
<1>7. LinesOf(s) \subseteq Lines
  BY DEF LinesOf
<1>8. Locked(p) = {VariantOf[items[s][i]] : i \in 1 .. held[p]}
  BY DEF Locked
<1>9. QED
  BY <1>2, <1>3, <1>4, <1>5, <1>6, <1>7, <1>8

LEMMA LockedLines ==
  ASSUME Core, Locks, NEW p \in Processes
  PROVE  /\ Locked(p) \subseteq Variants
         /\ pc[p] = "commit" =>
              \A l \in LinesOf(job[p]) : VariantOf[l] \in Locked(p) /\ Enough(l)
<1>1. CASE pc[p] \notin Tx
  <2>1. Locked(p) = {}
    BY <1>1, Unlocked DEF Locks
  <2>2. QED
    BY <1>1, <2>1 DEF Tx
<1>2. CASE pc[p] \in Tx
  <2>1. PICK s \in Snapshots : s = job[p]
    BY <1>2 DEF Core, Jobs, Working
  <2>2. /\ Len(items[s]) \in Nat /\ held[p] \in Nat /\ held[p] <= Len(items[s])
        /\ \A l \in LinesOf(s) : \E i \in 1 .. Len(items[s]) : items[s][i] = l
        /\ \A i \in 1 .. Len(items[s]) : items[s][i] \in LinesOf(s)
        /\ LinesOf(s) \subseteq Lines
        /\ Locked(p) = {VariantOf[items[s][i]] : i \in 1 .. held[p]}
        /\ \A i \in 1 .. held[p] : Enough(items[s][i])
        /\ pc[p] = "commit" => held[p] = Len(items[s])
    BY <1>2, <2>1, Items2
  <2>3. \A i \in 1 .. held[p] : items[s][i] \in Lines
    BY <2>2
  <2>4. Locked(p) \subseteq Variants
    BY <2>2, <2>3, Sorts
  <2>5. ASSUME pc[p] = "commit", NEW l \in LinesOf(s)
        PROVE  VariantOf[l] \in Locked(p) /\ Enough(l)
    <3>1. PICK i \in 1 .. held[p] : items[s][i] = l
      BY <2>2, <2>5
    <3>2. QED
      BY <2>2, <3>1
  <2>6. QED
    BY <2>1, <2>4, <2>5
<1>3. QED
  BY <1>1, <1>2

(* A sale leaves the rows alone whose variant none of its lines has.       *)
LEMMA Elsewhere ==
  ASSUME Core, Locks, NEW p \in Processes, Commit(p), NEW v \in Variants, v \notin Locked(p)
  PROVE  stock'[v] = stock[v]
<1>1. \A l \in LinesOf(job[p]) : VariantOf[l] # v
  BY LockedLines DEF Commit
<1>2. Wants(job[p], v) = 0
  BY <1>1, WantsNone
<1>3. stock[v] \in [quantity : Nat, available : Nat]
  BY DEF Core, TypeOK
<1>4. stock'[v] = Less(stock[v], Wants(job[p], v))
  BY DEF Commit
<1>5. QED
  BY <1>2, <1>3, <1>4, LessType

(* How a step changes what its process holds.                              *)
Drops(p) == held'[p] = 0 /\ pc'[p] \notin Tx /\ stock' = stock
Starts(p) == pc[p] = "begin" /\ pc'[p] = "lock" /\ held' = held /\ job' = job /\ stock' = stock
Reads(p) ==
  /\ pc[p] \in {"number", "coupon"} /\ pc'[p] \in {"coupon", "commit"}
  /\ held' = held /\ job' = job /\ stock' = stock
Grows(p) ==
  /\ pc[p] = "lock" /\ WaitsFor(p) = {}
  /\ stock[NextRow(p)].available >= UnitsOf[NextLine(p)]
  /\ held' = [held EXCEPT ![p] = held[p] + 1]
  /\ pc'[p] = IF held[p] + 1 = Len(items[job[p]]) THEN "number" ELSE "lock"
  /\ job' = job /\ stock' = stock

LEMMA Holds ==
  ASSUME Core, Locks, NEW p \in Processes, Inside(p)
  PROVE  Drops(p) \/ Starts(p) \/ Reads(p) \/ Grows(p) \/ Commit(p)
<1>0. TypeOK /\ ProcessTypes
  BY DEF Core, TypeOK, ProcessTypes
<1>1. ASSUME Leave(p) PROVE pc'[p] \notin Tx
  BY <1>0, <1>1, Leaves DEF Working
<1>2. ASSUME NEW x, Goto(p, x) PROVE pc'[p] = x /\ job' = job
  BY <1>0, <1>2 DEF Goto, ProcessTypes
<1>3. ASSUME Succeed(p) PROVE pc'[p] \notin Tx
  BY <1>0, <1>3, Succeeds DEF Working, Tx
<1>4. CASE Rollback(p) /\ stock' = stock
  <2>1. held'[p] = 0
    BY <1>0, <1>4 DEF Rollback, Release, TypeOK
  <2>2. QED
    BY <1>1, <1>4, <2>1 DEF Rollback, Drops
<1>5. ASSUME pc[p] \notin Tx, pc'[p] \notin Tx, held' = held, stock' = stock PROVE Drops(p)
  BY <1>5 DEF Locks, Drops
<1>6. CASE p \in Requests /\ Request(p)
  <2>1. pc[p] \notin Tx /\ pc'[p] \notin Tx /\ held' = held /\ stock' = stock
    BY <1>0, <1>6 DEF Request, Enter, ProcessTypes, database, Tx
  <2>2. QED
    BY <1>5, <2>1
<1>7. CASE p = Cron /\ \E s \in Snapshots : CronNext(s)
  <2>1. pc[p] \notin Tx /\ pc'[p] \notin Tx /\ held' = held /\ stock' = stock
    BY <1>0, <1>7 DEF CronNext, Enter, ProcessTypes, database, Tx
  <2>2. QED
    BY <1>5, <2>1
<1>8. CASE Lookup(p) \/ Load(p)
  <2>1. pc[p] \notin Tx /\ held' = held /\ stock' = stock
    BY <1>8 DEF Lookup, Load, database, Tx
  <2>2. pc'[p] \notin Tx
    BY <1>2, <1>3, <1>8 DEF Lookup, Load, Tx
  <2>3. QED
    BY <1>5, <2>1, <2>2
<1>9. CASE SaveExpired(p) \/ SaveProcessing(p)
  <2>1. pc[p] \notin Tx /\ held' = held /\ stock' = stock
    BY <1>9 DEF SaveExpired, SaveProcessing, SaveStatus, database, Tx
  <2>2. pc'[p] \notin Tx
    BY <1>1, <1>2, <1>9 DEF SaveExpired, SaveProcessing, SaveStatus, Tx
  <2>3. QED
    BY <1>5, <2>1, <2>2
<1>10. CASE Ack(p)
  <2>1. pc[p] \notin Tx /\ held' = held /\ stock' = stock /\ pc'[p] \notin Tx
    BY <1>1, <1>10 DEF Ack, Tx
  <2>2. QED
    BY <1>5, <2>1
<1>11. CASE BeginTx(p)
  BY <1>2, <1>11 DEF BeginTx, Starts
<1>12. CASE ReadNumber(p) \/ LockCoupon(p)
  BY <1>2, <1>12 DEF ReadNumber, LockCoupon, Reads, database
<1>13. CASE LockRow(p)
  <2>1. stock' = stock
    BY <1>13 DEF LockRow
  <2>2. CASE /\ stock[NextRow(p)].available >= UnitsOf[NextLine(p)]
             /\ held' = [held EXCEPT ![p] = held[p] + 1]
             /\ Goto(p, IF held[p] + 1 = Len(items[job[p]]) THEN "number" ELSE "lock")
    BY <1>2, <1>13, <2>1, <2>2 DEF LockRow, Grows
  <2>3. QED
    BY <1>4, <1>13, <2>1, <2>2 DEF LockRow
<1>14. CASE BreakDeadlock(p) \/ CommitFails(p) \/ Crash(p)
  BY <1>4, <1>14 DEF BreakDeadlock, CommitFails, Crash
<1>15. QED
  BY <1>6, <1>7, <1>8, <1>9, <1>10, <1>11, <1>12, <1>13, <1>14 DEF Inside, Step


LEMMA LocksInside == ASSUME Core, Core', Locks, NEW p \in Processes, Inside(p) PROVE Locks'
<1>0. /\ TypeOK /\ items' = items
      /\ \A q \in Processes : q # p =>
           pc'[q] = pc[q] /\ job'[q] = job[q] /\ held'[q] = held[q]
  BY InsideFrame DEF Core
<1>1. ASSUME NEW q \in Processes, q # p PROVE Locked(q)' = Locked(q)
  BY <1>0, <1>1 DEF Locked
<1>2. Drops(p) \/ Starts(p) \/ Reads(p) \/ Grows(p) \/ Commit(p)
  BY Holds
<1>3. ASSUME NEW q \in Processes
      PROVE  /\ pc'[q] \notin Tx => held'[q] = 0
             /\ pc'[q] = "lock" => held'[q] < Len((items[job[q]])')
             /\ pc'[q] \in {"number", "coupon", "commit"} => held'[q] = Len((items[job[q]])')
  <2>1. CASE q # p
    BY <1>0, <1>3, <2>1 DEF Locks
  <2>2. CASE q = p /\ Drops(p)
    BY <2>2 DEF Drops, Tx
  <2>3. CASE q = p /\ Starts(p)
    <3>1. PICK s \in Snapshots : s = job[p] /\ Captured(s)
      BY <2>3 DEF Starts, Core, Jobs, Working
    <3>2. items[s] \in Bijection(1 .. Cardinality(LinesOf(s)), LinesOf(s))
      BY <3>1 DEF Captured, Core, Saved
    <3>3. Len(items[s]) \in Nat \ {0}
      BY <3>2, Items
    <3>4. held[p] = 0
      BY <2>3 DEF Starts, Locks, Tx
    <3>5. QED
      BY <1>0, <2>3, <3>1, <3>3, <3>4 DEF Starts, Tx
  <2>4. CASE q = p /\ Reads(p)
    BY <1>0, <2>4 DEF Reads, Locks, Tx
  <2>5. CASE q = p /\ Grows(p)
    <3>1. held'[p] = held[p] + 1 /\ held[p] \in Nat /\ held[p] < Len(items[job[p]]) /\ pc'[p] \in {"number", "lock"}
      BY <1>0, <2>5 DEF Grows, Locks, TypeOK
    <3>2. Len(items[job[p]]) \in Nat
      <4>1. job[p] \in Snapshots
        BY <2>5 DEF Grows, Core, Jobs, Working, Tx
      <4>2. items[job[p]] \in Seq(Lines)
        BY <4>1, <1>0 DEF TypeOK
      <4>3. QED
        BY <4>2
    <3>3. CASE held[p] + 1 = Len(items[job[p]])
      BY <1>0, <2>5, <3>1, <3>3 DEF Grows, Tx
    <3>4. CASE held[p] + 1 # Len(items[job[p]])
      BY <1>0, <2>5, <3>1, <3>2, <3>4 DEF Grows, Tx
    <3>5. QED
      BY <3>3, <3>4
  <2>6. CASE q = p /\ Commit(p)
    <3>1. held'[p] = 0
      BY <1>0, <2>6 DEF Commit, Release, TypeOK
    <3>2. pc'[p] \notin {"lock", "number", "coupon", "commit"}
      <4>1. ProcessTypes
        BY <1>0 DEF TypeOK, ProcessTypes
      <4>2. QED
        BY <2>6, <4>1, Succeeds DEF Commit, Working, Tx
    <3>3. QED
      BY <2>6, <3>1, <3>2
  <2>7. QED
    BY <1>2, <2>1, <2>2, <2>3, <2>4, <2>5, <2>6
<1>4. Locked(p)' \subseteq Locked(p) \/ (Grows(p) /\ Locked(p)' \subseteq Locked(p) \cup {NextRow(p)})
  <2>1. CASE Drops(p)
    BY <2>1 DEF Drops, Locked
  <2>2. CASE Starts(p) \/ Reads(p)
    BY <1>0, <2>2 DEF Starts, Reads, Locked
  <2>3. CASE Commit(p)
    <3>1. held'[p] = 0
      BY <1>0, <2>3 DEF Commit, Release, TypeOK
    <3>2. QED
      BY <3>1 DEF Locked
  <2>4. CASE Grows(p)
    <3>1. held'[p] = held[p] + 1 /\ held[p] \in Nat /\ job'[p] = job[p]
      BY <1>0, <2>4 DEF Grows, TypeOK
    <3>2. \A i \in 1 .. held[p] + 1 : i \in 1 .. held[p] \/ i = held[p] + 1
      BY <3>1
    <3>3. QED
      BY <1>0, <2>4, <3>1, <3>2 DEF Locked, NextRow, NextLine
  <2>5. QED
    BY <1>2, <2>1, <2>2, <2>3, <2>4
<1>5. ASSUME NEW q \in Processes, q # p PROVE Locked(p)' \cap Locked(q)' = {}
  <2>1. Locked(p) \cap Locked(q) = {} /\ Locked(q)' = Locked(q)
    BY <1>1, <1>5 DEF Locks
  <2>2. Grows(p) => NextRow(p) \notin Locked(q)
    BY <1>5 DEF Grows, WaitsFor
  <2>3. QED
    BY <1>4, <2>1, <2>2
<1>6. ASSUME NEW q \in Processes, NEW r \in Processes \ {q} PROVE Locked(q)' \cap Locked(r)' = {}
  <2>1. CASE q = p
    BY <1>5, <2>1
  <2>2. CASE r = p
    BY <1>5, <1>6, <2>2
  <2>3. CASE q # p /\ r # p
    BY <1>1, <2>3 DEF Locks
  <2>4. QED
    BY <2>1, <2>2, <2>3
<1>7. ASSUME NEW q \in Processes, NEW i \in 1 .. held'[q]
      PROVE  Enough(items[job[q]][i])'
  <2>1. ASSUME NEW l, l = items[job[q]][i], i \in 1 .. held[q], job'[q] = job[q],
               stock'[VariantOf[l]] = stock[VariantOf[l]]
        PROVE  Enough(items[job[q]][i])'
    <3>1. Enough(l)
      BY <2>1 DEF Locks
    <3>2. Enough(l)'
      BY <2>1, <3>1 DEF Enough
    <3>3. (items[job[q]][i])' = l
      BY <1>0, <2>1
    <3>4. QED
      BY <3>2, <3>3 DEF Enough
  <2>2. CASE q # p
    <3>1. held'[q] = held[q] /\ job'[q] = job[q]
      BY <1>0, <2>2
    <3>2. CASE stock' = stock
      BY <1>7, <2>1, <3>1, <3>2
    <3>3. CASE Commit(p)
      <4>1. PICK v : v = VariantOf[items[job[q]][i]]
        OBVIOUS
      <4>2. v \in Locked(q)
        BY <1>7, <3>1, <4>1 DEF Locked
      <4>3. v \in Variants /\ v \notin Locked(p)
        BY <2>2, <4>2, LockedLines DEF Locks
      <4>4. stock'[v] = stock[v]
        BY <3>3, <4>3, Elsewhere
      <4>5. QED
        BY <1>7, <2>1, <3>1, <4>1, <4>4
    <3>4. QED
      BY <1>2, <3>2, <3>3 DEF Drops, Starts, Reads, Grows
  <2>3. CASE q = p /\ (Drops(p) \/ Commit(p))
    <3>1. held'[p] = 0
      BY <1>0, <2>3 DEF Drops, Commit, Release, TypeOK
    <3>2. QED
      BY <1>7, <2>3, <3>1
  <2>4. CASE q = p /\ (Starts(p) \/ Reads(p))
    <3>1. held' = held /\ job' = job /\ stock' = stock
      BY <2>4 DEF Starts, Reads
    <3>2. QED
      BY <1>7, <2>1, <3>1
  <2>5. CASE q = p /\ Grows(p)
    <3>1. job' = job /\ stock' = stock
      BY <2>5 DEF Grows
    <3>2. held'[p] = held[p] + 1 /\ held[p] \in Nat
      BY <1>0, <2>5 DEF Grows, TypeOK
    <3>3. CASE i \in 1 .. held[p]
      BY <2>1, <2>5, <3>1, <3>3
    <3>4. CASE i = held[p] + 1
      <4>1. PICK l : l = NextLine(p)
        OBVIOUS
      <4>2. (items[job[q]][i])' = l
        BY <1>0, <2>5, <3>1, <3>4, <4>1 DEF NextLine
      <4>3. PICK s \in Snapshots : s = job[p]
        BY <2>5 DEF Grows, Core, Jobs, Working, Tx
      <4>4. l \in Lines
        <5>1. /\ held[p] < Len(items[s]) /\ Len(items[s]) \in Nat
              /\ \A k \in 1 .. Len(items[s]) : items[s][k] \in LinesOf(s)
              /\ LinesOf(s) \subseteq Lines
          BY <2>5, <4>3, Items2 DEF Grows, Locks, Tx
        <5>2. l = items[s][held[p] + 1] /\ held[p] + 1 \in 1 .. Len(items[s])
          BY <3>2, <4>1, <4>3, <5>1 DEF NextLine
        <5>3. QED
          BY <5>1, <5>2
      <4>5. VariantOf[l] \in Variants /\ UnitsOf[l] \in Nat
        BY <4>4, Sorts
      <4>6. stock[VariantOf[l]].available \in Nat
        BY <1>0, <4>5 DEF TypeOK
      <4>7. stock[VariantOf[l]].available >= UnitsOf[l]
        BY <2>5, <4>1 DEF Grows, NextRow
      <4>8. Enough(l)'
        BY <3>1, <4>5, <4>6, <4>7 DEF Enough
      <4>9. QED
        BY <4>2, <4>8 DEF Enough
    <3>5. QED
      BY <1>7, <2>5, <3>2, <3>3, <3>4
  <2>6. QED
    BY <1>2, <2>2, <2>3, <2>4, <2>5
<1>8. QED
  BY <1>3, <1>6, <1>7 DEF Locks

LEMMA LocksOutside == ASSUME Core, Locks, Outside PROVE Locks'
<1>1. /\ TypeOK /\ stock' = stock /\ pc' = pc /\ job' = job /\ held' = held
      /\ \A s \in Snapshots : Captured(s) => items'[s] = items[s]
  BY OutsideFrame DEF Core
<1>2. ASSUME NEW q \in Processes, pc[q] \in Tx PROVE (items[job[q]])' = items[job[q]]
  BY <1>1, <1>2 DEF Core, Jobs, Working
<1>3. ASSUME NEW q \in Processes PROVE Locked(q)' = Locked(q)
  <2>1. CASE pc[q] \in Tx
    BY <1>1, <1>2, <2>1 DEF Locked
  <2>2. CASE pc[q] \notin Tx
    <3>1. held[q] = 0 /\ held'[q] = 0
      BY <1>1, <2>2 DEF Locks
    <3>2. QED
      BY <3>1 DEF Locked
  <2>3. QED
    BY <2>1, <2>2
<1>4. ASSUME NEW q \in Processes
      PROVE  /\ pc'[q] \notin Tx => held'[q] = 0
             /\ pc'[q] = "lock" => held'[q] < Len((items[job[q]])')
             /\ pc'[q] \in {"number", "coupon", "commit"} => held'[q] = Len((items[job[q]])')
  BY <1>1, <1>2 DEF Locks, Tx
<1>5. ASSUME NEW q \in Processes
      PROVE  \A r \in Processes \ {q} : Locked(q)' \cap Locked(r)' = {}
  BY <1>3 DEF Locks
<1>6. ASSUME NEW q \in Processes, NEW i \in 1 .. held'[q] PROVE Enough(items[job[q]][i])'
  <2>1. i \in 1 .. held[q] /\ pc[q] \in Tx
    BY <1>1, <1>6 DEF Locks
  <2>2. Enough(items[job[q]][i])
    BY <2>1 DEF Locks
  <2>3. (items[job[q]][i])' = items[job[q]][i]
    BY <1>2, <2>1
  <2>4. QED
    BY <1>1, <2>2, <2>3 DEF Enough
<1>7. QED
  BY <1>4, <1>5, <1>6 DEF Locks

LEMMA LocksAlways == Spec => []Locks
<1>1. Init => Locks
  <2> SUFFICES ASSUME Init PROVE Locks
    OBVIOUS
  <2>1. \A p \in Processes : pc[p] = "idle" /\ held[p] = 0 /\ Locked(p) = {}
    BY DEF Init, Locked
  <2>2. QED
    BY <2>1 DEF Locks, Tx
<1>2. Core /\ Core' /\ Locks /\ [Next]_vars => Locks'
  <2>1. ASSUME Core, Core', Locks, Next PROVE Locks'
    BY <2>1, LocksInside, LocksOutside, Steps
  <2>2. ASSUME Locks, UNCHANGED vars PROVE Locks'
    <3>1. /\ pc' = pc /\ job' = job /\ held' = held /\ items' = items /\ stock' = stock
      BY <2>2 DEF vars, checkout, database, process
    <3>2. \A p \in Processes : Locked(p)' = Locked(p)
      BY <3>1 DEF Locked
    <3>3. \A p \in Processes : \A i \in 1 .. held[p] : Enough(items[job[p]][i])'
      BY <2>2, <3>1 DEF Locks, Enough
    <3>4. QED
      BY <2>2, <3>1, <3>2, <3>3 DEF Locks
  <2>3. QED
    BY <2>1, <2>2
<1>3. QED
  BY <1>1, <1>2, CoreAlways, PTL DEF Spec


(***************************************************************************)
(* The shop.                                                               *)
(***************************************************************************)
Paid == {s \in Snapshots : Captured(s)}
Units == [v \in Variants |-> stock[v].available]

LEMMA OrdersStay ==
  ASSUME Core, NEW p \in Processes, Still(p) \/ Begins(p) \/ Undoes(p)
  PROVE  Orders' = Orders
<1>1. timeline \in Seq(Entry) /\ Len(timeline) \in Nat /\ DOMAIN timeline = 1 .. Len(timeline)
      /\ p # None
  BY Sorts DEF Core, TypeOK, Entry
<1>2. CASE Still(p)
  BY <1>2 DEF Still, Orders, OrderAt
<1>3. CASE Begins(p)
  <2>1. /\ DOMAIN timeline' = 1 .. Len(timeline) + 1
        /\ \A i \in 1 .. Len(timeline) : timeline'[i] = timeline[i]
        /\ timeline'[Len(timeline) + 1] = [by |-> p, snapshot |-> job[p], number |-> 0]
    BY <1>1, <1>3 DEF Begins
  <2>2. timeline'[Len(timeline) + 1].by = p
    BY <2>1
  <2>3. \A i \in DOMAIN timeline' : i = Len(timeline) + 1 \/ i \in 1 .. Len(timeline)
    BY <1>1, <2>1
  <2>4. OrderAt' = OrderAt
    BY <1>1, <2>1, <2>2, <2>3 DEF OrderAt
  <2>5. \A i \in OrderAt : timeline'[i] = timeline[i]
    BY <1>1, <2>1 DEF OrderAt
  <2>6. QED
    BY <2>4, <2>5 DEF Orders
<1>4. CASE Undoes(p)
  <2>1. PICK i \in DOMAIN timeline : timeline[i].by = p /\ timeline' = Without(i)
    BY <1>4 DEF Undoes, BegunAt
  <2>2. /\ \A j \in DOMAIN timeline' :
             Back(i, j) \in DOMAIN timeline /\ timeline'[j] = timeline[Back(i, j)]
        /\ \A k \in DOMAIN timeline : k # i => \E j \in DOMAIN timeline' : Back(i, j) = k
    BY <2>1, Shift DEF Core
  <2>3. \A j \in OrderAt' : Back(i, j) \in OrderAt /\ timeline'[j] = timeline[Back(i, j)]
    BY <2>2 DEF OrderAt
  <2>4. \A k \in OrderAt : \E j \in OrderAt' : timeline'[j] = timeline[k]
    BY <1>1, <2>1, <2>2 DEF OrderAt
  <2>5. Orders' \subseteq Orders
    BY <2>3 DEF Orders
  <2>6. Orders \subseteq Orders'
    <3> SUFFICES ASSUME NEW o \in Orders PROVE o \in Orders'
      OBVIOUS
    <3>1. PICK k \in OrderAt : o = [snapshot |-> timeline[k].snapshot, number |-> timeline[k].number]
      BY DEF Orders
    <3>2. PICK j \in OrderAt' : timeline'[j] = timeline[k]
      BY <2>4
    <3>3. QED
      BY <3>1, <3>2 DEF Orders
  <2>7. QED
    BY <2>5, <2>6
<1>5. QED
  BY <1>2, <1>3, <1>4

(* The units of a sale: enough of them, or each line alone.                *)
LEMMA SaleUnits ==
  ASSUME Core, Locks, NEW p \in Processes, Commit(p), NEW s \in Snapshots, s = job[p], NEW v \in Variants
  PROVE  /\ \/ Wants(s, v) <= Units[v]
            \/ Shop!Repeats(s, v) /\ \A l \in Shop!Of(s, v) : UnitsOf[l] <= Units[v]
         /\ stock'[v].available = IF Wants(s, v) <= Units[v] THEN Units[v] - Wants(s, v) ELSE 0
<1>1. /\ Wants(s, v) \in Nat /\ stock[v] \in [quantity : Nat, available : Nat]
      /\ stock[v].available \in Nat
  BY WantsType DEF Core, TypeOK
<1>2. Shop!Of(s, v) = {l \in LinesOf(s) : VariantOf[l] = v}
  BY DEF Shop!Of, LinesOf
<1>3. \A l \in LinesOf(s) : VariantOf[l] = v => UnitsOf[l] <= Units[v]
  BY LockedLines DEF Commit, Enough, Units
<1>4. \/ Wants(s, v) <= Units[v]
      \/ Shop!Repeats(s, v) /\ \A l \in Shop!Of(s, v) : UnitsOf[l] <= Units[v]
  <2>1. CASE Shop!Repeats(s, v)
    BY <1>2, <1>3, <2>1
  <2>2. CASE ~Shop!Repeats(s, v) /\ \E l \in LinesOf(s) : VariantOf[l] = v
    <3>1. PICK l \in LinesOf(s) : VariantOf[l] = v
      BY <2>2
    <3>2. \A k \in LinesOf(s) : VariantOf[k] = VariantOf[l] => k = l
      BY <1>2, <2>2, <3>1 DEF Shop!Repeats
    <3>3. Wants(s, v) = UnitsOf[l]
      BY <3>1, <3>2, WantsOne
    <3>4. QED
      BY <1>3, <3>1, <3>3
  <2>3. CASE \A l \in LinesOf(s) : VariantOf[l] # v
    <3>1. Wants(s, v) = 0
      BY <2>3, WantsNone
    <3>2. QED
      BY <1>1, <3>1 DEF Units
  <2>4. QED
    BY <2>1, <2>2, <2>3
<1>5. stock'[v] = Less(stock[v], Wants(s, v))
  BY DEF Commit
<1>6. Units[v] = stock[v].available
  BY DEF Units
<1>7. stock'[v].available = IF Wants(s, v) <= Units[v] THEN Units[v] - Wants(s, v) ELSE 0
  BY <1>1, <1>5, <1>6, LessType
<1>8. QED
  BY <1>4, <1>7

(* A commit is a sale: the payment is captured, the unique indexes say     *)
(* that the order is new, and the locks that every line is in stock.       *)
LEMMA CommitSale ==
  ASSUME Core, Locks, NEW p \in Processes, Commit(p)
  PROVE  \E s \in Snapshots, n \in Nat : Shop!Sell(s, n) /\ [snapshot |-> s, number |-> n] \in Orders' \ Orders
<1>1. PICK s \in Snapshots : s = job[p] /\ s \in Paid
  BY DEF Commit, Core, Jobs, Working, Tx, Paid
<1>2. PICK n \in Nat : n = seen[p]
  BY DEF Core, TypeOK
<1>3. \A o \in Orders : o.snapshot # s /\ o.number # n
  BY <1>1, <1>2 DEF Commit, Unique, Orders
<1>4. Orders' = Orders \cup {[snapshot |-> s, number |-> n]}
  <2>1. PICK i \in DOMAIN timeline : timeline[i].by = p
    BY DEF Commit, Core, Transactions, Tx
  <2>2. /\ p # None /\ \A k \in DOMAIN timeline : timeline[k].by = p => k = i
    BY <2>1, Sorts DEF Core, Transactions
  <2>3. /\ DOMAIN timeline' = DOMAIN timeline
        /\ timeline'[i] = [by |-> None, snapshot |-> s, number |-> n]
        /\ \A k \in DOMAIN timeline : k # i => timeline'[k] = timeline[k]
    BY <1>1, <1>2, <2>1, <2>2 DEF Commit
  <2>4. timeline'[i].by = None /\ timeline'[i].snapshot = s /\ timeline'[i].number = n
    BY <2>3
  <2>5. OrderAt' = OrderAt \cup {i} /\ i \notin OrderAt
    BY <2>1, <2>2, <2>3, <2>4 DEF OrderAt
  <2>6. \A k \in OrderAt : timeline'[k] = timeline[k]
    BY <2>3, <2>5 DEF OrderAt
  <2>7. QED
    BY <2>4, <2>5, <2>6 DEF Orders
<1>5. Paid' = Paid
  BY DEF Commit, Paid, Captured
<1>6. \A v \in Variants : Shop!Wants(s, v) = Wants(s, v)
  <2>1. \A v \in Variants : Shop!Of(s, v) = {l \in LinesOf(s) : VariantOf[l] = v}
    BY DEF Shop!Of, LinesOf
  <2>2. QED
    BY <2>1 DEF Shop!Wants, Shop!Total, Shop!Cents, Shop!Cardinality, Wants, Total, Cents, Cardinality
<1>7. \A v \in Variants :
        \/ Shop!Wants(s, v) <= Units[v]
        \/ Shop!Repeats(s, v) /\ \A l \in Shop!Of(s, v) : UnitsOf[l] <= Units[v]
  BY <1>1, <1>6, SaleUnits
<1>8. Units' = [v \in Variants |->
                  IF Shop!Wants(s, v) <= Units[v] THEN Units[v] - Shop!Wants(s, v) ELSE 0]
  <2>1. \A v \in Variants :
          stock'[v].available =
            IF Shop!Wants(s, v) <= Units[v] THEN Units[v] - Shop!Wants(s, v) ELSE 0
    BY <1>1, <1>6, SaleUnits
  <2>2. Units' = [v \in Variants |-> stock'[v].available]
    BY DEF Units
  <2>3. QED
    BY <2>1, <2>2
<1>9. Shop!Sell(s, n)
  BY <1>1, <1>3, <1>4, <1>5, <1>7, <1>8 DEF Shop!Sell, Paid, Units
<1>10. [snapshot |-> s, number |-> n] \in Orders' \ Orders
  BY <1>3, <1>4
<1>11. QED
  BY <1>9, <1>10

LEMMA ShopInit == Init => Shop!Init
<1> SUFFICES ASSUME Init PROVE Shop!Init
  OBVIOUS
<1>1. {s \in Snapshots : Captured(s)} = {}
  BY DEF Init, Captured
<1>2. Orders = {}
  BY DEF Init, Orders, OrderAt
<1>3. [v \in Variants |-> stock[v].available] \in [Variants -> Nat]
  BY TypeInit DEF TypeOK
<1>4. QED
  BY <1>1, <1>2, <1>3 DEF Shop!Init

LEMMA ShopNext ==
  ASSUME Core, Locks, [Next]_vars
  PROVE  [Shop!Next]_<<Paid, Orders, Units>>
<1>1. ASSUME UNCHANGED <<intent, Orders, stock>> PROVE UNCHANGED <<Paid, Orders, Units>>
  BY <1>1 DEF Paid, Units, Captured
<1>2. CASE Outside
  <2>1. stock' = stock /\ Orders' = Orders
    BY <1>2, OutsideFrame DEF Core, Orders, OrderAt
  <2>2. ASSUME NEW s \in Snapshots, Pay(s) PROVE Shop!Next
    <3>1. Paid' = Paid \cup {s}
      BY <2>2 DEF Pay, Paid, Captured, Core, TypeOK
    <3>2. Units' = Units
      BY <2>1 DEF Units
    <3>3. Shop!Pay(s)
      BY <2>1, <3>1, <3>2 DEF Shop!Pay, Paid, Units
    <3>4. QED
      BY <3>3 DEF Shop!Next
  <2>3. ASSUME NEW s \in Snapshots, SaveIntent(s) PROVE UNCHANGED <<Paid, Orders, Units>>
    <3>1. Paid' = Paid
      BY <2>3 DEF SaveIntent, Paid, Captured, Core, TypeOK
    <3>2. QED
      BY <2>1, <3>1 DEF Units
  <2>4. CASE intent' = intent
    BY <1>1, <2>1, <2>4
  <2>5. QED
    BY <1>2, <2>2, <2>3, <2>4 DEF Outside, CreateSnapshot, Expire, Decline, PaymentFailed, FillCart,
       Cleanup, CronStart, checkout
<1>3. ASSUME NEW p \in Processes, Inside(p) PROVE [Shop!Next]_<<Paid, Orders, Units>>
  <2>1. intent' = intent
    BY <1>3, InsideFrame DEF Core
  <2>2. CASE Commit(p)
    <3>1. PICK s \in Snapshots, n \in Nat :
            Shop!Sell(s, n) /\ [snapshot |-> s, number |-> n] \in Orders' \ Orders
      BY <2>2, CommitSale
    <3>2. \E o \in Orders' \ Orders : Shop!Sell(s, o.number)
      BY <3>1
    <3>3. QED
      BY <3>2 DEF Shop!Next
  <2>3. ASSUME stock' = stock, Still(p) \/ Begins(p) \/ Undoes(p)
        PROVE  [Shop!Next]_<<Paid, Orders, Units>>
    BY <1>1, <2>1, <2>3, OrdersStay
  <2>4. stock' = stock \/ Commit(p)
    BY <1>3, Holds DEF Drops, Starts, Reads, Grows
  <2>5. Still(p) \/ Begins(p) \/ Undoes(p) \/ Commit(p)
    BY <1>3, Timelines DEF Core, Commits
  <2>6. QED
    BY <2>2, <2>3, <2>4, <2>5
<1>4. CASE UNCHANGED vars
  <2>1. intent' = intent /\ stock' = stock /\ Orders' = Orders
    BY <1>4 DEF vars, checkout, database, Orders, OrderAt
  <2>2. QED
    BY <1>1, <2>1
<1>5. QED
  BY <1>2, <1>3, <1>4, Steps

(* The checkout implements the shop: whichever of the callers gets there,  *)
(* a payment is sold at most once, under its own order number, and out of  *)
(* stock that no other sale has taken, unless several of its lines share   *)
(* a variant (createPaymentIntent, processSuccessfulPayment).              *)
THEOREM Implementation == Spec => ImplementsSales
<1>1. Core /\ Locks /\ [Next]_vars => [Shop!Next]_<<Paid, Orders, Units>>
  BY ShopNext
<1>2. QED
  BY <1>1, ShopInit, CoreAlways, LocksAlways, PTL DEF Spec, ImplementsSales, Shop!Spec, Paid, Units
=============================================================================
