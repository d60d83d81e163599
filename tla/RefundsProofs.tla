--------------------------- MODULE RefundsProofs ---------------------------
(***************************************************************************)
(* Safety of the refund engine for every set of payments, keys and         *)
(* requests, every amount and every interleaving, crash and lost answer.   *)
(* BackInv is what holds of every row; ControlInv and MoneyInv add what    *)
(* holds of the keys, and of the payments, that no two requests of one key *)
(* have disturbed by running at once.                                      *)
(***************************************************************************)
EXTENDS Refunds, FiniteSetTheorems, FunctionTheorems, TLAPS

(***************************************************************************)
(* Sums of money: the cents of a row are counted one by one.               *)
(***************************************************************************)
(* The rows of a finite table hold finitely many cents.                    *)
LEMMA CentsFinite ==
  ASSUME NEW S, IsFiniteSet(S), NEW f, \A k \in S : f[k] \in Nat
  PROVE  IsFiniteSet(Cents(S, f))
<1> DEFINE T == {{k} \X (1 .. f[k]) : k \in S}
           g == [k \in S |-> {k} \X (1 .. f[k])]
<1>1. IsFiniteSet(T)
  <2>1. g \in Surjection(S, T)
    BY DEF Surjection
  <2>2. QED
    BY <2>1, FS_Surjection
<1>2. ASSUME NEW U \in T PROVE IsFiniteSet(U)
  <2>1. PICK k \in S : U = {k} \X (1 .. f[k])
    BY <1>2
  <2>2. IsFiniteSet({k})
    BY FS_Singleton
  <2>3. IsFiniteSet(1 .. f[k])
    BY FS_Interval
  <2>4. QED
    BY <2>1, <2>2, <2>3, FS_Product
<1>3. QED
  BY <1>1, <1>2, FS_UNION DEF Cents

(* One row contributes its amount.                                         *)
LEMMA OneRow ==
  ASSUME NEW k, NEW n \in Nat
  PROVE  IsFiniteSet({k} \X (1 .. n)) /\ Cardinality({k} \X (1 .. n)) = n
<1>1. IsFiniteSet({k}) /\ Cardinality({k}) = 1
  BY FS_Singleton
<1>2. IsFiniteSet(1 .. n) /\ Cardinality(1 .. n) = n
  BY FS_Interval
<1>3. /\ IsFiniteSet({k} \X (1 .. n))
      /\ Cardinality({k} \X (1 .. n)) = Cardinality({k}) * Cardinality(1 .. n)
  BY <1>1, <1>2, FS_Product
<1>4. 1 * n = n
  OBVIOUS
<1>5. QED
  BY <1>1, <1>2, <1>3, <1>4

(* A sum is a natural number.                                              *)
LEMMA TotalType ==
  ASSUME NEW S, IsFiniteSet(S), NEW f, \A k \in S : f[k] \in Nat
  PROVE  Total(S, f) \in Nat
BY CentsFinite, FS_CardinalityType DEF Total

(* A further row adds its amount to the sum.                               *)
LEMMA TotalAdd ==
  ASSUME NEW S, IsFiniteSet(S), NEW k, k \notin S,
         NEW f, \A x \in S \cup {k} : f[x] \in Nat
  PROVE  Total(S \cup {k}, f) = Total(S, f) + f[k]
<1> DEFINE A == Cents(S, f)
           B == {k} \X (1 .. f[k])
<1>1. Cents(S \cup {k}, f) = A \cup B
  BY DEF Cents
<1>2. A \cap B = {}
  BY DEF Cents
<1>3. IsFiniteSet(A) /\ Cardinality(A) \in Nat
  BY CentsFinite, FS_CardinalityType
<1>4. IsFiniteSet(B) /\ Cardinality(B) = f[k]
  BY OneRow
<1>5. Cardinality(A \cap B) = 0
  BY <1>2, FS_EmptySet
<1>6. Cardinality(A \cup B) = Cardinality(A) + Cardinality(B) - Cardinality(A \cap B)
  BY <1>3, <1>4, FS_Union
<1>7. f[k] \in Nat
  OBVIOUS
<1> HIDE DEF A, B
<1>8. Cardinality(A \cup B) = Cardinality(A) + f[k]
  BY <1>3, <1>4, <1>5, <1>6, <1>7
<1>9. QED
  BY <1>1, <1>8 DEF Total, A

(* The sum depends only on the amounts of the rows it adds.                *)
LEMMA TotalAgree ==
  ASSUME NEW S, NEW f, NEW g, \A k \in S : f[k] = g[k]
  PROVE  Total(S, f) = Total(S, g)
<1>1. Cents(S, f) = Cents(S, g)
  BY DEF Cents
<1>2. QED
  BY <1>1 DEF Total

(* Fewer rows, or the same rows in another table, hold no more money.      *)
LEMMA TotalSubset ==
  ASSUME NEW S, NEW T, S \subseteq T, IsFiniteSet(T),
         NEW f, NEW g, \A k \in S : f[k] = g[k], \A k \in T : g[k] \in Nat
  PROVE  Total(S, f) <= Total(T, g)
<1>1. Cents(S, f) \subseteq Cents(T, g)
  BY DEF Cents
<1>2. IsFiniteSet(Cents(T, g))
  BY CentsFinite
<1>3. QED
  BY <1>1, <1>2, FS_Subset DEF Total
-----------------------------------------------------------------------------
(* A request past its reservation.                                         *)
Bound == {"send", "await", "finalise", "commit", "fail"}

(* The row a request reserved, or resumed, is still there with the same    *)
(* payment and amount, whatever its status has become.                     *)
RequestsKeepTheirRow ==
  \A r \in Requests : (pc[r] \in Bound \/ wire[r] # "none") =>
    /\ Row(r).status # "NONE"
    /\ Row(r).payment = PaymentOf[r]
    /\ Row(r).amount = held[r]

SentOnce == \A r \in Requests : pc[r] \in {"idle", "reserve", "send"} => wire[r] = "none"

RowsArePositive == \A k \in Keys : refund[k].status # "NONE" => refund[k].amount > 0

(* A request that goes on to record its refund has an answer of Stripe     *)
(* behind it, and Stripe has not forgotten.                                *)
AnswersAreTrue ==
  \A r \in Requests : (wire[r] = "ok" \/ pc[r] \in {"finalise", "commit"}) =>
    stripe[KeyOf[r]] = [payment |-> PaymentOf[r], amount |-> held[r]]

StripeWithinPrice == \A p \in Payments : StripeTotal(p) <= Price[p]

BackInv ==
  /\ TypeOK
  /\ RequestsKeepTheirRow
  /\ SentOnce
  /\ RowsArePositive
  /\ AnswersAreTrue
  /\ CompletedIsPaidBack
  /\ StripeWithinPrice

(***************************************************************************)
(* Sums of rows are sums over finite sets of natural numbers.              *)
(***************************************************************************)
LEMMA RowSums ==
  ASSUME TypeOK, NEW p \in Payments, NEW X
  PROVE  /\ IsFiniteSet(Rows(p, X))
         /\ \A k \in Keys : RowAmounts[k] = refund[k].amount /\ RowAmounts[k] \in Nat
         /\ Total(Rows(p, X), RowAmounts) \in Nat
<1>1. Rows(p, X) \subseteq Keys
  BY DEF Rows
<1>2. IsFiniteSet(Rows(p, X))
  BY <1>1, ConstantsAssumption, FS_Subset
<1>3. \A k \in Keys : RowAmounts[k] = refund[k].amount /\ RowAmounts[k] \in Nat
  BY DEF TypeOK, RowAmounts
<1>4. QED
  BY <1>1, <1>2, <1>3, TotalType

LEMMA StripeSums ==
  ASSUME TypeOK, NEW p \in Payments
  PROVE  /\ IsFiniteSet(PaidBack(p))
         /\ \A k \in Keys : StripeAmounts[k] = stripe[k].amount /\ StripeAmounts[k] \in Nat
         /\ StripeTotal(p) \in Nat
<1>1. PaidBack(p) \subseteq Keys
  BY DEF PaidBack
<1>2. IsFiniteSet(PaidBack(p))
  BY <1>1, ConstantsAssumption, FS_Subset
<1>3. \A k \in Keys : StripeAmounts[k] = stripe[k].amount /\ StripeAmounts[k] \in Nat
  BY DEF TypeOK, StripeAmounts
<1>4. QED
  BY <1>1, <1>2, <1>3, TotalType DEF StripeTotal

(***************************************************************************)
(* Type correctness.                                                       *)
(***************************************************************************)
LEMMA TypeInit == Init => TypeOK
BY ConstantsAssumption
   DEF Init, TypeOK, PaymentStatus, RefundStatus, Running, Ended

LEMMA TypeNext == TypeOK /\ [Next]_vars => TypeOK'
<1> SUFFICES ASSUME TypeOK, [Next]_vars
             PROVE  TypeOK'
  OBVIOUS
<1> USE ConstantsAssumption
    DEF TypeOK, PaymentStatus, RefundStatus, Running, Ended, Row
<1>1. ASSUME NEW r \in Requests, Check(r) PROVE TypeOK'
  BY <1>1 DEF Check, SharedBy
<1>2. ASSUME NEW r \in Requests, Reserve(r) PROVE TypeOK'
  <2>1. CASE Admissible(r) /\ Row(r).status = "NONE"
    <3>1. Total(Rows(PaymentOf[r], {"PROCESSING", "COMPLETED"}), RowAmounts) \in Nat
      BY RowSums
    <3>2. RefundAmount(r) \in Nat
      BY <2>1, <3>1 DEF RefundAmount, Remaining, Reserved, Admissible
    <3>3. [status |-> "PROCESSING", payment |-> PaymentOf[r], amount |-> RefundAmount(r)]
            \in [status : RefundStatus, payment : Payments, amount : Nat]
      BY <3>2
    <3>4. refund' \in [Keys -> [status : RefundStatus, payment : Payments, amount : Nat]]
      BY <1>2, <2>1, <3>3 DEF Reserve
    <3>5. held' \in [Requests -> Nat]
      BY <1>2, <2>1, <3>2 DEF Reserve
    <3>6. QED
      BY <1>2, <2>1, <3>4, <3>5 DEF Reserve
  <2>2. CASE ~(Admissible(r) /\ Row(r).status = "NONE")
    BY <1>2, <2>2 DEF Reserve
  <2>3. QED
    BY <2>1, <2>2
<1>3. ASSUME NEW r \in Requests, Send(r) PROVE TypeOK'
  BY <1>3 DEF Send
<1>4. ASSUME NEW r \in Requests, StripeAccepts(r) \/ StripeRejects(r) PROVE TypeOK'
  <2>1. [payment |-> PaymentOf[r], amount |-> held[r]] \in [payment : Payments, amount : Nat]
    OBVIOUS
  <2>2. stripe' \in [Keys -> [payment : Payments, amount : Nat]]
    BY <1>4, <2>1 DEF StripeAccepts, StripeRejects
  <2>3. QED
    BY <1>4, <2>2 DEF StripeAccepts, StripeRejects
<1>5. ASSUME NEW r \in Requests, Answered(r) \/ CallFails(r) PROVE TypeOK'
  BY <1>5 DEF Answered, CallFails
<1>6. ASSUME NEW r \in Requests, MarkFailed(r) PROVE TypeOK'
  BY <1>6 DEF MarkFailed
<1>7. ASSUME NEW r \in Requests, Finalise(r) PROVE TypeOK'
  BY <1>7 DEF Finalise, NewStatus
<1>8. ASSUME NEW r \in Requests, Commit(r) PROVE TypeOK'
  BY <1>8 DEF Commit
<1>9. ASSUME NEW r \in Requests, Crash(r) PROVE TypeOK'
  BY <1>9 DEF Crash
<1>10. ASSUME UNCHANGED vars PROVE TypeOK'
  BY <1>10 DEF vars
<1>11. QED
  BY <1>1, <1>2, <1>3, <1>4, <1>5, <1>6, <1>7, <1>8, <1>9, <1>10
     DEF Next, Proceed, AllEnded

(* The variables of the refund engine keep their types.                    *)
THEOREM TypeCorrect == Spec => []TypeOK
<1>1. Init => TypeOK
  BY TypeInit
<1>2. TypeOK /\ [Next]_vars => TypeOK'
  BY TypeNext
<1>3. QED
  BY <1>1, <1>2, PTL DEF Spec
(***************************************************************************)
(* What Stripe returned, without any assumption on the callers.            *)
(***************************************************************************)
LEMMA BackInit == Init => BackInv
<1> SUFFICES ASSUME Init PROVE BackInv
  OBVIOUS
<1>1. TypeOK
  BY TypeInit
<1>2. StripeWithinPrice
  <2> SUFFICES ASSUME NEW p \in Payments PROVE StripeTotal(p) <= Price[p]
    BY DEF StripeWithinPrice
  <2>1. \A k \in Keys : StripeAmounts[k] = 0
    BY DEF Init, StripeAmounts
  <2>2. Cents(PaidBack(p), StripeAmounts) = {}
    BY <2>1 DEF Cents, PaidBack
  <2>3. StripeTotal(p) = 0
    BY <2>2, FS_EmptySet DEF StripeTotal, Total
  <2>4. QED
    BY <2>3, ConstantsAssumption
<1>3. QED
  BY <1>1, <1>2, ConstantsAssumption
     DEF Init, BackInv, RequestsKeepTheirRow, SentOnce, RowsArePositive,
         AnswersAreTrue, CompletedIsPaidBack, Bound, Row

(* The admission test of phase 1 leaves a positive amount.                 *)
LEMMA AdmittedAmount ==
  ASSUME TypeOK, NEW r \in Requests, Admissible(r)
  PROVE  /\ RefundAmount(r) \in Nat \ {0}
         /\ Reserved(PaymentOf[r]) + RefundAmount(r) <= Price[PaymentOf[r]]
<1>1. Reserved(PaymentOf[r]) \in Nat
  BY RowSums, ConstantsAssumption DEF Reserved
<1>2. PaymentOf[r] \in Payments /\ Price[PaymentOf[r]] \in Nat /\ AskOf[r] \in Nat
  BY ConstantsAssumption
<1>3. QED
  BY <1>1, <1>2 DEF Admissible, RefundAmount, Remaining

(* A refund Stripe accepts keeps what it returned within the charge.       *)
LEMMA StripeStaysWithin ==
  ASSUME BackInv, TypeOK', NEW r \in Requests, StripeAccepts(r)
  PROVE  StripeWithinPrice'
<1> DEFINE k == KeyOf[r]
           p == PaymentOf[r]
<1>0. TypeOK /\ StripeWithinPrice /\ k \in Keys /\ p \in Payments /\ held[r] \in Nat
  BY ConstantsAssumption DEF BackInv, TypeOK
<1>1. CASE stripe' = stripe
  <2>1. \A q \in Payments : StripeTotal(q)' = StripeTotal(q)
    BY <1>1 DEF StripeTotal, PaidBack, StripeAmounts
  <2>2. QED
    BY <1>0, <2>1 DEF StripeWithinPrice
<1>2. CASE /\ StripeTotal(p) + held[r] <= Price[p]
           /\ stripe' = [stripe EXCEPT ![k] = [payment |-> p, amount |-> held[r]]]
  <2>1. \A x \in Keys \ {k} : StripeAmounts'[x] = StripeAmounts[x]
    BY <1>2, <1>0 DEF StripeAmounts, TypeOK
  <2>2. StripeAmounts'[k] = held[r]
    BY <1>2, <1>0 DEF StripeAmounts, TypeOK
  <2>3. ASSUME NEW q \in Payments, q # p PROVE StripeTotal(q)' <= Price[q]
    <3>1. PaidBack(q)' \subseteq PaidBack(q) /\ k \notin PaidBack(q)'
      BY <1>2, <1>0, <2>3 DEF PaidBack, TypeOK
    <3>2. PaidBack(q) \subseteq Keys
      BY DEF PaidBack
    <3>3. \A x \in PaidBack(q)' : StripeAmounts'[x] = StripeAmounts[x]
      BY <2>1, <3>1, <3>2
    <3>4. /\ IsFiniteSet(PaidBack(q)) /\ StripeTotal(q) \in Nat
          /\ \A x \in PaidBack(q) : StripeAmounts[x] \in Nat
      BY <1>0, <3>2, StripeSums
    <3>5. Total(PaidBack(q)', StripeAmounts') <= Total(PaidBack(q), StripeAmounts)
      BY <3>1, <3>3, <3>4, TotalSubset
    <3>6. Total(PaidBack(q)', StripeAmounts') \in Nat
      <4>1. IsFiniteSet(PaidBack(q)')
        BY <3>1, <3>4, FS_Subset
      <4>2. QED
        BY <3>1, <3>3, <3>4, <4>1, TotalType
    <3>7. QED
      BY <1>0, <3>4, <3>5, <3>6, ConstantsAssumption DEF StripeTotal, StripeWithinPrice
  <2>4. StripeTotal(p)' <= Price[p]
    <3> DEFINE S == PaidBack(p) \ {k}
    <3>1. PaidBack(p)' = S \cup {k} /\ PaidBack(p) \subseteq Keys
      BY <1>2, <1>0 DEF PaidBack, TypeOK
    <3>2. /\ IsFiniteSet(PaidBack(p)) /\ StripeTotal(p) \in Nat
          /\ \A x \in PaidBack(p) : StripeAmounts[x] \in Nat
      BY <1>0, <3>1, StripeSums
    <3>3. IsFiniteSet(S)
      BY <3>2, FS_Subset
    <3>4. \A x \in S : StripeAmounts'[x] = StripeAmounts[x] /\ StripeAmounts[x] \in Nat
      BY <2>1, <3>1, <3>2
    <3>5. Total(S, StripeAmounts') <= Total(PaidBack(p), StripeAmounts)
      BY <3>2, <3>4, TotalSubset
    <3>6. Total(S \cup {k}, StripeAmounts') = Total(S, StripeAmounts') + held[r]
      <4>1. k \notin S /\ \A x \in S \cup {k} : StripeAmounts'[x] \in Nat
        BY <1>0, <2>2, <3>4
      <4>2. Total(S \cup {k}, StripeAmounts') = Total(S, StripeAmounts') + StripeAmounts'[k]
        BY <3>3, <4>1, TotalAdd
      <4>3. QED
        BY <2>2, <4>2
    <3>7. Total(S, StripeAmounts') \in Nat
      BY <3>3, <3>4, TotalType
    <3>8. QED
      BY <1>0, <1>2, <3>1, <3>2, <3>5, <3>6, <3>7, ConstantsAssumption DEF StripeTotal
  <2>5. QED
    BY <2>3, <2>4 DEF StripeWithinPrice
<1>3. QED
  BY <1>1, <1>2 DEF StripeAccepts
LEMMA BackNext == BackInv /\ [Next]_vars => BackInv'
<1> SUFFICES ASSUME BackInv, [Next]_vars
             PROVE  BackInv'
  OBVIOUS
<1> DEFINE Parts == /\ RequestsKeepTheirRow /\ SentOnce /\ RowsArePositive
                    /\ AnswersAreTrue /\ CompletedIsPaidBack
<1>a. TypeOK /\ Parts /\ StripeWithinPrice
  BY DEF BackInv
<1>b. TypeOK'
  BY <1>a, TypeNext
<1>c. \A r \in Requests : KeyOf[r] \in Keys /\ PaymentOf[r] \in Payments
  BY ConstantsAssumption
<1>d. ASSUME stripe' = stripe PROVE StripeWithinPrice'
  BY <1>a, <1>d DEF StripeWithinPrice, StripeTotal, PaidBack, StripeAmounts
<1> USE DEF Bound, Row, TypeOK, RequestsKeepTheirRow, SentOnce, RowsArePositive,
            AnswersAreTrue, CompletedIsPaidBack
<1>1. ASSUME NEW r \in Requests, Check(r) PROVE BackInv'
  <2>1. UNCHANGED <<payment, refund, stripe, wire, target>> /\ pc[r] = "idle" /\ wire[r] = "none"
    BY <1>a, <1>1 DEF Check
  <2>2. /\ pc' = [pc EXCEPT ![r] = pc'[r]] /\ held' = [held EXCEPT ![r] = held'[r]]
        /\ pc'[r] \in {"reserve", "rejected", "replayed", "send"}
        /\ pc'[r] = "send" => /\ Row(r).status = "PROCESSING"
                               /\ Row(r).payment = PaymentOf[r]
                               /\ held'[r] = Row(r).amount
    BY <1>a, <1>c, <1>1 DEF Check, Conflict
  <2>3. RequestsKeepTheirRow'
    BY <1>a, <1>c, <2>1, <2>2
  <2>4. SentOnce'
    BY <1>a, <2>1, <2>2
  <2>5. AnswersAreTrue'
    <3> SUFFICES ASSUME NEW s \in Requests,
                        wire'[s] = "ok" \/ pc'[s] \in {"finalise", "commit"}
                 PROVE  stripe'[KeyOf[s]] = [payment |-> PaymentOf[s], amount |-> held'[s]]
      OBVIOUS
    <3>1. s # r /\ held'[s] = held[s] /\ pc'[s] = pc[s]
      BY <1>a, <2>1, <2>2
    <3>2. QED
      BY <1>a, <2>1, <3>1
  <2>6. RowsArePositive' /\ CompletedIsPaidBack'
    BY <1>a, <2>1
  <2>7. QED
    BY <1>b, <1>d, <2>1, <2>3, <2>4, <2>5, <2>6 DEF BackInv
<1>2. ASSUME NEW r \in Requests, Reserve(r) PROVE BackInv'
  <2>1. CASE Admissible(r) /\ Row(r).status = "NONE"
    <3>1. RefundAmount(r) \in Nat \ {0}
      BY <1>a, <2>1, AdmittedAmount
    <3>2. /\ refund' = [refund EXCEPT ![KeyOf[r]] =
                          [status |-> "PROCESSING", payment |-> PaymentOf[r],
                           amount |-> RefundAmount(r)]]
          /\ held' = [held EXCEPT ![r] = RefundAmount(r)]
          /\ pc' = [pc EXCEPT ![r] = "send"]
          /\ pc[r] = "reserve"
          /\ UNCHANGED <<payment, stripe, wire, target>>
      BY <1>2, <2>1 DEF Reserve
    <3>3. /\ RequestsKeepTheirRow'
          /\ SentOnce'
      BY <1>a, <1>c, <2>1, <3>1, <3>2
    <3>4. \A k \in Keys : k # KeyOf[r] => refund'[k] = refund[k]
      BY <1>a, <1>c, <3>2
    <3>5. /\ refund'[KeyOf[r]].status = "PROCESSING"
          /\ refund'[KeyOf[r]].amount = RefundAmount(r)
      BY <1>a, <1>c, <3>2
    <3>6. RowsArePositive'
      BY <1>a, <3>1, <3>4, <3>5
    <3>7. AnswersAreTrue'
      BY <1>a, <1>c, <3>2
    <3>8. CompletedIsPaidBack'
      BY <1>a, <3>2, <3>4, <3>5
    <3>9. QED
      BY <1>b, <1>d, <3>2, <3>3, <3>6, <3>7, <3>8 DEF BackInv
  <2>2. CASE ~(Admissible(r) /\ Row(r).status = "NONE")
    <3>1. /\ pc[r] = "reserve" /\ pc' = [pc EXCEPT ![r] = "rejected"]
          /\ UNCHANGED <<payment, refund, stripe, held, wire, target>>
      BY <1>2, <2>2 DEF Reserve
    <3>2. Parts'
      BY <1>a, <1>c, <3>1
    <3>3. QED
      BY <1>b, <1>d, <3>1, <3>2 DEF BackInv
  <2>3. QED
    BY <2>1, <2>2
<1>3. ASSUME NEW r \in Requests, Send(r) PROVE BackInv'
  BY <1>a, <1>b, <1>c, <1>d, <1>3 DEF Send, BackInv
<1>4. ASSUME NEW r \in Requests, StripeAccepts(r) PROVE BackInv'
  <2>1. StripeWithinPrice'
    BY <1>b, <1>4, StripeStaysWithin
  <2>2. held[r] > 0 /\ held[r] \in Nat
    BY <1>a, <1>c, <1>4 DEF StripeAccepts
  <2>3. \A k \in Keys : stripe[k].amount # 0 => stripe'[k] = stripe[k]
    BY <1>a, <1>c, <1>4 DEF StripeAccepts
  <2>4. stripe'[KeyOf[r]] = [payment |-> PaymentOf[r], amount |-> held[r]]
    BY <1>a, <1>c, <1>4 DEF StripeAccepts
  <2>5. AnswersAreTrue'
    <3> SUFFICES ASSUME NEW s \in Requests,
                        wire'[s] = "ok" \/ pc'[s] \in {"finalise", "commit"}
                 PROVE  stripe'[KeyOf[s]] = [payment |-> PaymentOf[s], amount |-> held'[s]]
      OBVIOUS
    <3>1. CASE s = r
      BY <1>4, <2>4, <3>1 DEF StripeAccepts
    <3>2. CASE s # r
      <4>1. wire[s] = "ok" \/ pc[s] \in {"finalise", "commit"}
        BY <1>a, <1>4, <3>2 DEF StripeAccepts
      <4>2. stripe[KeyOf[s]] = [payment |-> PaymentOf[s], amount |-> held[s]]
        BY <1>a, <4>1
      <4>3. held[s] # 0
        BY <1>a, <1>c, <4>1
      <4>4. QED
        BY <1>c, <1>4, <2>3, <4>2, <4>3 DEF StripeAccepts
    <3>3. QED
      BY <3>1, <3>2
  <2>6. CompletedIsPaidBack'
    BY <1>a, <1>4, <2>3 DEF StripeAccepts
  <2>7. RequestsKeepTheirRow' /\ SentOnce' /\ RowsArePositive'
    BY <1>a, <1>c, <1>4 DEF StripeAccepts
  <2>8. QED
    BY <1>b, <2>1, <2>5, <2>6, <2>7 DEF BackInv
<1>5. ASSUME NEW r \in Requests, StripeRejects(r) PROVE BackInv'
  <2>1. wire' = [wire EXCEPT ![r] = "error"] /\ wire[r] = "sent"
        /\ UNCHANGED <<refund, stripe, pc, held>>
    BY <1>5 DEF StripeRejects
  <2>2. RequestsKeepTheirRow' /\ SentOnce'
    BY <1>a, <2>1
  <2>3. RowsArePositive' /\ AnswersAreTrue' /\ CompletedIsPaidBack'
    BY <1>a, <2>1
  <2>4. QED
    BY <1>b, <1>d, <2>1, <2>2, <2>3 DEF BackInv
<1>6. ASSUME NEW r \in Requests, Answered(r) \/ CallFails(r) PROVE BackInv'
  <2>1. /\ pc[r] = "await"
        /\ \/ pc' = [pc EXCEPT ![r] = "finalise"] /\ wire[r] = "ok"
           \/ pc' = [pc EXCEPT ![r] = "fail"]
        /\ UNCHANGED <<refund, stripe, held, wire>>
    BY <1>6 DEF Answered, CallFails
  <2>2. RequestsKeepTheirRow' /\ SentOnce'
    BY <1>a, <2>1
  <2>3. RowsArePositive' /\ AnswersAreTrue' /\ CompletedIsPaidBack'
    BY <1>a, <2>1
  <2>4. QED
    BY <1>b, <1>d, <2>1, <2>2, <2>3 DEF BackInv
<1>7. ASSUME NEW r \in Requests, MarkFailed(r) PROVE BackInv'
  <2>1. /\ refund' = [refund EXCEPT ![KeyOf[r]].status = "FAILED"]
        /\ pc' = [pc EXCEPT ![r] = "failed"]
        /\ pc[r] = "fail"
        /\ UNCHANGED <<stripe, held, wire>>
    BY <1>7 DEF MarkFailed
  <2>2. RequestsKeepTheirRow' /\ SentOnce'
    BY <1>a, <1>c, <2>1
  <2>3. RowsArePositive'
    <3> SUFFICES ASSUME NEW k \in Keys, refund'[k].status # "NONE"
                 PROVE  refund'[k].amount > 0
      OBVIOUS
    <3>1. refund'[k].amount = refund[k].amount
      BY <1>a, <1>c, <2>1
    <3>2. refund[k].status # "NONE"
      BY <1>a, <1>c, <2>1
    <3>3. QED
      BY <1>a, <3>1, <3>2
  <2>4. AnswersAreTrue'
    BY <1>a, <1>c, <2>1
  <2>5. CompletedIsPaidBack'
    <3> SUFFICES ASSUME NEW k \in Keys, refund'[k].status = "COMPLETED"
                 PROVE  stripe[k] = [payment |-> refund'[k].payment, amount |-> refund'[k].amount]
      BY <2>1
    <3>1. k # KeyOf[r] /\ refund'[k] = refund[k]
      BY <1>a, <1>c, <2>1
    <3>2. QED
      BY <1>a, <3>1
  <2>6. QED
    BY <1>b, <1>d, <2>1, <2>2, <2>3, <2>4, <2>5 DEF BackInv
<1>8. ASSUME NEW r \in Requests, Finalise(r) PROVE BackInv'
  <2>1. /\ pc' = [pc EXCEPT ![r] = "commit"] /\ pc[r] = "finalise"
        /\ UNCHANGED <<refund, stripe, held, wire>>
    BY <1>8 DEF Finalise
  <2>2. RequestsKeepTheirRow' /\ SentOnce'
    BY <1>a, <2>1
  <2>3. RowsArePositive' /\ AnswersAreTrue' /\ CompletedIsPaidBack'
    BY <1>a, <2>1
  <2>4. QED
    BY <1>b, <1>d, <2>1, <2>2, <2>3 DEF BackInv
<1>9. ASSUME NEW r \in Requests, Commit(r) PROVE BackInv'
  <2>1. /\ refund' = [refund EXCEPT ![KeyOf[r]].status = "COMPLETED"]
        /\ pc' = [pc EXCEPT ![r] = "refunded"]
        /\ pc[r] = "commit"
        /\ UNCHANGED <<stripe, held, wire>>
    BY <1>9 DEF Commit
  <2>2. RequestsKeepTheirRow' /\ SentOnce'
    BY <1>a, <1>c, <2>1
  <2>3. RowsArePositive'
    <3> SUFFICES ASSUME NEW k \in Keys, refund'[k].status # "NONE"
                 PROVE  refund'[k].amount > 0
      OBVIOUS
    <3>1. refund'[k].amount = refund[k].amount
      BY <1>a, <1>c, <2>1
    <3>2. refund[k].status # "NONE"
      BY <1>a, <1>c, <2>1
    <3>3. QED
      BY <1>a, <3>1, <3>2
  <2>4. AnswersAreTrue'
    BY <1>a, <1>c, <2>1
  <2>5. CompletedIsPaidBack'
    <3> SUFFICES ASSUME NEW k \in Keys, refund'[k].status = "COMPLETED"
                 PROVE  stripe[k] = [payment |-> refund'[k].payment, amount |-> refund'[k].amount]
      BY <2>1
    <3>1. refund'[k].amount = refund[k].amount /\ refund'[k].payment = refund[k].payment
      BY <1>a, <1>c, <2>1
    <3>2. CASE k = KeyOf[r]
      <4>1. stripe[k] = [payment |-> PaymentOf[r], amount |-> held[r]]
        BY <1>a, <2>1, <3>2
      <4>2. refund[k].payment = PaymentOf[r] /\ refund[k].amount = held[r]
        BY <1>a, <2>1, <3>2
      <4>3. QED
        BY <3>1, <4>1, <4>2
    <3>3. CASE k # KeyOf[r]
      <4>1. refund'[k] = refund[k]
        BY <1>a, <2>1, <3>3
      <4>2. QED
        BY <1>a, <4>1
    <3>4. QED
      BY <3>2, <3>3
  <2>6. QED
    BY <1>b, <1>d, <2>1, <2>2, <2>3, <2>4, <2>5 DEF BackInv
<1>10. ASSUME NEW r \in Requests, Crash(r) PROVE BackInv'
  <2>1. /\ pc' = [pc EXCEPT ![r] = "crashed"]
        /\ UNCHANGED <<refund, stripe, held, wire>>
    BY <1>10 DEF Crash
  <2>2. RequestsKeepTheirRow' /\ SentOnce'
    BY <1>a, <2>1
  <2>3. RowsArePositive' /\ AnswersAreTrue' /\ CompletedIsPaidBack'
    BY <1>a, <2>1
  <2>4. QED
    BY <1>b, <1>d, <2>1, <2>2, <2>3 DEF BackInv
<1>11. ASSUME UNCHANGED vars PROVE BackInv'
  BY <1>a, <1>b, <1>d, <1>11 DEF vars, BackInv
<1>12. QED
  BY <1>1, <1>2, <1>3, <1>4, <1>5, <1>6, <1>7, <1>8, <1>9, <1>10, <1>11
     DEF Next, Proceed, AllEnded

LEMMA BackAlways == Spec => []BackInv
BY BackInit, BackNext, PTL DEF Spec

(* A COMPLETED row is backed by a refund of Stripe, for all callers.       *)
THEOREM CompletedRowsArePaidBack == Spec => []CompletedIsPaidBack
<1>1. BackInv => CompletedIsPaidBack
  BY DEF BackInv
<1>2. QED
  BY <1>1, BackAlways, PTL

(* The completed refunds of a payment never exceed it, for all callers:    *)
(* they are among what Stripe returned.                                    *)
THEOREM CompletedRefundsWithinPrice == Spec => []CompletedWithinPrice
<1>1. BackInv => CompletedWithinPrice
  <2> SUFFICES ASSUME BackInv, NEW p \in Payments PROVE Completed(p) <= Price[p]
    BY DEF CompletedWithinPrice
  <2>1. TypeOK /\ CompletedIsPaidBack /\ StripeTotal(p) <= Price[p] /\ Price[p] \in Nat
    BY ConstantsAssumption DEF BackInv, StripeWithinPrice
  <2>a. ASSUME NEW k \in Rows(p, {"COMPLETED"})
        PROVE  k \in PaidBack(p) /\ RowAmounts[k] = StripeAmounts[k]
    <3>1. k \in Keys /\ refund[k].payment = p /\ refund[k].status = "COMPLETED"
      BY DEF Rows
    <3>2. stripe[k] = [payment |-> p, amount |-> refund[k].amount]
      BY <2>1, <3>1 DEF CompletedIsPaidBack
    <3>3. stripe[k].payment = p /\ stripe[k].amount = refund[k].amount
      BY <3>2
    <3>4. QED
      BY <3>1, <3>3 DEF PaidBack, RowAmounts, StripeAmounts
  <2>2. Rows(p, {"COMPLETED"}) \subseteq PaidBack(p)
    BY <2>a
  <2>3. \A k \in Rows(p, {"COMPLETED"}) : RowAmounts[k] = StripeAmounts[k]
    BY <2>a
  <2>4. /\ IsFiniteSet(PaidBack(p)) /\ StripeTotal(p) \in Nat
        /\ \A k \in PaidBack(p) : StripeAmounts[k] \in Nat
    BY <2>1, StripeSums DEF PaidBack
  <2>5. Total(Rows(p, {"COMPLETED"}), RowAmounts) <= Total(PaidBack(p), StripeAmounts)
    BY <2>2, <2>3, <2>4, TotalSubset
  <2>6. Total(Rows(p, {"COMPLETED"}), RowAmounts) \in Nat
    BY <2>1, RowSums
  <2>7. QED
    BY <2>1, <2>4, <2>5, <2>6 DEF Completed, StripeTotal
<1>2. QED
  BY <1>1, BackAlways, PTL

(***************************************************************************)
(* Keys that no two requests ran at once.  A request past its reservation  *)
(* then finds its row still PROCESSING (BoundRowsAreProcessing): no stale  *)
(* copy is saved over a settled row.                                       *)
(***************************************************************************)
OnePerKey ==
  \A r, s \in Requests :
    /\ KeyOf[r] = KeyOf[s] /\ KeyOf[r] \notin shared
    /\ pc[r] \in Running /\ pc[s] \in Running
    => r = s

BoundRowsAreProcessing ==
  \A r \in Requests : pc[r] \in Bound /\ KeyOf[r] \notin shared => Row(r).status = "PROCESSING"

(* One request at a time in phase 3 of a payment.                          *)
OneFinaliser ==
  \A r, s \in Requests :
    /\ PaymentOf[r] = PaymentOf[s] /\ PaymentOf[r] \notin lapped
    /\ pc[r] = "commit" /\ pc[s] = "commit"
    => r = s

ControlInv == OnePerKey /\ BoundRowsAreProcessing /\ AnsweredRefundsStand /\ OneFinaliser

(***************************************************************************)
(* Control: who runs, and in which status its row is.                      *)
(***************************************************************************)
LEMMA ControlNext ==
  ASSUME BackInv, ControlInv, [Next]_vars
  PROVE  ControlInv'
<1>a. /\ TypeOK /\ OnePerKey /\ BoundRowsAreProcessing /\ AnsweredRefundsStand
      /\ OneFinaliser
      /\ \A r \in Requests : KeyOf[r] \in Keys /\ PaymentOf[r] \in Payments
  BY ConstantsAssumption DEF ControlInv, BackInv
<1> USE DEF TypeOK, OnePerKey, BoundRowsAreProcessing, AnsweredRefundsStand, OneFinaliser,
            Running, Bound, Row
<1>1. ASSUME NEW r \in Requests, Check(r) PROVE ControlInv'
  <2>1. /\ pc[r] = "idle" /\ refund' = refund /\ lapped' = lapped
        /\ shared \subseteq shared'
        /\ \A s \in Requests \ {r} :
             KeyOf[s] = KeyOf[r] /\ pc[s] \in Running => KeyOf[r] \in shared'
        /\ pc' = [pc EXCEPT ![r] = pc'[r]]
        /\ pc'[r] \in {"reserve", "rejected", "replayed", "send"}
        /\ pc'[r] = "send" => Row(r).status = "PROCESSING"
        /\ pc'[r] = "replayed" => Row(r).status = "COMPLETED"
    BY <1>a, <1>1 DEF Check, SharedBy, SameKey
  <2>2. OnePerKey'
    BY <1>a, <2>1
  <2>3. BoundRowsAreProcessing' /\ AnsweredRefundsStand'
    BY <1>a, <2>1
  <2>4. OneFinaliser'
    BY <1>a, <2>1
  <2>5. QED
    BY <2>2, <2>3, <2>4 DEF ControlInv
<1>2. ASSUME NEW r \in Requests, Reserve(r) PROVE ControlInv'
  <2>1. /\ pc[r] = "reserve"
        /\ pc' = [pc EXCEPT ![r] = pc'[r]]
        /\ \/ /\ pc'[r] = "send" /\ Row(r).status = "NONE"
              /\ refund'[KeyOf[r]].status = "PROCESSING"
           \/ pc'[r] = "rejected" /\ refund' = refund
        /\ \A k \in Keys : k # KeyOf[r] => refund'[k] = refund[k]
        /\ UNCHANGED <<shared, lapped>>
    BY <1>a, <1>2 DEF Reserve
  <2>2. OnePerKey' /\ OneFinaliser'
    BY <1>a, <2>1
  <2>3. BoundRowsAreProcessing' /\ AnsweredRefundsStand'
    BY <1>a, <2>1
  <2>4. QED
    BY <2>2, <2>3 DEF ControlInv
<1>3. ASSUME NEW r \in Requests,
             \/ Send(r) \/ StripeAccepts(r) \/ StripeRejects(r)
             \/ Answered(r) \/ CallFails(r) \/ Crash(r)
      PROVE  ControlInv'
  <2>1. /\ refund' = refund
        /\ \/ pc' = pc
           \/ /\ pc' = [pc EXCEPT ![r] = pc'[r]] /\ pc[r] \in Running
              /\ \/ pc[r] \in Bound /\ pc'[r] \in Bound \ {"commit"}
                 \/ pc'[r] = "crashed"
        /\ UNCHANGED <<shared, lapped>>
    BY <1>a, <1>3 DEF Send, StripeAccepts, StripeRejects, Answered, CallFails, Crash
  <2>2. OnePerKey' /\ OneFinaliser'
    BY <1>a, <2>1
  <2>3. BoundRowsAreProcessing' /\ AnsweredRefundsStand'
    BY <1>a, <2>1
  <2>4. QED
    BY <2>2, <2>3 DEF ControlInv
<1>4. ASSUME NEW r \in Requests, Finalise(r) PROVE ControlInv'
  <2>1. /\ refund' = refund /\ shared' = shared
        /\ pc' = [pc EXCEPT ![r] = "commit"] /\ pc[r] = "finalise"
        /\ lapped \subseteq lapped'
        /\ \A s \in Requests \ {r} :
             pc[s] = "commit" /\ PaymentOf[s] = PaymentOf[r] => PaymentOf[r] \in lapped'
    BY <1>a, <1>4 DEF Finalise
  <2>2. OnePerKey'
    BY <1>a, <2>1
  <2>3. BoundRowsAreProcessing' /\ AnsweredRefundsStand'
    BY <1>a, <2>1
  <2>4. OneFinaliser'
    BY <1>a, <2>1
  <2>5. QED
    BY <2>2, <2>3, <2>4 DEF ControlInv
<1>5. ASSUME NEW r \in Requests, MarkFailed(r) \/ Commit(r) PROVE ControlInv'
  <2>1. /\ pc[r] \in Bound
        /\ \/ pc' = [pc EXCEPT ![r] = "failed"]
           \/ /\ pc' = [pc EXCEPT ![r] = "refunded"]
              /\ refund'[KeyOf[r]].status = "COMPLETED"
        /\ \A k \in Keys : k # KeyOf[r] => refund'[k] = refund[k]
        /\ UNCHANGED <<shared, lapped>>
    BY <1>a, <1>5 DEF MarkFailed, Commit
  <2>0. /\ \A s \in Requests : pc'[s] \in Running => pc'[s] = pc[s]
        /\ UNCHANGED <<shared, lapped>>
    BY <1>a, <2>1
  <2>2. OnePerKey' /\ OneFinaliser'
    BY <1>a, <2>0
  <2>3. KeyOf[r] \notin shared => Row(r).status = "PROCESSING"
    BY <1>a, <2>1
  <2>4. \A s \in Requests : s # r /\ pc[s] \in Bound /\ KeyOf[s] \notin shared => KeyOf[s] # KeyOf[r]
    BY <1>a, <2>1
  <2>5. BoundRowsAreProcessing'
    BY <1>a, <2>1, <2>4
  <2>6. AnsweredRefundsStand'
    <3> SUFFICES ASSUME NEW s \in Requests, pc'[s] \in {"refunded", "replayed"},
                        KeyOf[s] \notin shared
                 PROVE  refund'[KeyOf[s]].status = "COMPLETED"
      BY <2>1
    <3>1. CASE s = r
      BY <1>a, <2>1, <3>1
    <3>2. CASE s # r
      <4>1. refund[KeyOf[s]].status = "COMPLETED"
        BY <1>a, <2>1, <3>2
      <4>2. KeyOf[s] # KeyOf[r]
        BY <2>3, <4>1
      <4>3. QED
        BY <1>a, <2>1, <4>1, <4>2
    <3>3. QED
      BY <3>1, <3>2
  <2>7. QED
    BY <2>2, <2>5, <2>6 DEF ControlInv
<1>6. ASSUME UNCHANGED vars PROVE ControlInv'
  BY <1>a, <1>6 DEF vars, ControlInv
<1>7. QED
  BY <1>1, <1>2, <1>3, <1>4, <1>5, <1>6 DEF Next, Proceed, AllEnded
(***************************************************************************)
(* Sums: what inserting a row, failing it and completing it do to the      *)
(* reserved and the completed total of every payment.                      *)
(***************************************************************************)
LEMMA InsertSums ==
  ASSUME TypeOK, TypeOK', NEW k \in Keys, refund[k].status = "NONE",
         NEW p \in Payments, NEW a \in Nat,
         refund' = [refund EXCEPT ![k] =
                      [status |-> "PROCESSING", payment |-> p, amount |-> a]]
  PROVE  \A q \in Payments :
           /\ Completed(q)' = Completed(q)
           /\ Reserved(q)' = IF q = p THEN Reserved(q) + a ELSE Reserved(q)
<1> SUFFICES ASSUME NEW q \in Payments
             PROVE  /\ Completed(q)' = Completed(q)
                    /\ Reserved(q)' = IF q = p THEN Reserved(q) + a ELSE Reserved(q)
  OBVIOUS
<1> DEFINE C == Rows(q, {"COMPLETED"})
           R == Rows(q, {"PROCESSING", "COMPLETED"})
<1>1. \A x \in Keys \ {k} : refund'[x] = refund[x] /\ RowAmounts'[x] = RowAmounts[x]
  BY DEF TypeOK, RowAmounts
<1>2. RowAmounts'[k] = a
  BY DEF TypeOK, RowAmounts
<1>3. k \notin C /\ k \notin R /\ C \subseteq Keys /\ R \subseteq Keys
  BY DEF Rows
<1>4. C' = C
  BY <1>1 DEF Rows, TypeOK
<1>5. R' = IF q = p THEN R \cup {k} ELSE R
  BY <1>1 DEF Rows, TypeOK
<1>6. Completed(q)' = Completed(q)
  BY <1>1, <1>3, <1>4, TotalAgree DEF Completed
<1>7. Total(R, RowAmounts') = Total(R, RowAmounts)
  BY <1>1, <1>3, TotalAgree
<1>8. CASE q # p
  BY <1>5, <1>6, <1>7, <1>8 DEF Reserved
<1>9. CASE q = p
  <2>1. IsFiniteSet(R) /\ \A x \in Keys : RowAmounts[x] \in Nat
    BY RowSums
  <2>2. \A x \in R \cup {k} : RowAmounts'[x] \in Nat
    BY <1>1, <1>2, <1>3, <2>1
  <2>3. Total(R \cup {k}, RowAmounts') = Total(R, RowAmounts') + RowAmounts'[k]
    BY <1>3, <2>1, <2>2, TotalAdd
  <2>4. QED
    BY <1>2, <1>5, <1>6, <1>7, <1>9, <2>3 DEF Reserved
<1>10. QED
  BY <1>8, <1>9

LEMMA FailSums ==
  ASSUME TypeOK, TypeOK', NEW k \in Keys, refund[k].status = "PROCESSING",
         refund' = [refund EXCEPT ![k].status = "FAILED"]
  PROVE  \A q \in Payments :
           /\ Completed(q)' = Completed(q)
           /\ Reserved(q)' <= Reserved(q)
<1> SUFFICES ASSUME NEW q \in Payments
             PROVE  Completed(q)' = Completed(q) /\ Reserved(q)' <= Reserved(q)
  OBVIOUS
<1> DEFINE C == Rows(q, {"COMPLETED"})
           R == Rows(q, {"PROCESSING", "COMPLETED"})
<1>1. RowAmounts' = RowAmounts
  BY DEF TypeOK, RowAmounts
<1>2. C' = C
  BY DEF Rows, TypeOK
<1>3. R' \subseteq R
  BY DEF Rows, TypeOK
<1>4. IsFiniteSet(R) /\ \A x \in R : RowAmounts[x] \in Nat
  BY RowSums DEF Rows
<1>5. Total(R', RowAmounts) <= Total(R, RowAmounts)
  BY <1>3, <1>4, TotalSubset
<1>6. QED
  BY <1>1, <1>2, <1>5 DEF Completed, Reserved

LEMMA CompleteSums ==
  ASSUME TypeOK, TypeOK', NEW k \in Keys, refund[k].status = "PROCESSING",
         NEW p \in Payments, refund[k].payment = p,
         refund' = [refund EXCEPT ![k].status = "COMPLETED"]
  PROVE  \A q \in Payments :
           /\ Reserved(q)' = Reserved(q)
           /\ Completed(q)' = IF q = p THEN Completed(q) + refund[k].amount ELSE Completed(q)
<1> SUFFICES ASSUME NEW q \in Payments
             PROVE  /\ Reserved(q)' = Reserved(q)
                    /\ Completed(q)' = IF q = p THEN Completed(q) + refund[k].amount
                                                ELSE Completed(q)
  OBVIOUS
<1> DEFINE C == Rows(q, {"COMPLETED"})
           R == Rows(q, {"PROCESSING", "COMPLETED"})
<1>1. RowAmounts' = RowAmounts /\ RowAmounts[k] = refund[k].amount
  BY DEF TypeOK, RowAmounts
<1>2. R' = R
  BY DEF Rows, TypeOK
<1>3. C' = IF q = p THEN C \cup {k} ELSE C
  BY DEF Rows, TypeOK
<1>4. k \notin C /\ C \subseteq Keys
  BY DEF Rows
<1>5. IsFiniteSet(C) /\ \A x \in Keys : RowAmounts[x] \in Nat
  BY RowSums
<1>6. Total(C \cup {k}, RowAmounts) = Total(C, RowAmounts) + RowAmounts[k]
  BY <1>4, <1>5, TotalAdd
<1>7. QED
  BY <1>1, <1>2, <1>3, <1>6 DEF Completed, Reserved

(* The rows of another payment leave the totals alone.                     *)
LEMMA OtherSums ==
  ASSUME TypeOK, TypeOK', NEW k \in Keys, NEW new, NEW q \in Payments,
         refund[k].payment # q, refund' = [refund EXCEPT ![k].status = new]
  PROVE  Completed(q)' = Completed(q) /\ Reserved(q)' = Reserved(q)
<1>1. RowAmounts' = RowAmounts
  BY DEF TypeOK, RowAmounts
<1>2. \A X : Rows(q, X)' = Rows(q, X)
  BY DEF Rows, TypeOK
<1>3. QED
  BY <1>1, <1>2 DEF Completed, Reserved

(* A row in progress is reserved on top of what is completed.              *)
LEMMA ReservedCovers ==
  ASSUME TypeOK, NEW k \in Keys, NEW p \in Payments,
         refund[k].status = "PROCESSING", refund[k].payment = p
  PROVE  Completed(p) + refund[k].amount <= Reserved(p)
<1> DEFINE C == Rows(p, {"COMPLETED"})
           R == Rows(p, {"PROCESSING", "COMPLETED"})
<1>1. k \notin C /\ C \cup {k} \subseteq R /\ R \subseteq Keys
  BY DEF Rows
<1>2. /\ IsFiniteSet(C) /\ IsFiniteSet(R)
      /\ \A x \in Keys : RowAmounts[x] = refund[x].amount /\ RowAmounts[x] \in Nat
  BY RowSums
<1>3. Total(C \cup {k}, RowAmounts) = Total(C, RowAmounts) + refund[k].amount
  <2>1. \A x \in C \cup {k} : RowAmounts[x] \in Nat
    BY <1>1, <1>2
  <2>2. Total(C \cup {k}, RowAmounts) = Total(C, RowAmounts) + RowAmounts[k]
    BY <1>1, <1>2, <2>1, TotalAdd
  <2>3. QED
    BY <1>2, <2>2
<1>4. Total(C \cup {k}, RowAmounts) <= Total(R, RowAmounts)
  BY <1>1, <1>2, TotalSubset
<1>5. QED
  BY <1>3, <1>4 DEF Completed, Reserved
(* What a finaliser has seen is the completed total with its own row.      *)
LEMMA SeenTotal ==
  ASSUME TypeOK, NEW r \in Requests, NEW k \in Keys, k = KeyOf[r],
         NEW p \in Payments, p = PaymentOf[r],
         refund[k].status = "PROCESSING", refund[k].payment = p
  PROVE  CompletedSeen(r) = Completed(p) + refund[k].amount
<1> DEFINE C == Rows(p, {"COMPLETED"})
<1>1. k \notin C /\ C \subseteq Keys
  BY DEF Rows
<1>2. IsFiniteSet(C) /\ \A x \in Keys : RowAmounts[x] = refund[x].amount /\ RowAmounts[x] \in Nat
  BY RowSums
<1>3. \A x \in C \cup {k} : RowAmounts[x] \in Nat
  BY <1>1, <1>2
<1>4. Total(C \cup {k}, RowAmounts) = Total(C, RowAmounts) + RowAmounts[k]
  BY <1>1, <1>2, <1>3, TotalAdd
<1>5. QED
  BY <1>2, <1>4 DEF CompletedSeen, Completed

(***************************************************************************)
(* Money, one payment at a time: as long as no key of the payment is       *)
(* shared, its reservations fit and its status says what its rows say.     *)
(* A finaliser that is alone in phase 3 writes REFUNDED exactly when its   *)
(* row completes the price.                                                *)
(***************************************************************************)
Shows(p) ==
  /\ payment[p] = "REFUNDED" => Completed(p) = Price[p]
  /\ payment[p] = "PARTIALLY_REFUNDED" => Completed(p) > 0
  /\ Completed(p) = Price[p] /\ p \notin lapped => payment[p] = "REFUNDED"

Target(r, p) ==
  /\ target[r] = "REFUNDED" => Completed(p) + Row(r).amount >= Price[p]
  /\ Completed(p) + Row(r).amount >= Price[p] /\ p \notin lapped => target[r] = "REFUNDED"

Books(p) ==
  /\ Reserved(p) <= Price[p]
  /\ Shows(p)
  /\ \A r \in Requests : PaymentOf[r] = p /\ pc[r] = "commit" => Target(r, p)

MoneyInv == \A p \in Payments : Alone(p) => Books(p)

(* The totals of a payment are natural numbers.                            *)
LEMMA Totals ==
  TypeOK => \A p \in Payments : /\ Completed(p) \in Nat /\ Reserved(p) \in Nat
                                /\ Price[p] \in Nat \ {0}
BY RowSums, ConstantsAssumption DEF Completed, Reserved

LEMMA TotalsAfter ==
  ASSUME TypeOK'
  PROVE  (\A p \in Payments : /\ Completed(p) \in Nat /\ Reserved(p) \in Nat
                              /\ Price[p] \in Nat \ {0})'
<1>1. TypeOK'
  OBVIOUS
<1>2. QED
  BY <1>1, Totals, PTL

(* What a request in progress knows about its row.                         *)
LEMMA BoundRow ==
  ASSUME BackInv, NEW r \in Requests, pc[r] \in Bound
  PROVE  /\ Row(r).status # "NONE" /\ Row(r).payment = PaymentOf[r]
         /\ Row(r).amount \in Nat \ {0}
         /\ KeyOf[r] \in Keys /\ PaymentOf[r] \in Payments
BY ConstantsAssumption
   DEF BackInv, RequestsKeepTheirRow, RowsArePositive, TypeOK, Row

(* In a payment without shared keys it is the only one at work on it.      *)
LEMMA LoneRow ==
  ASSUME BackInv, BoundRowsAreProcessing, NEW r \in Requests, pc[r] \in Bound,
         Alone(PaymentOf[r])
  PROVE  KeyOf[r] \notin shared /\ Row(r).status = "PROCESSING"
BY BoundRow DEF Alone, BoundRowsAreProcessing, Row, BackInv, TypeOK

(* A payment with a shared key is never without one again.                 *)
LEMMA AloneBefore ==
  ASSUME TypeOK, [Next]_vars, NEW p \in Payments, Alone(p)'
  PROVE  Alone(p)
<1>a. \A r \in Requests : KeyOf[r] \in Keys
  BY ConstantsAssumption
<1> USE DEF Alone, TypeOK
<1>1. ASSUME NEW r \in Requests, Check(r) PROVE Alone(p)
  BY <1>1 DEF Check, SharedBy
<1>2. ASSUME NEW r \in Requests, Reserve(r) PROVE Alone(p)
  <2>1. /\ shared' = shared
        /\ \A k \in Keys : refund[k].status # "NONE" => refund'[k] = refund[k]
    BY <1>a, <1>2 DEF Reserve, Row
  <2>2. QED
    BY <2>1
<1>3. ASSUME NEW r \in Requests, MarkFailed(r) \/ Commit(r) PROVE Alone(p)
  <2>1. PICK new \in {"FAILED", "COMPLETED"} :
          shared' = shared /\ refund' = [refund EXCEPT ![KeyOf[r]].status = new]
    BY <1>3 DEF MarkFailed, Commit
  <2>2. ASSUME NEW k \in Keys
        PROVE  /\ refund'[k].payment = refund[k].payment
               /\ refund'[k].status = "NONE" => refund[k].status = "NONE"
    BY <1>a, <2>1
  <2>3. QED
    BY <2>1, <2>2
<1>4. ASSUME \/ \E r \in Requests :
                  \/ Send(r) \/ StripeAccepts(r) \/ StripeRejects(r)
                  \/ Answered(r) \/ CallFails(r) \/ Finalise(r) \/ Crash(r)
             \/ UNCHANGED vars
      PROVE  Alone(p)
  BY <1>4 DEF Send, StripeAccepts, StripeRejects, Answered, CallFails, Finalise, Crash, vars
<1>5. QED
  BY <1>1, <1>2, <1>3, <1>4 DEF Next, Proceed, AllEnded

(* A step that leaves the payment, its totals and the rows of its          *)
(* finalisers alone keeps its books.                                       *)
LEMMA BooksStay ==
  ASSUME NEW p \in Payments, Books(p), lapped \subseteq lapped',
         payment'[p] = payment[p], Completed(p)' = Completed(p), Reserved(p)' <= Price[p],
         \A s \in Requests : PaymentOf[s] = p /\ pc'[s] = "commit" =>
            /\ pc[s] = "commit" /\ target'[s] = target[s]
            /\ refund'[KeyOf[s]].amount = refund[KeyOf[s]].amount
  PROVE  Books(p)'
<1>1. Shows(p)'
  BY DEF Books, Shows
<1>2. ASSUME NEW s \in Requests, PaymentOf[s] = p, pc'[s] = "commit" PROVE Target(s, p)'
  <2>1. /\ Target(s, p) /\ target'[s] = target[s]
        /\ refund'[KeyOf[s]].amount = refund[KeyOf[s]].amount
    BY <1>2 DEF Books
  <2>2. QED
    BY <2>1 DEF Target, Row
<1>3. QED
  BY <1>1, <1>2 DEF Books

LEMMA MoneyNext ==
  ASSUME BackInv, BackInv', ControlInv, ControlInv', MoneyInv, [Next]_vars
  PROVE  MoneyInv'
<1> SUFFICES ASSUME NEW p \in Payments, Alone(p)'
             PROVE  Books(p)'
  BY DEF MoneyInv
<1>a. /\ TypeOK /\ TypeOK' /\ BoundRowsAreProcessing /\ OneFinaliser
      /\ \A r \in Requests : KeyOf[r] \in Keys /\ PaymentOf[r] \in Payments
  BY ConstantsAssumption DEF BackInv, ControlInv
<1>b. Alone(p) /\ Books(p)
  BY <1>a, AloneBefore DEF MoneyInv
<1>c. /\ Completed(p) \in Nat /\ Reserved(p) \in Nat /\ Price[p] \in Nat \ {0}
      /\ Reserved(p) <= Price[p]
  BY <1>a, <1>b, Totals DEF Books
<1>d. Completed(p)' \in Nat /\ Reserved(p)' \in Nat
  BY <1>a, TotalsAfter
<1>e. ASSUME refund' = refund
      PROVE  Completed(p)' = Completed(p) /\ Reserved(p)' = Reserved(p)
  BY <1>e DEF Completed, Reserved, Rows, RowAmounts
<1>1. ASSUME NEW r \in Requests,
             \/ Check(r) \/ Send(r) \/ StripeAccepts(r) \/ StripeRejects(r)
             \/ Answered(r) \/ CallFails(r) \/ Crash(r)
      PROVE  Books(p)'
  <2>1. /\ UNCHANGED <<payment, refund, lapped>>
        /\ \A s \in Requests : pc'[s] = "commit" => pc[s] = "commit" /\ target'[s] = target[s]
    BY <1>1, <1>a DEF TypeOK, Check, Send, StripeAccepts, StripeRejects, Answered, CallFails, Crash
  <2>2. QED
    BY <1>b, <1>c, <1>e, <2>1, BooksStay
<1>2. ASSUME NEW r \in Requests, Reserve(r) PROVE Books(p)'
  <2>1. CASE Admissible(r) /\ Row(r).status = "NONE"
    <3> DEFINE a == RefundAmount(r)
    <3>1. a \in Nat \ {0} /\ Reserved(PaymentOf[r]) + a <= Price[PaymentOf[r]]
      BY <1>a, <2>1, AdmittedAmount
    <3>2. /\ refund' = [refund EXCEPT ![KeyOf[r]] =
                          [status |-> "PROCESSING", payment |-> PaymentOf[r], amount |-> a]]
          /\ pc' = [pc EXCEPT ![r] = "send"]
          /\ UNCHANGED <<payment, target, lapped>>
      BY <1>2, <2>1 DEF Reserve
    <3> HIDE DEF a
    <3>3. /\ Completed(p)' = Completed(p)
          /\ Reserved(p)' = IF p = PaymentOf[r] THEN Reserved(p) + a ELSE Reserved(p)
      BY <1>a, <2>1, <3>1, <3>2, InsertSums DEF Row
    <3>4. Reserved(p)' <= Price[p]
      BY <1>c, <3>1, <3>3
    <3>5. ASSUME NEW s \in Requests, PaymentOf[s] = p, pc'[s] = "commit"
          PROVE  /\ pc[s] = "commit" /\ target'[s] = target[s]
                 /\ refund'[KeyOf[s]].amount = refund[KeyOf[s]].amount
      <4>1. pc[s] = "commit"
        BY <1>a, <3>2, <3>5 DEF TypeOK
      <4>2. KeyOf[s] # KeyOf[r]
        BY <1>a, <2>1, <4>1, BoundRow DEF Bound, Row
      <4>3. QED
        BY <1>a, <3>2, <4>1, <4>2 DEF TypeOK
    <3>6. QED
      BY <1>b, <3>2, <3>3, <3>4, <3>5, BooksStay
  <2>2. CASE ~(Admissible(r) /\ Row(r).status = "NONE")
    <3>1. /\ UNCHANGED <<payment, refund, target, lapped>>
          /\ pc' = [pc EXCEPT ![r] = "rejected"]
      BY <1>2, <2>2 DEF Reserve
    <3>2. \A s \in Requests : pc'[s] = "commit" => pc[s] = "commit"
      BY <1>a, <3>1 DEF TypeOK
    <3>3. QED
      BY <1>b, <1>c, <1>e, <3>1, <3>2, BooksStay
  <2>3. QED
    BY <2>1, <2>2
<1>3. ASSUME NEW r \in Requests, MarkFailed(r) PROVE Books(p)'
  <2>1. /\ pc[r] = "fail" /\ pc' = [pc EXCEPT ![r] = "failed"]
        /\ refund' = [refund EXCEPT ![KeyOf[r]].status = "FAILED"]
        /\ UNCHANGED <<payment, target, lapped>>
    BY <1>3 DEF MarkFailed
  <2>2. Row(r).payment = PaymentOf[r]
    BY <2>1, BoundRow DEF Bound
  <2>3. Completed(p)' = Completed(p) /\ Reserved(p)' <= Reserved(p)
    <3>1. CASE PaymentOf[r] = p
      <4>1. Row(r).status = "PROCESSING"
        BY <1>a, <1>b, <2>1, <3>1, LoneRow DEF Bound
      <4>2. QED
        BY <1>a, <2>1, <4>1, FailSums DEF Row
    <3>2. CASE PaymentOf[r] # p
      <4>1. KeyOf[r] \in Keys /\ refund[KeyOf[r]].payment # p
        BY <1>a, <2>2, <3>2 DEF Row
      <4>2. Completed(p)' = Completed(p) /\ Reserved(p)' = Reserved(p)
        BY <1>a, <2>1, <4>1, OtherSums
      <4>3. QED
        BY <1>c, <4>2
    <3>3. QED
      BY <3>1, <3>2
  <2>4. Reserved(p)' <= Price[p]
    BY <1>c, <1>d, <2>3
  <2>5. \A s \in Requests : pc'[s] = "commit" =>
          pc[s] = "commit" /\ refund'[KeyOf[s]].amount = refund[KeyOf[s]].amount
    BY <1>a, <2>1 DEF TypeOK
  <2>6. QED
    BY <1>b, <2>1, <2>3, <2>4, <2>5, BooksStay
<1>4. ASSUME NEW r \in Requests, Finalise(r) PROVE Books(p)'
  <2>1. /\ pc[r] = "finalise" /\ pc' = [pc EXCEPT ![r] = "commit"]
        /\ target' = [target EXCEPT ![r] = IF NewStatus(r) = payment[PaymentOf[r]]
                                             THEN "unchanged" ELSE NewStatus(r)]
        /\ UNCHANGED <<payment, refund>> /\ lapped \subseteq lapped'
    BY <1>4 DEF Finalise
  <2>2. Completed(p)' = Completed(p) /\ Reserved(p)' = Reserved(p)
    BY <1>e, <2>1
  <2>3. \A s \in Requests \ {r} : pc'[s] = pc[s] /\ target'[s] = target[s]
    BY <1>a, <2>1 DEF TypeOK
  <2>4. CASE PaymentOf[r] # p
    BY <1>b, <1>c, <2>1, <2>2, <2>3, <2>4, BooksStay
  <2>5. CASE PaymentOf[r] = p
    <3>1. Row(r).status = "PROCESSING" /\ Row(r).payment = p /\ Row(r).amount \in Nat \ {0}
      BY <1>a, <1>b, <2>1, <2>5, BoundRow, LoneRow DEF Bound
    <3>2. CompletedSeen(r) = Completed(p) + Row(r).amount
      BY <1>a, <2>5, <3>1, SeenTotal DEF Row
    <3>3. Completed(p) + Row(r).amount <= Reserved(p)
      BY <1>a, <3>1, ReservedCovers DEF Row
    <3>4. payment[p] # "REFUNDED"
      <4>1. Completed(p) # Price[p]
        BY <1>c, <3>1, <3>3
      <4>2. QED
        BY <1>b, <4>1 DEF Books, Shows
    <3>5. Target(r, p)'
      <4>1. target'[r] = IF NewStatus(r) = payment[p] THEN "unchanged" ELSE NewStatus(r)
        BY <1>a, <2>1, <2>5 DEF TypeOK
      <4>2. CompletedSeen(r) >= Price[p] <=> target'[r] = "REFUNDED"
        BY <2>5, <3>4, <4>1 DEF NewStatus
      <4>3. refund'[KeyOf[r]].amount = Row(r).amount
        BY <2>1 DEF Row
      <4>4. QED
        BY <2>2, <3>2, <4>2, <4>3 DEF Target, Row
    <3>6. ASSUME NEW s \in Requests \ {r}, PaymentOf[s] = p, pc'[s] = "commit" PROVE Target(s, p)'
      <4>1. Target(s, p)
        BY <1>b, <2>3, <3>6 DEF Books
      <4>2. QED
        BY <2>1, <2>2, <2>3, <4>1 DEF Target, Row
    <3>7. Shows(p)' /\ Reserved(p)' <= Price[p]
      BY <1>b, <1>c, <2>1, <2>2 DEF Books, Shows
    <3>8. QED
      BY <3>5, <3>6, <3>7 DEF Books
  <2>6. QED
    BY <2>4, <2>5
<1>5. ASSUME NEW r \in Requests, Commit(r) PROVE Books(p)'
  <2>1. /\ pc[r] = "commit" /\ pc' = [pc EXCEPT ![r] = "refunded"]
        /\ refund' = [refund EXCEPT ![KeyOf[r]].status = "COMPLETED"]
        /\ payment' = IF target[r] = "unchanged" THEN payment
                      ELSE [payment EXCEPT ![PaymentOf[r]] = target[r]]
        /\ target' = [target EXCEPT ![r] = "unchanged"]
        /\ lapped' = lapped
    BY <1>5 DEF Commit
  <2>2. /\ Row(r).payment = PaymentOf[r] /\ Row(r).amount \in Nat \ {0}
        /\ PaymentOf[r] \in Payments
    BY <2>1, BoundRow DEF Bound
  <2>3. \A s \in Requests : pc'[s] = "commit" =>
          /\ s # r /\ pc[s] = "commit" /\ target'[s] = target[s]
          /\ refund'[KeyOf[s]].amount = refund[KeyOf[s]].amount
    BY <1>a, <2>1 DEF TypeOK
  <2>4. CASE PaymentOf[r] # p
    <3>1. Completed(p)' = Completed(p) /\ Reserved(p)' = Reserved(p)
      BY <1>a, <2>1, <2>2, <2>4, OtherSums DEF Row
    <3>2. payment'[p] = payment[p]
      BY <1>a, <2>1, <2>4 DEF TypeOK
    <3>3. QED
      BY <1>b, <1>c, <2>1, <2>3, <3>1, <3>2, BooksStay
  <2>5. CASE PaymentOf[r] = p
    <3> DEFINE a == Row(r).amount
    <3>1. Row(r).status = "PROCESSING"
      BY <1>a, <1>b, <2>1, <2>5, LoneRow DEF Bound
    <3>2. Reserved(p)' = Reserved(p) /\ Completed(p)' = Completed(p) + a
      BY <1>a, <2>1, <2>2, <2>5, <3>1, CompleteSums DEF Row
    <3>3. Completed(p) + a <= Reserved(p) /\ a \in Nat \ {0}
      BY <1>a, <2>2, <2>5, <3>1, ReservedCovers DEF Row
    <3>4. Target(r, p) /\ target[r] \in {"unchanged", "PARTIALLY_REFUNDED", "REFUNDED"}
      BY <1>a, <1>b, <2>1, <2>5 DEF Books, TypeOK
    <3>5. payment[p] # "REFUNDED"
      <4>1. Completed(p) # Price[p]
        BY <1>c, <3>3
      <4>2. QED
        BY <1>b, <4>1 DEF Books, Shows
    <3>6. payment'[p] = IF target[r] = "unchanged" THEN payment[p] ELSE target[r]
      BY <1>a, <2>1, <2>5 DEF TypeOK
    <3>7. Target(r, p) => /\ target[r] = "REFUNDED" => Completed(p) + a >= Price[p]
                          /\ Completed(p) + a >= Price[p] /\ p \notin lapped
                               => target[r] = "REFUNDED"
      BY DEF Target
    <3> HIDE DEF a
    <3>8. Shows(p)'
      <4>1. payment'[p] = "REFUNDED" => Completed(p)' = Price[p]
        BY <1>c, <3>2, <3>3, <3>4, <3>5, <3>6, <3>7
      <4>2. Completed(p)' > 0
        BY <1>c, <3>2, <3>3
      <4>3. Completed(p)' = Price[p] /\ p \notin lapped => payment'[p] = "REFUNDED"
        BY <1>c, <3>2, <3>3, <3>4, <3>6, <3>7
      <4>4. QED
        BY <2>1, <4>1, <4>2, <4>3 DEF Shows
    <3>9. ASSUME NEW s \in Requests, PaymentOf[s] = p, pc'[s] = "commit" PROVE Target(s, p)'
      <4>1. /\ Target(s, p) /\ Row(s).amount \in Nat
            /\ target'[s] = target[s] /\ refund'[KeyOf[s]].amount = Row(s).amount
        BY <1>b, <2>3, <3>9, BoundRow DEF Books, Bound, Row
      <4>2. p \in lapped
        BY <1>a, <2>1, <2>3, <2>5, <3>9 DEF OneFinaliser
      <4>3. target'[s] = "REFUNDED" => Completed(p)' + Row(s).amount >= Price[p]
        BY <1>c, <3>2, <3>3, <4>1 DEF Target
      <4>4. QED
        BY <2>1, <4>1, <4>2, <4>3 DEF Target, Row
    <3>10. QED
      BY <1>c, <3>2, <3>8, <3>9 DEF Books
  <2>6. QED
    BY <2>4, <2>5
<1>6. ASSUME UNCHANGED vars PROVE Books(p)'
  BY <1>6, <1>b, <1>c, <1>e, BooksStay DEF vars
<1>7. QED
  BY <1>1, <1>2, <1>3, <1>4, <1>5, <1>6 DEF Next, Proceed, AllEnded

(***************************************************************************)
(* The theorems, for every use the callers make of their keys.             *)
(***************************************************************************)
LEMMA MoneyInit == Init => ControlInv /\ MoneyInv
<1> SUFFICES ASSUME Init PROVE ControlInv /\ MoneyInv
  OBVIOUS
<1>1. ControlInv
  BY ConstantsAssumption
     DEF Init, ControlInv, OnePerKey, BoundRowsAreProcessing, AnsweredRefundsStand,
         OneFinaliser, Running, Bound
<1>2. ASSUME NEW p \in Payments PROVE Completed(p) = 0 /\ Reserved(p) = 0
  <2>1. \A X \in SUBSET {"PROCESSING", "COMPLETED"} : Rows(p, X) = {}
    BY DEF Init, Rows
  <2>2. \A f : Cents({}, f) = {}
    BY DEF Cents
  <2>3. QED
    BY <2>1, <2>2, FS_EmptySet DEF Completed, Reserved, Total
<1>3. ASSUME NEW p \in Payments PROVE Books(p)
  <2>1. Price[p] \in Nat \ {0}
    BY ConstantsAssumption
  <2>2. QED
    BY <1>2, <2>1 DEF Init, Books, Shows
<1>4. QED
  BY <1>1, <1>3 DEF MoneyInv

LEMMA MoneyAlways == Spec => [](BackInv /\ ControlInv /\ MoneyInv)
<1>1. Init => BackInv /\ ControlInv /\ MoneyInv
  BY BackInit, MoneyInit
<1>2. BackInv /\ ControlInv /\ MoneyInv /\ [Next]_vars
        => (BackInv /\ ControlInv /\ MoneyInv)'
  <2> SUFFICES ASSUME BackInv, ControlInv, MoneyInv, [Next]_vars
               PROVE  (BackInv /\ ControlInv /\ MoneyInv)'
    OBVIOUS
  <2>1. BackInv'
    BY BackNext
  <2>2. ControlInv'
    BY ControlNext
  <2>3. MoneyInv'
    BY <2>1, <2>2, MoneyNext
  <2>4. QED
    BY <2>1, <2>2, <2>3
<1>3. QED
  BY <1>1, <1>2, PTL DEF Spec

(* Reservations and completed refunds of a payment exceed it only when one *)
(* of its keys was run twice at once.                                      *)
THEOREM ReservationsWithinPrice == Spec => []ReservedWithinPrice
<1>1. MoneyInv => ReservedWithinPrice
  BY DEF MoneyInv, Books, ReservedWithinPrice
<1>2. QED
  BY <1>1, MoneyAlways, PTL

(* The status of a payment says what its completed refunds say, but for a  *)
(* shared key or two requests in phase 3 at once.                          *)
THEOREM PaymentStatusFollowsRows == Spec => []StatusFollowsRows
<1>1. MoneyInv => StatusFollowsRows
  BY DEF MoneyInv, Books, Shows, StatusFollowsRows
<1>2. QED
  BY <1>1, MoneyAlways, PTL

(* A refund that was answered as done stays done, unless another request   *)
(* ran its key at the same time.                                           *)
THEOREM AnsweredRefundsAreFinal == Spec => []AnsweredRefundsStand
<1>1. ControlInv => AnsweredRefundsStand
  BY DEF ControlInv
<1>2. QED
  BY <1>1, MoneyAlways, PTL

(***************************************************************************)
(* createRefund implements the ledger of RefundLedger: every step maps to  *)
(* a promise, a settlement, a withdrawal or a stutter.                     *)
(***************************************************************************)

(* The ledger adds amounts as the table does.                              *)
LEMMA SameSums == \A S, f : Ledger!Total(S, f) = Total(S, f)
<1>1. \A S : Ledger!IsFiniteSet(S) = IsFiniteSet(S)
  BY DEF Ledger!IsFiniteSet, IsFiniteSet
<1>2. \A S : Ledger!Cardinality(S) = Cardinality(S)
  BY <1>1 DEF Ledger!Cardinality, Cardinality
<1>3. \A S, f : Ledger!Cents(S, f) = Cents(S, f)
  BY DEF Ledger!Cents, Cents
<1>4. QED
  BY <1>2, <1>3 DEF Ledger!Total, Total

(* The totals of the ledger are those of the table.                        *)
LedgerAgrees ==
  /\ Ledger!Amounts = RowAmounts
  /\ \A p \in Payments : /\ Ledger!Outstanding(p) = Reserved(p)
                         /\ Ledger!Settled(p) = Completed(p)

LEMMA LedgerTotals == TypeOK => LedgerAgrees
<1> SUFFICES ASSUME TypeOK PROVE LedgerAgrees
  OBVIOUS
<1>1. \A k \in Keys :
        /\ LedgerEntry[k].payment = refund[k].payment
        /\ LedgerEntry[k].amount = refund[k].amount
        /\ LedgerEntry[k].state = LedgerState(refund[k].status)
  BY DEF LedgerEntry
<1>2. Ledger!Amounts = RowAmounts
  BY <1>1 DEF Ledger!Amounts, RowAmounts
<1>3. \A k \in Keys :
        /\ LedgerEntry[k].state \in {"settled"} <=> refund[k].status = "COMPLETED"
        /\ LedgerEntry[k].state \in {"promised", "settled"}
             <=> refund[k].status \in {"PROCESSING", "COMPLETED"}
  BY <1>1 DEF LedgerState, TypeOK, RefundStatus
<1>4. ASSUME NEW p \in Payments
      PROVE  /\ Ledger!Entries(p, {"settled"}) = Rows(p, {"COMPLETED"})
             /\ Ledger!Entries(p, {"promised", "settled"})
                  = Rows(p, {"PROCESSING", "COMPLETED"})
  BY <1>1, <1>3 DEF Ledger!Entries, Rows
<1>5. QED
  BY <1>2, <1>4, SameSums
     DEF LedgerAgrees, Ledger!Outstanding, Ledger!Settled, Reserved, Completed

LEMMA LedgerInit == Init => Ledger!Init
<1> SUFFICES ASSUME Init PROVE Ledger!Init
  OBVIOUS
<1>1. PICK p \in Payments :
        refund = [k \in Keys |-> [status |-> "NONE", payment |-> p, amount |-> 0]]
  BY DEF Init
<1>2. LedgerEntry = [k \in Keys |-> [state |-> "open", payment |-> p, amount |-> 0]]
  BY <1>1 DEF LedgerEntry, LedgerState
<1>3. LedgerClosed = {}
  BY DEF Init, LedgerClosed
<1>4. QED
  BY <1>2, <1>3 DEF Init, Ledger!Init

(* Changing the status of a row changes the state of its entry.            *)
LEMMA EntryStep ==
  ASSUME TypeOK, NEW k \in Keys, NEW new,
         refund' = [refund EXCEPT ![k].status = new]
  PROVE  LedgerEntry' = [LedgerEntry EXCEPT ![k].state = LedgerState(new)]
<1> DEFINE E == [LedgerEntry EXCEPT ![k].state = LedgerState(new)]
<1>1. ASSUME NEW x \in Keys PROVE LedgerEntry'[x] = E[x]
  <2>1. CASE x = k
    <3>1. /\ refund'[x].status = new
          /\ refund'[x].payment = refund[x].payment
          /\ refund'[x].amount = refund[x].amount
      BY <2>1 DEF TypeOK
    <3>2. LedgerEntry'[x] = [state |-> LedgerState(new),
                             payment |-> refund[x].payment, amount |-> refund[x].amount]
      BY <3>1 DEF LedgerEntry, LedgerState
    <3>3. LedgerEntry[x] = [state |-> LedgerState(refund[x].status),
                            payment |-> refund[x].payment, amount |-> refund[x].amount]
      BY DEF LedgerEntry
    <3>4. E[x] = [LedgerEntry[x] EXCEPT !.state = LedgerState(new)]
      BY <2>1 DEF LedgerEntry
    <3>5. QED
      BY <3>2, <3>3, <3>4
  <2>2. CASE x # k
    <3>1. refund'[x] = refund[x]
      BY <2>2 DEF TypeOK
    <3>2. QED
      BY <2>2, <3>1 DEF LedgerEntry, LedgerState
  <2>3. QED
    BY <2>1, <2>2
<1>2. QED
  BY <1>1 DEF LedgerEntry

(* A key of a payment that is not alone disturbs it in the ledger.         *)
LEMMA DisturbedPayment ==
  ASSUME TypeOK, NEW p \in Payments, ~Alone(p)
  PROVE  Ledger!Disturbed(p)
<1>1. PICK k \in shared : refund[k].status # "NONE" /\ refund[k].payment = p
  BY DEF Alone
<1>2. k \in Keys /\ refund[k].status \in RefundStatus
  BY DEF TypeOK
<1>3. LedgerEntry[k].state # "open" /\ LedgerEntry[k].payment = p
  BY <1>1, <1>2 DEF LedgerEntry, LedgerState, RefundStatus
<1>4. QED
  BY <1>3 DEF Ledger!Disturbed

LEMMA LedgerNext ==
  ASSUME BackInv, BackInv', ControlInv, MoneyInv, MoneyInv', [Next]_vars
  PROVE  [Ledger!Next]_Ledger!vars
<1>a. /\ TypeOK /\ TypeOK' /\ BoundRowsAreProcessing
      /\ \A r \in Requests : KeyOf[r] \in Keys /\ PaymentOf[r] \in Payments
  BY ConstantsAssumption DEF BackInv, ControlInv
<1>b. \A p \in Payments : /\ Completed(p) \in Nat /\ Reserved(p) \in Nat
                          /\ Price[p] \in Nat \ {0}
  BY <1>a, Totals
<1>1. ASSUME NEW r \in Requests, Check(r)
      PROVE  [Ledger!Next]_Ledger!vars
  <2>1. /\ UNCHANGED <<payment, refund>>
        /\ shared' = shared \/ shared' = shared \cup {KeyOf[r]}
    BY <1>1 DEF Check, SharedBy
  <2>2. LedgerEntry' = LedgerEntry /\ LedgerClosed' = LedgerClosed
    BY <2>1 DEF LedgerEntry, LedgerClosed, LedgerState
  <2>3. Ledger!Share(KeyOf[r]) \/ UNCHANGED Ledger!vars
    BY <2>1, <2>2 DEF Ledger!Share, Ledger!vars
  <2>4. QED
    BY <1>a, <2>3 DEF Ledger!Next
<1>2. ASSUME NEW r \in Requests, Reserve(r)
      PROVE  [Ledger!Next]_Ledger!vars
  <2>1. CASE Admissible(r) /\ Row(r).status = "NONE"
    <3> DEFINE p == PaymentOf[r]
               k == KeyOf[r]
               a == RefundAmount(r)
    <3>1. /\ a \in Nat \ {0} /\ Reserved(p) + a <= Price[p]
          /\ k \in Keys /\ p \in Payments
      BY <1>a, <2>1, AdmittedAmount
    <3>2. /\ refund' = [refund EXCEPT ![k] =
                          [status |-> "PROCESSING", payment |-> p, amount |-> a]]
          /\ payment' = payment /\ shared' = shared
      BY <1>2, <2>1 DEF Reserve
    <3>3. payment[p] # "REFUNDED"
      BY <2>1 DEF Admissible
    <3>4. refund[k].status = "NONE"
      BY <2>1 DEF Row
    <3>5. a \in 1 .. Price[p]
      BY <1>b, <3>1
    <3> HIDE DEF a, p, k
    <3>6. LedgerEntry[k].state = "open"
      BY <3>1, <3>4 DEF LedgerEntry, LedgerState
    <3>7. p \notin LedgerClosed /\ LedgerClosed' = LedgerClosed
      BY <3>2, <3>3 DEF LedgerClosed
    <3>8. Ledger!Outstanding(p) + a <= Price[p]
      BY <1>a, <3>1, LedgerTotals DEF LedgerAgrees
    <3>9. LedgerEntry' = [LedgerEntry EXCEPT ![k] =
                            [state |-> "promised", payment |-> p, amount |-> a]]
      <4>1. ASSUME NEW x \in Keys
            PROVE  LedgerEntry'[x] = [LedgerEntry EXCEPT ![k] =
                     [state |-> "promised", payment |-> p, amount |-> a]][x]
        <5>1. CASE x = k
          <6>1. refund'[x] = [status |-> "PROCESSING", payment |-> p, amount |-> a]
            BY <1>a, <3>1, <3>2, <5>1 DEF TypeOK
          <6>2. LedgerEntry'[x] = [state |-> "promised", payment |-> p, amount |-> a]
            BY <6>1 DEF LedgerEntry, LedgerState
          <6>3. QED
            BY <5>1, <6>2 DEF LedgerEntry
        <5>2. CASE x # k
          <6>1. refund'[x] = refund[x]
            BY <1>a, <3>1, <3>2, <5>2 DEF TypeOK
          <6>2. LedgerEntry'[x] = LedgerEntry[x]
            BY <6>1 DEF LedgerEntry, LedgerState
          <6>3. QED
            BY <5>2, <6>2 DEF LedgerEntry
        <5>3. QED
          BY <5>1, <5>2
      <4>2. QED
        BY <4>1 DEF LedgerEntry
    <3>10. Ledger!Promise(k, p, a)
      BY <3>2, <3>6, <3>7, <3>8, <3>9 DEF Ledger!Promise
    <3>11. QED
      BY <3>1, <3>5, <3>10 DEF Ledger!Next
  <2>2. CASE ~(Admissible(r) /\ Row(r).status = "NONE")
    <3>1. UNCHANGED <<payment, refund, shared>>
      BY <1>2, <2>2 DEF Reserve
    <3>2. QED
      BY <3>1 DEF LedgerEntry, LedgerClosed, LedgerState, Ledger!vars
  <2>3. QED
    BY <2>1, <2>2
<1>3. ASSUME NEW r \in Requests, MarkFailed(r)
      PROVE  [Ledger!Next]_Ledger!vars
  <2> DEFINE k == KeyOf[r]
  <2>1. /\ refund' = [refund EXCEPT ![k].status = "FAILED"]
        /\ payment' = payment /\ shared' = shared
        /\ pc[r] = "fail"
    BY <1>3 DEF MarkFailed
  <2>2. k \in Keys /\ refund[k].status # "NONE" /\ refund[k].status \in RefundStatus
    BY <1>a, <2>1, BoundRow DEF Bound, Row, TypeOK
  <2>3. LedgerEntry[k].state = "promised" \/ (k \in shared /\ LedgerEntry[k].state # "open")
    <3>1. k \in shared \/ refund[k].status = "PROCESSING"
      BY <1>a, <2>1 DEF BoundRowsAreProcessing, Bound, Row
    <3>2. QED
      BY <2>2, <3>1 DEF LedgerEntry, LedgerState, RefundStatus
  <2>4. LedgerEntry' = [LedgerEntry EXCEPT ![k].state = "withdrawn"]
    BY <1>a, <2>1, <2>2, EntryStep DEF LedgerState
  <2>5. LedgerClosed' = LedgerClosed
    BY <2>1 DEF LedgerClosed
  <2>6. Ledger!Withdraw(k)
    BY <2>1, <2>3, <2>4, <2>5 DEF Ledger!Withdraw
  <2>7. QED
    BY <2>2, <2>6 DEF Ledger!Next
<1>4. ASSUME NEW r \in Requests, Commit(r)
      PROVE  [Ledger!Next]_Ledger!vars
  <2> DEFINE k == KeyOf[r]
             p == PaymentOf[r]
  <2>1. /\ refund' = [refund EXCEPT ![k].status = "COMPLETED"]
        /\ payment' = IF target[r] = "unchanged" THEN payment
                      ELSE [payment EXCEPT ![p] = target[r]]
        /\ pc[r] = "commit" /\ shared' = shared
    BY <1>4 DEF Commit
  <2>2. /\ k \in Keys /\ p \in Payments
        /\ refund[k].status # "NONE" /\ refund[k].status \in RefundStatus
        /\ refund[k].payment = p /\ refund[k].amount \in Nat \ {0}
    BY <1>a, <2>1, BoundRow DEF Bound, Row, TypeOK
  <2>3. /\ LedgerEntry[k].state = "promised" \/ (k \in shared /\ LedgerEntry[k].state # "open")
        /\ LedgerEntry[k].payment = p
    <3>1. k \in shared \/ refund[k].status = "PROCESSING"
      BY <1>a, <2>1 DEF BoundRowsAreProcessing, Bound, Row
    <3>2. QED
      BY <2>2, <3>1 DEF LedgerEntry, LedgerState, RefundStatus
  <2>4. LedgerEntry' = [LedgerEntry EXCEPT ![k].state = "settled"]
    BY <1>a, <2>1, <2>2, EntryStep DEF LedgerState
  <2>5. /\ payment'[p] = "REFUNDED" => LedgerClosed' = LedgerClosed \cup {p}
        /\ payment'[p] # "REFUNDED" => LedgerClosed' = LedgerClosed \ {p}
    BY <1>a, <2>1, <2>2 DEF LedgerClosed, TypeOK
  <2>6. ~Alone(p) => Ledger!Disturbed(p)
    BY <1>a, <2>2, DisturbedPayment
  <2>7. ASSUME Alone(p) PROVE payment[p] # "REFUNDED"
    <3>1. refund[k].status = "PROCESSING" /\ Books(p)
      BY <1>a, <2>1, <2>2, <2>7, LoneRow DEF Bound, Row, MoneyInv
    <3>2. Completed(p) + refund[k].amount <= Reserved(p)
      BY <1>a, <2>2, <3>1, ReservedCovers
    <3>3. Completed(p) # Price[p]
      BY <1>b, <2>2, <3>1, <3>2 DEF Books
    <3>4. QED
      BY <3>1, <3>3 DEF Books, Shows
  <2>8. ASSUME Alone(p), payment'[p] = "REFUNDED" PROVE Ledger!Settled(p)' = Price[p]
    <3>1. Alone(p)'
      <4>1. ASSUME NEW x \in shared
            PROVE  refund'[x].status = "NONE" \/ refund'[x].payment # p
        <5>1. x \in Keys /\ (refund[x].payment # p \/ refund[x].status = "NONE")
          BY <1>a, <2>8 DEF Alone, TypeOK
        <5>2. x # k
          BY <2>2, <2>8 DEF Alone
        <5>3. refund'[x] = refund[x]
          BY <1>a, <2>1, <5>2 DEF TypeOK
        <5>4. QED
          BY <2>8, <5>3 DEF Alone
      <4>2. QED
        BY <2>1, <4>1 DEF Alone
    <3>2. Completed(p)' = Price[p]
      BY <2>2, <2>8, <3>1 DEF MoneyInv, Books, Shows
    <3>3. LedgerAgrees'
      BY <1>a, LedgerTotals, PTL
    <3>4. QED
      BY <2>2, <3>2, <3>3 DEF LedgerAgrees
  <2>9. \/ LedgerClosed' = LedgerClosed
        \/ /\ LedgerClosed' = LedgerClosed \cup {p}
           /\ Ledger!Settled(p)' = Price[p] \/ Ledger!Disturbed(p)
        \/ LedgerClosed' = LedgerClosed \ {p} /\ Ledger!Disturbed(p)
    <3>1. CASE payment'[p] = "REFUNDED"
      BY <2>5, <2>6, <2>8, <3>1
    <3>2. CASE payment'[p] # "REFUNDED" /\ Alone(p)
      <4>1. p \notin LedgerClosed
        BY <2>7, <3>2 DEF LedgerClosed
      <4>2. QED
        BY <2>5, <3>2, <4>1
    <3>3. CASE payment'[p] # "REFUNDED" /\ ~Alone(p)
      BY <2>5, <2>6, <3>3
    <3>4. QED
      BY <3>1, <3>2, <3>3
  <2>10. Ledger!Settle(k)
    BY <2>1, <2>3, <2>4, <2>9 DEF Ledger!Settle
  <2>11. QED
    BY <2>2, <2>10 DEF Ledger!Next
<1>5. ASSUME \/ \E r \in Requests :
                  \/ Send(r) \/ StripeAccepts(r) \/ StripeRejects(r)
                  \/ Answered(r) \/ CallFails(r) \/ Finalise(r) \/ Crash(r)
             \/ UNCHANGED vars
      PROVE  [Ledger!Next]_Ledger!vars
  <2>1. UNCHANGED <<payment, refund, shared>>
    BY <1>5 DEF Send, StripeAccepts, StripeRejects, Answered, CallFails, Finalise,
                Crash, vars
  <2>2. QED
    BY <2>1 DEF LedgerEntry, LedgerClosed, LedgerState, Ledger!vars
<1>6. QED
  BY <1>1, <1>2, <1>3, <1>4, <1>5 DEF Next, Proceed, AllEnded

(* createRefund implements the ledger it promises, whatever the callers do *)
(* with their keys.                                                        *)
THEOREM RefundsImplementLedger == Spec => ImplementsLedger
<1>1. Init => Ledger!Init
  BY LedgerInit
<1>2. /\ BackInv /\ ControlInv /\ MoneyInv
      /\ (BackInv /\ ControlInv /\ MoneyInv)'
      /\ [Next]_vars
      => [Ledger!Next]_Ledger!vars
  BY LedgerNext
<1>3. QED
  BY <1>1, <1>2, MoneyAlways, PTL DEF Spec, ImplementsLedger, Ledger!Spec
=============================================================================
