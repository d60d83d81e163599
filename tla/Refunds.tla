------------------------------ MODULE Refunds ------------------------------
(***************************************************************************)
(* RefundsService.createRefund: concurrent refund requests against the     *)
(* tables payments and payment_refunds and against Stripe.                 *)
(*                                                                         *)
(* A request runs three database steps with a call to Stripe between them, *)
(* and any of the waits in between can interleave with another request:    *)
(*                                                                         *)
(*    Check     read the row of the idempotency key (no transaction)       *)
(*    Reserve   transaction 1: lock the payment, insert a PROCESSING row   *)
(*    Send      call Stripe, outside any transaction                       *)
(*    MarkFailed  on an error: save the row as FAILED                      *)
(*    Finalise / Commit   transaction 2: the row COMPLETED and the status  *)
(*              of the payment, computed from a read of the other rows     *)
(*                                                                         *)
(* Postgres runs at READ COMMITTED: transaction 2 sees its own write and   *)
(* what the others committed before its read.  Money is in whole cents.    *)
(***************************************************************************)
EXTENDS Integers, FiniteSets, Money

CONSTANTS
  Payments,     \* payments.id
  Keys,         \* payment_refunds.idempotency_key (unique)
  Requests,     \* calls of createRefund
  Price,        \* payments.amount
  WithIntent,   \* the payments that have a stripe_payment_intent_id
  Charged,      \* the payments Stripe has collected
  KeyOf,        \* the idempotency key of a request
  PaymentOf,    \* the payment of a request
  AskOf         \* dto.amount of a request; 0 when the dto has none

ASSUME ConstantsAssumption ==
  /\ IsFiniteSet(Keys)
  /\ Price \in [Payments -> Nat \ {0}]
  /\ WithIntent \subseteq Payments
  /\ Charged \subseteq WithIntent
  /\ KeyOf \in [Requests -> Keys]
  /\ PaymentOf \in [Requests -> Payments]
  /\ AskOf \in [Requests -> Nat]

VARIABLES
  payment,   \* payments.status
  refund,    \* payment_refunds, by idempotency key
  stripe,    \* what Stripe refunded under a key, of which payment
  pc,        \* where a request is in createRefund
  held,      \* refundReservation.refundAmount of a request
  wire,      \* the call of a request to Stripe and its answer
  target,    \* the payment status a request is about to commit
  shared,    \* keys that two requests ran at once
  lapped     \* payments of which two requests were in transaction 2 at once
             \* (shared and lapped are history: no action reads them)

vars == <<payment, refund, stripe, pc, held, wire, target, shared, lapped>>

PaymentStatus == {"PENDING", "PAID", "PARTIALLY_REFUNDED", "REFUNDED"}
RefundStatus == {"NONE", "PROCESSING", "COMPLETED", "FAILED"}
Ended == {"replayed", "refunded", "rejected", "failed", "crashed"}
Running == {"reserve", "send", "await", "finalise", "commit", "fail"}

Rows(p, statuses) == {k \in Keys : refund[k].payment = p /\ refund[k].status \in statuses}
RowAmounts == [k \in Keys |-> refund[k].amount]
Reserved(p) == Total(Rows(p, {"PROCESSING", "COMPLETED"}), RowAmounts)
Completed(p) == Total(Rows(p, {"COMPLETED"}), RowAmounts)

PaidBack(p) == {k \in Keys : stripe[k].payment = p}
StripeAmounts == [k \in Keys |-> stripe[k].amount]
StripeTotal(p) == Total(PaidBack(p), StripeAmounts)

Init ==
  /\ payment = [p \in Payments |-> IF p \in Charged THEN "PAID" ELSE "PENDING"]
  /\ \E p \in Payments :
       /\ refund = [k \in Keys |-> [status |-> "NONE", payment |-> p, amount |-> 0]]
       /\ stripe = [k \in Keys |-> [payment |-> p, amount |-> 0]]
  /\ pc = [r \in Requests |-> "idle"]
  /\ held = [r \in Requests |-> 0]
  /\ wire = [r \in Requests |-> "none"]
  /\ target = [r \in Requests |-> "unchanged"]
  /\ shared = {}
  /\ lapped = {}

Row(r) == refund[KeyOf[r]]
SameKey(r) == {s \in Requests : KeyOf[s] = KeyOf[r]} \ {r}

(* The row differs from what the request asks: another payment, or another *)
(* amount when the request names one.                                      *)
Conflict(r) ==
  \/ Row(r).payment # PaymentOf[r]
  \/ AskOf[r] # 0 /\ Row(r).amount # AskOf[r]

(* The keys that have been shared once request r starts.                   *)
SharedBy(r) ==
  IF \E s \in SameKey(r) : pc[s] \in Running THEN shared \cup {KeyOf[r]} ELSE shared

(* Mutant of Check: a reservation under way is replayed as if it were done. *)
CheckMutant(r) ==
  /\ pc[r] = "idle"
  /\ shared' = SharedBy(r)
  /\ pc' = [pc EXCEPT ![r] = IF Row(r).status = "NONE" THEN "reserve" ELSE "replayed"]
  /\ UNCHANGED <<payment, refund, stripe, held, wire, target, lapped>>

(* 1. The row of the key, read outside any transaction, decides the path.  *)
(* Nothing keeps a second request of the key from starting: a retry, or    *)
(* the second of two cancellations of an order.                            *)
Check(r) ==
  /\ pc[r] = "idle"
  /\ shared' = SharedBy(r)
  /\ \/ /\ Row(r).status = "NONE"
        /\ pc' = [pc EXCEPT ![r] = "reserve"]
        /\ held' = held
     \/ /\ Row(r).status # "NONE" /\ Conflict(r)
        /\ pc' = [pc EXCEPT ![r] = "rejected"]
        /\ held' = held
     \/ /\ Row(r).status = "COMPLETED" /\ ~Conflict(r)
        /\ pc' = [pc EXCEPT ![r] = "replayed"]
        /\ held' = held
     \/ /\ Row(r).status = "FAILED" /\ ~Conflict(r)
        /\ pc' = [pc EXCEPT ![r] = "reserve"]
        /\ held' = held
     \/ /\ Row(r).status = "PROCESSING" /\ ~Conflict(r)
        /\ pc' = [pc EXCEPT ![r] = "send"]
        /\ held' = [held EXCEPT ![r] = Row(r).amount]
  /\ UNCHANGED <<payment, refund, stripe, wire, target, lapped>>

(* Mutant of Remaining: reservations under way are forgotten.              *)
RemainingMutant(p) == Price[p] - Completed(p)

Remaining(p) == Price[p] - Reserved(p)
RefundAmount(r) == IF AskOf[r] # 0 THEN AskOf[r] ELSE Remaining(PaymentOf[r])

(* What transaction 1 checks under the lock of the payment row, and the    *)
(* unique index on idempotency_key that its INSERT meets.                  *)
Admissible(r) ==
  LET p == PaymentOf[r]
  IN  /\ payment[p] # "REFUNDED"
      /\ p \in WithIntent
      /\ Remaining(p) > 0
      /\ RefundAmount(r) <= Remaining(p)

(* Mutant of Reserve: the row of a FAILED refund is written over.          *)
ReserveMutant(r) ==
  /\ pc[r] = "reserve"
  /\ Admissible(r)
  /\ refund' = [refund EXCEPT ![KeyOf[r]] =
                  [status |-> "PROCESSING", payment |-> PaymentOf[r],
                   amount |-> RefundAmount(r)]]
  /\ held' = [held EXCEPT ![r] = RefundAmount(r)]
  /\ pc' = [pc EXCEPT ![r] = "send"]
  /\ UNCHANGED <<payment, stripe, wire, target, shared, lapped>>

(* 2. Transaction 1.  The lock serialises it against the other requests of *)
(* the payment, so it is one step.                                         *)
Reserve(r) ==
  /\ pc[r] = "reserve"
  /\ \/ /\ Admissible(r)
        /\ Row(r).status = "NONE"
        /\ refund' = [refund EXCEPT ![KeyOf[r]] =
                        [status |-> "PROCESSING", payment |-> PaymentOf[r],
                         amount |-> RefundAmount(r)]]
        /\ held' = [held EXCEPT ![r] = RefundAmount(r)]
        /\ pc' = [pc EXCEPT ![r] = "send"]
     \/ /\ ~(Admissible(r) /\ Row(r).status = "NONE")
        /\ pc' = [pc EXCEPT ![r] = "rejected"]
        /\ UNCHANGED <<refund, held>>
  /\ UNCHANGED <<payment, stripe, wire, target, shared, lapped>>

(* 3. The call to Stripe, with the key and the amount of the row.          *)
Send(r) ==
  /\ pc[r] = "send"
  /\ pc' = [pc EXCEPT ![r] = "await"]
  /\ wire' = [wire EXCEPT ![r] = "sent"]
  /\ UNCHANGED <<payment, refund, stripe, held, target, shared, lapped>>

(* Stripe: a key it has refunded is answered again without a second        *)
(* refund; a new key is refunded as long as the charge covers it; it may   *)
(* answer any call with an error.  It handles the call even when the       *)
(* caller has given up on it or has crashed.                               *)
StripeAccepts(r) ==
  LET k == KeyOf[r]
      p == PaymentOf[r]
  IN  /\ wire[r] = "sent"
      /\ \/ /\ stripe[k].amount = 0
            /\ p \in Charged
            /\ StripeTotal(p) + held[r] <= Price[p]
            /\ stripe' = [stripe EXCEPT ![k] = [payment |-> p, amount |-> held[r]]]
         \/ /\ stripe[k] = [payment |-> p, amount |-> held[r]]
            /\ stripe' = stripe
      /\ wire' = [wire EXCEPT ![r] = "ok"]
      /\ UNCHANGED <<payment, refund, pc, held, target, shared, lapped>>

StripeRejects(r) ==
  /\ wire[r] = "sent"
  /\ wire' = [wire EXCEPT ![r] = "error"]
  /\ UNCHANGED <<payment, refund, stripe, pc, held, target, shared, lapped>>

(* Mutant of Answered: every answer is taken for a success.                *)
AnsweredMutant(r) ==
  /\ pc[r] = "await"
  /\ wire[r] \in {"ok", "error"}
  /\ pc' = [pc EXCEPT ![r] = "finalise"]
  /\ UNCHANGED <<payment, refund, stripe, held, wire, target, shared, lapped>>

(* The caller takes the answer, or an error: Stripe's own, or a connection *)
(* that broke or timed out whatever Stripe did with the call.              *)
Answered(r) ==
  /\ pc[r] = "await"
  /\ wire[r] = "ok"
  /\ pc' = [pc EXCEPT ![r] = "finalise"]
  /\ UNCHANGED <<payment, refund, stripe, held, wire, target, shared, lapped>>

CallFails(r) ==
  /\ pc[r] = "await"
  /\ pc' = [pc EXCEPT ![r] = "fail"]
  /\ UNCHANGED <<payment, refund, stripe, held, wire, target, shared, lapped>>

(* Transaction 2 of another request holds the lock of the row of the key.  *)
RowLocked(r) == \E s \in SameKey(r) : pc[s] = "commit"

(* Mutant of MarkFailed: the catch block only throws.                      *)
MarkFailedMutant(r) ==
  /\ pc[r] = "fail"
  /\ pc' = [pc EXCEPT ![r] = "failed"]
  /\ UNCHANGED <<payment, refund, stripe, held, wire, target, shared, lapped>>

(* The catch block saves the entity it has held since step 1 or 2, with    *)
(* its status replaced: whatever the row has become is overwritten.        *)
MarkFailed(r) ==
  /\ pc[r] = "fail"
  /\ ~RowLocked(r)
  /\ refund' = [refund EXCEPT ![KeyOf[r]].status = "FAILED"]
  /\ pc' = [pc EXCEPT ![r] = "failed"]
  /\ UNCHANGED <<payment, stripe, held, wire, target, shared, lapped>>

(* Mutant of CompletedSeen: the sum takes in reservations under way.       *)
CompletedSeenMutant(r) == Reserved(PaymentOf[r])

(* 4. Transaction 2 writes its row and reads the COMPLETED rows and the    *)
(* payment.  Neither read locks anything.                                  *)
CompletedSeen(r) ==
  Total(Rows(PaymentOf[r], {"COMPLETED"}) \cup {KeyOf[r]}, RowAmounts)

(* Mutant of NewStatus: the payment gets the status of the refund.         *)
NewStatusMutant(r) ==
  IF CompletedSeen(r) >= Price[PaymentOf[r]] THEN "COMPLETED" ELSE "PARTIALLY_REFUNDED"

NewStatus(r) ==
  IF CompletedSeen(r) >= Price[PaymentOf[r]] THEN "REFUNDED" ELSE "PARTIALLY_REFUNDED"

Finalise(r) ==
  /\ pc[r] = "finalise"
  /\ ~RowLocked(r)
  /\ target' = [target EXCEPT ![r] = IF NewStatus(r) = payment[PaymentOf[r]]
                                       THEN "unchanged" ELSE NewStatus(r)]
  /\ lapped' = IF \E s \in Requests \ {r} :
                    pc[s] = "commit" /\ PaymentOf[s] = PaymentOf[r]
                 THEN lapped \cup {PaymentOf[r]} ELSE lapped
  /\ pc' = [pc EXCEPT ![r] = "commit"]
  /\ UNCHANGED <<payment, refund, stripe, held, wire, shared>>

(* The commit makes its row and its UPDATE of the payment visible; the ORM *)
(* issued no UPDATE when the status it read was already the new one.       *)
Commit(r) ==
  /\ pc[r] = "commit"
  /\ refund' = [refund EXCEPT ![KeyOf[r]].status = "COMPLETED"]
  /\ payment' = IF target[r] = "unchanged" THEN payment
                ELSE [payment EXCEPT ![PaymentOf[r]] = target[r]]
  /\ target' = [target EXCEPT ![r] = "unchanged"]
  /\ pc' = [pc EXCEPT ![r] = "refunded"]
  /\ UNCHANGED <<stripe, held, wire, shared, lapped>>

(* The process or its database connection dies.  An open transaction is    *)
(* rolled back; a call on its way to Stripe is not recalled.               *)
Crash(r) ==
  /\ pc[r] \in Running
  /\ pc' = [pc EXCEPT ![r] = "crashed"]
  /\ target' = [target EXCEPT ![r] = "unchanged"]
  /\ UNCHANGED <<payment, refund, stripe, held, wire, shared, lapped>>

(* A request that has started does one of these when it is scheduled.      *)
Proceed(r) ==
  \/ Reserve(r) \/ Send(r) \/ Answered(r) \/ CallFails(r)
  \/ MarkFailed(r) \/ Finalise(r) \/ Commit(r)

AllEnded ==
  /\ \A r \in Requests : pc[r] \in Ended /\ wire[r] # "sent"
  /\ UNCHANGED vars

Next ==
  \/ \E r \in Requests : \/ Check(r) \/ Proceed(r) \/ Crash(r)
                         \/ StripeAccepts(r) \/ StripeRejects(r)
  \/ AllEnded

Spec == Init /\ [][Next]_vars

(* The event loop runs every ready continuation, and the HTTP client of    *)
(* the Stripe SDK ends every call with an answer or a timeout.             *)
FairSpec == Spec /\ \A r \in Requests : WF_vars(Proceed(r))
-----------------------------------------------------------------------------
(* The tables as the ledger that createRefund promises its callers.        *)
LedgerState(status) ==
  CASE status = "NONE"       -> "open"
    [] status = "PROCESSING" -> "promised"
    [] status = "COMPLETED"  -> "settled"
    [] status = "FAILED"     -> "withdrawn"

LedgerEntry ==
  [k \in Keys |-> [state |-> LedgerState(refund[k].status),
                   payment |-> refund[k].payment, amount |-> refund[k].amount]]

LedgerClosed == {p \in Payments : payment[p] = "REFUNDED"}

Ledger == INSTANCE RefundLedger WITH entry <- LedgerEntry, closed <- LedgerClosed

(* createRefund with its requests interleaved, cut short and answered late *)
(* implements the ledger, in which only the entry of a key that two        *)
(* requests ran at once may be settled or withdrawn a second time.         *)
ImplementsLedger == Ledger!Spec

-----------------------------------------------------------------------------
(* Every variable keeps its type.                                          *)
TypeOK ==
  /\ payment \in [Payments -> PaymentStatus]
  /\ refund \in [Keys -> [status : RefundStatus, payment : Payments, amount : Nat]]
  /\ stripe \in [Keys -> [payment : Payments, amount : Nat]]
  /\ pc \in [Requests -> {"idle"} \cup Running \cup Ended]
  /\ held \in [Requests -> Nat]
  /\ wire \in [Requests -> {"none", "sent", "ok", "error"}]
  /\ target \in [Requests -> {"unchanged", "PARTIALLY_REFUNDED", "REFUNDED"}]
  /\ shared \subseteq Keys
  /\ lapped \subseteq Payments

(* The books never claim a refund that was not made: a COMPLETED row names *)
(* the payment and the amount Stripe refunded under its key, whatever      *)
(* calls were lost, retried or left behind by a crash (createRefund,       *)
(* phases 2 and 3).                                                        *)
CompletedIsPaidBack ==
  \A k \in Keys : refund[k].status = "COMPLETED" =>
    stripe[k] = [payment |-> refund[k].payment, amount |-> refund[k].amount]

(* No payment has more COMPLETED refunds than it collected, even when      *)
(* callers use one key concurrently: Stripe's own limit stands behind the  *)
(* check of the remaining balance.                                         *)
CompletedWithinPrice == \A p \in Payments : Completed(p) <= Price[p]

(* No row of the payment belongs to a key that two requests ran at once.   *)
Alone(p) == \A k \in shared : refund[k].status = "NONE" \/ refund[k].payment # p

(* Reservations and completed refunds together exceed a payment only when  *)
(* two requests ran one of its keys at once: the catch block of the one    *)
(* frees an amount that the other is still refunding (phases 1 and 2).     *)
ReservedWithinPrice == \A p \in Payments : Alone(p) => Reserved(p) <= Price[p]

(* payments.status says what the rows say, though phase 3 computes it from *)
(* reads that may be stale at commit.  It runs ahead of the rows only when *)
(* two requests ran one key at once; it stays behind, PARTIALLY_REFUNDED   *)
(* with the whole price completed, only then or when two requests were in  *)
(* phase 3 of the payment at once.                                         *)
StatusFollowsRows ==
  \A p \in Payments : Alone(p) =>
    /\ payment[p] = "REFUNDED" => Completed(p) = Price[p]
    /\ payment[p] = "PARTIALLY_REFUNDED" => Completed(p) > 0
    /\ Completed(p) = Price[p] /\ p \notin lapped => payment[p] = "REFUNDED"

(* A caller that was told its refund is done can rely on it: a late        *)
(* answer, a crash or another request takes its row back only when it ran  *)
(* the same key at the same time (the catch block, which saves the row as  *)
(* FAILED whatever it has become).                                         *)
AnsweredRefundsStand ==
  \A r \in Requests : pc[r] \in {"refunded", "replayed"} /\ KeyOf[r] \notin shared =>
    Row(r).status = "COMPLETED"

(* What the test "should return existing completed refund without          *)
(* duplicate Stripe call on idempotent replay" says of createRefund: a     *)
(* call with the key and the parameters of a refund that was answered as   *)
(* done is answered in the same way.                                       *)
AnsweredRefundsAreReplayed ==
  [][\A r, s \in Requests :
       /\ pc[s] = "refunded"
       /\ <<KeyOf[r], PaymentOf[r], AskOf[r]>> = <<KeyOf[s], PaymentOf[s], AskOf[s]>>
       /\ pc[r] = "idle" /\ pc'[r] # "idle"
       => pc'[r] = "replayed"]_vars

(* A request that has a reservation settles its row, unless the process    *)
(* dies first: no answer of Stripe leaves it PROCESSING.                   *)
ReservationsSettle ==
  \A r \in Requests :
    pc[r] = "send" ~> (pc[r] = "crashed" \/ Row(r).status \in {"COMPLETED", "FAILED"})
=============================================================================
