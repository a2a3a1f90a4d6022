----------------------------- MODULE PaymentState -----------------------------
(* The online payment of one order: its rows in orders, payments and           *)
(* payment_operations, the provider's own record of it, and what is on its way *)
(* between the two.  Operations are named by their business key, which the     *)
(* database keeps unique: one cancellation, one full refund, and one partial   *)
(* refund per amendment.                                                       *)
EXTENDS Integers, FiniteSets

CONSTANTS
  Amendments,       \* amendments the store may have approved
  AmendCents,       \* order_amendments.refund_cents
  Amount,           \* payments.expected_amount_cents
  Method,           \* payments.method
  Workers,          \* invocations that process operations: cron ticks, requests
  MaxTries,         \* MAX_PAYMENT_OPERATION_ATTEMPTS
  MaxReads,         \* bound: provider reads under way at once
  SlowWorkers,      \* a worker may outlive the lease of its operation
  MerchantRefunds,  \* refunds are also made by hand in the provider's panel
  Null

Keys == {"cancel", "refund"} \cup Amendments

ASSUME PaymentAssumption ==
  /\ IsFiniteSet(Amendments)
  /\ Amount \in Nat \ {0}
  /\ AmendCents \in [Amendments -> 1..Amount]
  /\ Method \in {"PIX", "CARD"}
  /\ MaxTries \in Nat \ {0}
  /\ MaxReads \in Nat
  /\ SlowWorkers \in BOOLEAN
  /\ MerchantRefunds \in BOOLEAN
  /\ Amendments \cap {"cancel", "refund"} = {}
  /\ Null \notin Keys \cup Workers

VARIABLES
  order,       \* orders.status; IN_PROGRESS stands for ACCEPTED .. OUT_FOR_DELIVERY
  pstatus,     \* payments.status
  known,       \* payments.provider_order_id is set
  recon,       \* payments.reconciliation_state
  reconTries,  \* payments.reconciliation_attempt_count, up to MaxTries
  refunded,    \* payments.refunded_amount_cents
  opStatus,    \* payment_operations.status; NONE before the row exists
  opDep,       \* payment_operations.depends_on_operation_id
  opTarget,    \* payment_operations.expected_refunded_amount_cents, 0 for null
  opTries,     \* payment_operations.attempt_count, up to MaxTries
  opOwner,     \* payment_operations.lease_owner
  leased,      \* payment_operations.leased_until lies ahead
  born,        \* the order of payment_operations.created_at
  worker,      \* what each worker is doing
  checkout,    \* the request that creates the order at the provider
  reads,       \* snapshots read and not yet applied
  provider,    \* the provider's state of the payment
  prefunded,   \* cents the provider has given back
  applied      \* idempotency keys whose effect the provider has applied

paymentRow == <<pstatus, known, recon, reconTries, refunded>>
operations == <<opStatus, opDep, opTarget, opTries, opOwner, leased, born>>
external   == <<provider, prefunded, applied>>
vars       == <<order, paymentRow, operations, worker, checkout, reads, external>>

ORDER == {"AWAITING_PAYMENT", "PENDING", "IN_PROGRESS", "DELIVERED",
          "DELIVERY_FAILED", "CANCELLED"}
PAYMENT_STATUSES == {"PENDING", "APPROVED", "REJECTED", "CANCELLED", "EXPIRED", "REFUNDED"}
OPERATION_STATUSES == {"NONE", "PENDING", "PROCESSING", "SUCCEEDED", "REVIEW_REQUIRED"}
PROVIDER_STATES == {"none", "actionable", "processing", "approved", "rejected",
                    "cancelled", "expired", "disputed"}

Snapshot == [state : PROVIDER_STATES \ {"none"}, refunded : 0..Amount]
Read == [via : {"create", "webhook", "refresh"}, tries : 0..MaxTries, snap : Snapshot]
Working == [pc : {"idle", "claimed", "calling", "reading", "settling", "recovering"},
            key : Keys \cup {Null}, tries : 0..MaxTries, snap : Snapshot \cup {Null}]
Idle == [pc |-> "idle", key |-> Null, tries |-> 0, snap |-> Null]

TypeOK ==
  /\ order \in ORDER
  /\ pstatus \in PAYMENT_STATUSES
  /\ known \in BOOLEAN
  /\ recon \in {"PENDING", "HEALTHY", "REVIEW_REQUIRED"}
  /\ reconTries \in 0..MaxTries
  /\ refunded \in 0..Amount
  /\ opStatus \in [Keys -> OPERATION_STATUSES]
  /\ opDep \in [Keys -> Keys \cup {Null}]
  /\ opTarget \in [Keys -> 0..Amount]
  /\ opTries \in [Keys -> 0..MaxTries]
  /\ opOwner \in [Keys -> Workers \cup {Null}]
  /\ leased \in [Keys -> BOOLEAN]
  /\ born \in [Keys -> 0..Cardinality(Keys)]
  /\ worker \in [Workers -> Working]
  /\ checkout \in {"begun", "sent", "done"}
  /\ reads \subseteq Read
  /\ provider \in PROVIDER_STATES
  /\ prefunded \in 0..Amount
  /\ applied \subseteq Keys

(* createOrder has committed the order and its payment attempt, and is about to*)
(* call the provider.                                                          *)
Init ==
  /\ order = "AWAITING_PAYMENT"
  /\ pstatus = "PENDING"
  /\ known = FALSE
  /\ recon = "PENDING"
  /\ reconTries = 0
  /\ refunded = 0
  /\ opStatus = [k \in Keys |-> "NONE"]
  /\ opDep = [k \in Keys |-> Null]
  /\ opTarget = [k \in Keys |-> 0]
  /\ opTries = [k \in Keys |-> 0]
  /\ opOwner = [k \in Keys |-> Null]
  /\ leased = [k \in Keys |-> FALSE]
  /\ born = [k \in Keys |-> 0]
  /\ worker = [w \in Workers |-> Idle]
  /\ checkout = "begun"
  /\ reads = {}
  /\ provider = "none"
  /\ prefunded = 0
  /\ applied = {}

Now == [state |-> provider, refunded |-> prefunded]      \* an authoritative read

Tried(n) == IF n < MaxTries THEN n + 1 ELSE n

-------------------------------------------------------------------------------
InProcessToo == {"approved", "processing"}   \* mutant: in_process read as charged

(* Provider states in which the whole amount has been charged.                 *)
Accredited == {"approved"}

(* What a snapshot of this payment means; a chargeback, and anything that does *)
(* not match the attempt, is for a person to decide.                           *)
validateSnapshot(s) ==
  CASE s.state \in Accredited ->
         IF s.refunded = 0 THEN "APPROVED"
         ELSE IF s.refunded = Amount THEN "REFUNDED" ELSE "PARTIALLY_REFUNDED"
    [] s.state \in {"actionable", "processing"} -> "PENDING"
    [] s.state = "rejected"  -> "REJECTED"
    [] s.state = "cancelled" -> "CANCELLED"
    [] s.state = "expired"   -> "EXPIRED"
    [] OTHER -> "REVIEW_REQUIRED"

Paid == {"APPROVED", "PARTIALLY_REFUNDED", "REFUNDED"}
NotCharged == {"REJECTED", "CANCELLED", "EXPIRED"}

ApprovedOutranksOnly(s) ==               \* mutant: a late snapshot may undo REFUNDED
  pstatus = "APPROVED" /\ validateSnapshot(s) \in NotCharged \cup {"PENDING"}

(* A snapshot older than what the row already says.                            *)
IsStale(s) ==
  \/ pstatus = "REFUNDED"
  \/ pstatus = "APPROVED" /\ validateSnapshot(s) \in NotCharged \cup {"PENDING"}

(* payments.status once the snapshot is persisted.                             *)
StatusAfter(s) ==
  CASE validateSnapshot(s) = "PENDING"  -> pstatus
    [] validateSnapshot(s) = "REFUNDED" -> "REFUNDED"
    [] validateSnapshot(s) \in Paid \ {"REFUNDED"} -> "APPROVED"
    [] OTHER -> validateSnapshot(s)

(* orders.status with it.  Only a CANCEL operation does not release the order: *)
(* money that came in all the same makes it cancel the order instead.          *)
OrderAfter(s, release) ==
  IF order # "AWAITING_PAYMENT" THEN order
  ELSE CASE validateSnapshot(s) \in Paid /\ release ->
              IF pstatus # "APPROVED" THEN "PENDING" ELSE order
         [] validateSnapshot(s) \in Paid \ {"REFUNDED"} /\ ~release -> "CANCELLED"
         [] validateSnapshot(s) \in NotCharged \ {pstatus} -> "CANCELLED"
         [] OTHER -> order

(* applyProviderSnapshotInTransaction without the operation it may queue.      *)
Reviewed(s) ==
  /\ validateSnapshot(s) = "REVIEW_REQUIRED"
  /\ recon' = "REVIEW_REQUIRED"
  /\ UNCHANGED <<order, pstatus, known, reconTries, refunded>>

Ignored(s) ==
  /\ validateSnapshot(s) # "REVIEW_REQUIRED"
  /\ IsStale(s)
  /\ UNCHANGED <<order, paymentRow>>

Persisted(s, release) ==
  /\ validateSnapshot(s) # "REVIEW_REQUIRED"
  /\ ~IsStale(s)
  /\ pstatus' = StatusAfter(s)
  /\ known' = TRUE
  /\ recon' = "HEALTHY"
  /\ reconTries' = 0
  /\ refunded' = s.refunded
  /\ order' = OrderAfter(s, release)

applyProviderSnapshot(s, release) ==
  Reviewed(s) \/ Ignored(s) \/ Persisted(s, release)

-------------------------------------------------------------------------------
(* ensureCancelledOrderPaymentDisposition, for a row with this status: the one *)
(* operation that gives the money back or stops it from being taken.           *)
Disposition(status, provided) ==
  CASE provided /\ status = "PENDING"  -> {"cancel"}
    [] provided /\ status = "APPROVED" -> {"refund"}
    [] OTHER -> {}

OwedByAnyOrder(s) ==                     \* mutant: the order is not asked whether it ended
  IF validateSnapshot(s) \in Paid \cup {"PENDING"} /\ ~IsStale(s)
  THEN Disposition(StatusAfter(s), TRUE) ELSE {}

(* What applying the snapshot makes a cancelled order owe.                     *)
OwedAfter(s) ==
  IF order = "CANCELLED" /\ validateSnapshot(s) \in Paid \cup {"PENDING"} /\ ~IsStale(s)
  THEN Disposition(StatusAfter(s), TRUE) ELSE {}

Existing == {k \in Keys : opStatus[k] # "NONE"}
Active == {k \in Keys : opStatus[k] \in {"PENDING", "PROCESSING"}}

(* enqueuePaymentOperation throws, and the transaction with it, as long as any *)
(* operation of the payment is under review.                                   *)
ChainInReview == \E k \in Keys : opStatus[k] = "REVIEW_REQUIRED"

Refuses(keys) == keys # {} /\ ChainInReview

Latest(ks) == CHOOSE k \in ks : \A j \in ks : born[j] <= born[k]

Predecessor(k) ==
  LET others == Active \ {k} IN IF others = {} THEN Null ELSE Latest(others)

MaxTarget ==
  CHOOSE t \in {refunded} \cup {opTarget[k] : k \in Keys} :
    \A u \in {refunded} \cup {opTarget[k] : k \in Keys} : u <= t

expectedRefundedAmount(k) ==
  CASE k = "cancel" -> 0
    [] k = "refund" -> Amount
    [] OTHER -> MaxTarget + AmendCents[k]

(* The rows with the operations of `keys` queued, unless they already are.     *)
Queued(keys) ==
  [k \in Keys |-> IF k \in keys /\ opStatus[k] = "NONE" THEN "PENDING" ELSE opStatus[k]]

Register(keys) ==
  LET new == keys \ Existing IN
  /\ opDep' = [k \in Keys |-> IF k \in new THEN Predecessor(k) ELSE opDep[k]]
  /\ opTarget' = [k \in Keys |-> IF k \in new THEN expectedRefundedAmount(k) ELSE opTarget[k]]
  /\ born' = [k \in Keys |-> IF k \in new THEN Cardinality(Existing) + 1 ELSE born[k]]

enqueuePaymentOperation(keys) ==
  /\ ~Refuses(keys)
  /\ opStatus' = Queued(keys)
  /\ Register(keys)
  /\ UNCHANGED <<opTries, opOwner, leased>>
===============================================================================
