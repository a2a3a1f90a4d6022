----------------------------- MODULE PaymentProofs -----------------------------
(* Theorems of Payments for every amount, set of amendments, of workers, and   *)
(* bound on attempts and reads, with slow workers and refunds by hand or not.  *)
EXTENDS Payments, Sums

USE DEF paymentRow, operations, external

Held(w) == worker[w].pc \in {"settling", "recovering"}
ChargedStates == {"approved", "disputed"}

(* A worker under way serves an operation, of a payment the provider knows.    *)
WorkersServe ==
  \A w \in Workers :
    /\ worker[w].pc # "idle" => worker[w].key \in Existing
    /\ worker[w].pc \notin {"idle", "claimed"} => known
    /\ Held(w) => worker[w].snap \in Snapshot

ProviderHasIt == known \/ reads # {} => provider # "none"

-------------------------------------------------------------------------------
LEMMA KeysFinite == IsFiniteSet(Keys)
<1>1. IsFiniteSet({})
  BY FS_EmptySet
<1>2. IsFiniteSet({} \cup {"cancel"})
  BY <1>1, FS_AddElement
<1>3. IsFiniteSet(({} \cup {"cancel"}) \cup {"refund"})
  BY <1>2, FS_AddElement
<1>4. {"cancel", "refund"} = ({} \cup {"cancel"}) \cup {"refund"}
  OBVIOUS
<1>5. IsFiniteSet({"cancel", "refund"})
  BY <1>3, <1>4
<1>6. QED
  BY <1>5, PaymentAssumption, FS_Union DEF Keys

LEMMA ExistingCounts == Cardinality(Existing) \in Nat
BY KeysFinite, FS_Subset, FS_CardinalityType DEF Existing

LEMMA MaxTargetType == TypeOK => MaxTarget \in 0..Amount
<1> SUFFICES ASSUME TypeOK PROVE MaxTarget \in 0..Amount
  OBVIOUS
<1> DEFINE T == {refunded} \cup {opTarget[k] : k \in Keys}
<1>1. T \in SUBSET (0..Amount) /\ T # {}
  BY DEF TypeOK
<1>2. \E t \in T : \A u \in T : u <= t
  BY <1>1, LargestBounded, PaymentAssumption
<1>3. QED
  BY <1>1, <1>2 DEF MaxTarget

-------------------------------------------------------------------------------
(* What is queued: operations of an ended order, or an amendment that fits.    *)
Queueable(keys) ==
  /\ keys \subseteq Keys
  /\ \A k \in keys \cap Amendments : expectedRefundedAmount(k) <= Amount

RowTypes ==
  /\ order \in ORDER
  /\ pstatus \in PAYMENT_STATUSES
  /\ known \in BOOLEAN
  /\ recon \in {"PENDING", "HEALTHY", "REVIEW_REQUIRED"}
  /\ reconTries \in 0..MaxTries
  /\ refunded \in 0..Amount

LEMMA AmendmentIsNeither ==
  ASSUME NEW a \in Amendments PROVE a # "cancel" /\ a # "refund"
BY PaymentAssumption

(* Every amount an operation aims at lies between 0 and the whole payment.     *)
LEMMA TargetType ==
  ASSUME TypeOK, NEW keys, Queueable(keys), NEW k \in keys
  PROVE  expectedRefundedAmount(k) \in 0..Amount
<1>1. Amount \in Nat
  BY PaymentAssumption
<1>2. CASE k = "cancel"
  BY <1>1, <1>2 DEF expectedRefundedAmount
<1>3. CASE k = "refund"
  BY <1>1, <1>3 DEF expectedRefundedAmount
<1>4. CASE k \in Amendments
  <2>1. MaxTarget \in Nat /\ AmendCents[k] \in Nat
    BY <1>4, MaxTargetType, PaymentAssumption
  <2>2. expectedRefundedAmount(k) = MaxTarget + AmendCents[k]
    BY <1>4, AmendmentIsNeither DEF expectedRefundedAmount
  <2>3. expectedRefundedAmount(k) <= Amount
    BY <1>4 DEF Queueable
  <2> QED
    BY <1>1, <2>1, <2>2, <2>3
<1>5. QED
  BY <1>2, <1>3, <1>4 DEF Queueable, Keys

(* The operation queued last is one of those it is looked for among.           *)
LEMMA LatestIsOne ==
  ASSUME TypeOK, NEW ks \in SUBSET Keys, ks # {} PROVE Latest(ks) \in ks
<1> DEFINE T == {born[k] : k \in ks}
<1>1. Cardinality(Keys) \in Nat
  BY KeysFinite, FS_CardinalityType
<1>2. T \in SUBSET (0..Cardinality(Keys)) /\ T # {}
  BY DEF TypeOK
<1>3. \E t \in T : \A u \in T : u <= t
  BY <1>1, <1>2, LargestBounded
<1>4. \E k \in ks : \A j \in ks : born[j] <= born[k]
  BY <1>3
<1>5. QED
  BY <1>4 DEF Latest

LEMMA PredecessorType ==
  ASSUME TypeOK, NEW k \in Keys PROVE Predecessor(k) \in Active \cup {Null}
<1>1. CASE Active \ {k} = {}
  BY <1>1 DEF Predecessor
<1>2. CASE Active \ {k} # {}
  <2>1. Active \ {k} \in SUBSET Keys
    BY DEF Active
  <2>2. Latest(Active \ {k}) \in Active
    BY <1>2, <2>1, LatestIsOne
  <2>3. QED
    BY <1>2, <2>2 DEF Predecessor
<1>3. QED
  BY <1>1, <1>2

-------------------------------------------------------------------------------
QueueTypes ==
  /\ opStatus \in [Keys -> OPERATION_STATUSES]
  /\ opDep \in [Keys -> Keys \cup {Null}]
  /\ opTarget \in [Keys -> 0..Amount]
  /\ opTries \in [Keys -> 0..MaxTries]
  /\ opOwner \in [Keys -> Workers \cup {Null}]
  /\ leased \in [Keys -> BOOLEAN]
  /\ born \in [Keys -> 0..Cardinality(Keys)]

OutsideTypes ==
  /\ worker \in [Workers -> Working]
  /\ checkout \in {"begun", "sent", "done"}
  /\ reads \subseteq Read
  /\ provider \in PROVIDER_STATES
  /\ prefunded \in 0..Amount
  /\ applied \subseteq Keys

LEMMA TypeParts == TypeOK <=> RowTypes /\ QueueTypes /\ OutsideTypes
BY DEF TypeOK, RowTypes, QueueTypes, OutsideTypes

LEMMA NewerThanAll ==
  ASSUME NEW k \in Keys, k \notin Existing
  PROVE  Cardinality(Existing) + 1 \in 0..Cardinality(Keys)
<1>1. Cardinality(Keys) \in Nat /\ Cardinality(Existing) \in Nat
  BY KeysFinite, FS_CardinalityType, ExistingCounts
<1>2. Existing \in SUBSET Keys /\ Existing # Keys
  BY DEF Existing
<1>3. Cardinality(Existing) <= Cardinality(Keys) /\ Cardinality(Existing) # Cardinality(Keys)
  BY <1>2, KeysFinite, FS_Subset
<1>4. QED
  BY <1>1, <1>3

LEMMA RegisterTypes ==
  ASSUME TypeOK, NEW keys, Queueable(keys), Register(keys)
  PROVE  /\ opDep' \in [Keys -> Keys \cup {Null}]
         /\ opTarget' \in [Keys -> 0..Amount]
         /\ born' \in [Keys -> 0..Cardinality(Keys)]
<1>1. \A k \in Keys : Predecessor(k) \in Keys \cup {Null}
  BY PredecessorType DEF Active
<1>2. \A k \in keys : expectedRefundedAmount(k) \in 0..Amount
  BY TargetType
<1>3. \A k \in Keys : k \in keys \ Existing => Cardinality(Existing) + 1 \in 0..Cardinality(Keys)
  BY NewerThanAll
<1>4. QED
  BY <1>1, <1>2, <1>3 DEF Register, TypeOK

LEMMA QueuedType ==
  ASSUME TypeOK, NEW keys PROVE Queued(keys) \in [Keys -> OPERATION_STATUSES]
BY DEF TypeOK, Queued, OPERATION_STATUSES

LEMMA EnqueueTypes ==
  ASSUME TypeOK, NEW keys, Queueable(keys), enqueuePaymentOperation(keys)
  PROVE  QueueTypes'
<1>1. opStatus' \in [Keys -> OPERATION_STATUSES]
  BY QueuedType DEF enqueuePaymentOperation
<1>2. Register(keys) /\ UNCHANGED <<opTries, opOwner, leased>>
  BY DEF enqueuePaymentOperation
<1>3. QED
  BY <1>1, <1>2, RegisterTypes DEF TypeOK, QueueTypes

Decisions == {"APPROVED", "REFUNDED", "PARTIALLY_REFUNDED", "PENDING", "REJECTED",
              "CANCELLED", "EXPIRED", "REVIEW_REQUIRED"}

LEMMA DecisionType ==
  ASSUME NEW s \in Snapshot PROVE validateSnapshot(s) \in Decisions
BY DEF validateSnapshot, Decisions, Accredited, Snapshot, PROVIDER_STATES

LEMMA ApplyTypes ==
  ASSUME TypeOK, NEW s \in Snapshot, NEW release \in BOOLEAN,
         applyProviderSnapshot(s, release)
  PROVE  RowTypes'
<1>1. MaxTries \in Nat
  BY PaymentAssumption
<1>2. validateSnapshot(s) \in Decisions /\ s.refunded \in 0..Amount
  BY DecisionType DEF Snapshot
<1>3. CASE Reviewed(s)
  BY <1>3 DEF Reviewed, TypeOK, RowTypes
<1>4. CASE Ignored(s)
  BY <1>4 DEF Ignored, TypeOK, RowTypes
<1>5. CASE Persisted(s, release)
  <2>1. StatusAfter(s) \in PAYMENT_STATUSES
    BY <1>2, <1>5
    DEF Persisted, StatusAfter, Decisions, Paid, PAYMENT_STATUSES, TypeOK
  <2>2. OrderAfter(s, release) \in ORDER
    BY <1>2 DEF OrderAfter, ORDER, TypeOK
  <2>3. QED
    BY <1>1, <1>2, <1>5, <2>1, <2>2 DEF Persisted, RowTypes
<1>6. QED
  BY <1>3, <1>4, <1>5 DEF applyProviderSnapshot

LEMMA DispositionKeys ==
  ASSUME NEW status, NEW provided
  PROVE  Disposition(status, provided) \in {{}, {"cancel"}, {"refund"}}
BY DEF Disposition

LEMMA OwedKeys ==
  ASSUME NEW s, NEW k
  PROVE  /\ OwedAfter(s) \in {{}, {"cancel"}, {"refund"}}
         /\ OwedBySettling(k, s) \in {{}, {"cancel"}, {"refund"}}
<1>1. OwedAfter(s) \in {{}, {"cancel"}, {"refund"}}
  BY DispositionKeys DEF OwedAfter
<1>2. QED
  BY <1>1, DispositionKeys DEF OwedBySettling

LEMMA OwedIsQueueable ==
  ASSUME NEW keys \in {{}, {"cancel"}, {"refund"}} PROVE Queueable(keys)
BY AmendmentIsNeither DEF Queueable, Keys

-------------------------------------------------------------------------------
Typed == TypeOK /\ WorkersServe /\ ProviderHasIt

LEMMA CreatedType == provider \in PROVIDER_STATES => Created \subseteq PROVIDER_STATES \ {"none"}
BY DEF Created, PROVIDER_STATES

LEMMA TriedType == \A n \in 0..MaxTries : Tried(n) \in 0..MaxTries
BY PaymentAssumption DEF Tried

LEMMA RecoveryTriesType == TypeOK => RecoveryTries \subseteq 0..MaxTries
BY TriedType DEF RecoveryTries, TypeOK

LEMMA NowType == TypeOK /\ provider # "none" => Now \in Snapshot
BY DEF Now, Snapshot, TypeOK

LEMMA ReadByType ==
  ASSUME TypeOK, provider # "none", NEW via \in {"create", "webhook", "refresh"},
         NEW tries \in 0..MaxTries
  PROVE  ReadBy(via, tries) \in Read
BY NowType DEF ReadBy, Read

LEMMA ZeroTries == 0 \in 0..MaxTries
BY PaymentAssumption

LEMMA RetryTypes ==
  ASSUME TypeOK, NEW tries \in 0..MaxTries, CreateRetry(tries) \/ CreateReview(tries)
  PROVE  RowTypes'
BY DEF CreateRetry, CreateReview, RowTypes, TypeOK

LEMMA CheckoutTypes == ASSUME Typed, CheckoutStep PROVE TypeOK'
<1> USE DEF Typed, TypeOK
<1> SUFFICES ASSUME TRUE PROVE RowTypes' /\ QueueTypes' /\ OutsideTypes'
  BY DEF RowTypes, QueueTypes, OutsideTypes
<1>1. CASE CreateAnswered
  <2>1. provider' \in PROVIDER_STATES \ {"none"}
    BY <1>1, CreatedType DEF CreateAnswered
  <2>2. [via |-> "create", tries |-> 0,
         snap |-> [state |-> provider', refunded |-> prefunded]] \in Read
    BY <2>1, ZeroTries DEF Read, Snapshot
  <2>3. QED
    BY <1>1, <2>1, <2>2 DEF CreateAnswered, RowTypes, QueueTypes, OutsideTypes
<1>2. CASE CreateUnanswered
  BY <1>2 DEF CreateUnanswered, RowTypes, QueueTypes, OutsideTypes
<1>3. CASE CreateLands
  BY <1>3, CreatedType DEF CreateLands, RowTypes, QueueTypes, OutsideTypes
<1>4. CASE CreateNeverLands
  BY <1>4 DEF CreateNeverLands, RowTypes, QueueTypes, OutsideTypes
<1>5. CASE RecoverFound
  BY <1>5, ReadByType, ZeroTries, RecoveryTriesType
  DEF RecoverFound, RowTypes, QueueTypes, OutsideTypes
<1>6. CASE RecoverLater
  <2>1. RowTypes'
    BY <1>6, RetryTypes, RecoveryTriesType DEF RecoverLater
  <2>2. QED
    BY <1>6, <2>1 DEF RecoverLater, QueueTypes, OutsideTypes
<1>7. CASE RecoverReview
  <2>1. RowTypes'
    BY <1>7, RetryTypes, RecoveryTriesType DEF RecoverReview
  <2>2. QED
    BY <1>7, <2>1 DEF RecoverReview, QueueTypes, OutsideTypes
<1>8. CASE RecoverExpired
  BY <1>8, RecoveryTriesType
  DEF RecoverExpired, ExpireUncreated, RowTypes, QueueTypes, OutsideTypes, ORDER,
      PAYMENT_STATUSES
<1>9. CASE RecoverCreated
  <2>1. provider' \in PROVIDER_STATES \ {"none"}
    BY <1>9, CreatedType DEF RecoverCreated, CreatePix
  <2>2. [state |-> provider', refunded |-> prefunded] \in Snapshot
    BY <2>1 DEF Snapshot
  <2>3. RowTypes'
    BY <1>9, <2>2, ApplyTypes DEF RecoverCreated
  <2>4. QED
    BY <1>9, <2>1, <2>3 DEF RecoverCreated, CreatePix, QueueTypes, OutsideTypes
<1>10. CASE RecoverCreateUncertain
  <2>1. provider' \in PROVIDER_STATES
    BY <1>10, CreatedType DEF RecoverCreateUncertain, CreatePix
  <2>2. RowTypes'
    BY <1>10, RetryTypes, RecoveryTriesType DEF RecoverCreateUncertain
  <2>3. QED
    BY <1>10, <2>1, <2>2 DEF RecoverCreateUncertain, CreatePix, QueueTypes, OutsideTypes
<1>11. QED
  BY <1>1, <1>2, <1>3, <1>4, <1>5, <1>6, <1>7, <1>8, <1>9, <1>10 DEF CheckoutStep

LEMMA ReadTypes == ASSUME Typed, ReadStep PROVE TypeOK'
<1> USE DEF Typed, TypeOK
<1> SUFFICES ASSUME TRUE PROVE RowTypes' /\ QueueTypes' /\ OutsideTypes'
  BY DEF RowTypes, QueueTypes, OutsideTypes
<1>1. CASE WebhookReads
  BY <1>1, ReadByType, ZeroTries DEF WebhookReads, RowTypes, QueueTypes, OutsideTypes
<1>2. CASE RefreshReads
  BY <1>2, ReadByType, TriedType
  DEF RefreshReads, ProviderHasIt, RowTypes, QueueTypes, OutsideTypes
<1>3. ASSUME NEW r \in reads, ApplyRead(r) PROVE RowTypes' /\ QueueTypes' /\ OutsideTypes'
  <2>1. r.snap \in Snapshot
    BY DEF Read
  <2>2. RowTypes'
    BY <1>3, <2>1, ApplyTypes DEF ApplyRead
  <2>3. QueueTypes'
    BY <1>3, OwedKeys, OwedIsQueueable, EnqueueTypes DEF ApplyRead
  <2>4. QED
    BY <1>3, <2>2, <2>3 DEF ApplyRead, OutsideTypes
<1>4. ASSUME NEW r \in reads, DropRead(r) PROVE RowTypes' /\ QueueTypes' /\ OutsideTypes'
  BY <1>4 DEF DropRead, RowTypes, QueueTypes, OutsideTypes
<1>5. ASSUME NEW r \in reads, RefreshFails(r) PROVE RowTypes' /\ QueueTypes' /\ OutsideTypes'
  BY <1>5 DEF RefreshFails, RowTypes, QueueTypes, OutsideTypes
<1>6. QED
  BY <1>1, <1>2, <1>3, <1>4, <1>5 DEF ReadStep

LEMMA DecideTypes ==
  ASSUME TypeOK, NEW status \in ORDER, NEW keys, Queueable(keys), Decide(status, keys)
  PROVE  TypeOK'
<1>1. QueueTypes'
  BY EnqueueTypes DEF Decide
<1>2. RowTypes' /\ OutsideTypes'
  BY DEF Decide, TypeOK, RowTypes, OutsideTypes
<1>3. QED
  BY <1>1, <1>2 DEF TypeOK, RowTypes, QueueTypes, OutsideTypes

LEMMA OrderTypes == ASSUME Typed, OrderStep PROVE TypeOK'
<1>1. Owed \in {{}, {"cancel"}, {"refund"}}
  BY DispositionKeys DEF Owed
<1>2. Queueable(Owed) /\ Queueable({})
  BY <1>1, OwedIsQueueable
<1>3. CASE cancelCustomerOrder
  BY <1>2, <1>3, DecideTypes DEF cancelCustomerOrder, ORDER, Typed
<1>4. CASE expireAwaitingPayment
  BY <1>2, <1>4, DecideTypes DEF expireAwaitingPayment, ORDER, Typed
<1>5. CASE StoreCancels
  BY <1>2, <1>5, DecideTypes DEF StoreCancels, ORDER, Typed
<1>6. CASE failDelivery
  BY <1>2, <1>6, DecideTypes DEF failDelivery, ORDER, Typed
<1>7. CASE StoreAccepts
  BY <1>2, <1>7, DecideTypes DEF StoreAccepts, ORDER, Typed
<1>8. CASE completeDelivery
  BY <1>2, <1>8, DecideTypes DEF completeDelivery, ORDER, Typed
<1>9. ASSUME NEW a \in Amendments, approveAmendment(a) PROVE TypeOK'
  <2>1. Queueable({a})
    BY <1>9 DEF approveAmendment, Queueable, Keys
  <2>2. QED
    BY <1>9, <2>1, DecideTypes DEF approveAmendment, ORDER, Typed
<1>10. QED
  BY <1>3, <1>4, <1>5, <1>6, <1>7, <1>8, <1>9 DEF OrderStep

(* A worker that is not idle has a key of its own and a count of attempts.     *)
LEMMA Serves ==
  ASSUME Typed, NEW w \in Workers, worker[w].pc # "idle"
  PROVE  /\ worker[w].key \in Keys
         /\ worker[w].tries \in 0..MaxTries
         /\ opTries[worker[w].key] \in 0..MaxTries
BY DEF Typed, TypeOK, Working, WorkersServe, Existing

LEMMA WriteStatusTypes ==
  ASSUME TypeOK, NEW k \in Keys, NEW status \in OPERATION_STATUSES, WriteStatus(k, status)
  PROVE  QueueTypes'
BY DEF TypeOK, WriteStatus, QueueTypes

LEMMA RestTypes ==
  ASSUME TypeOK, NEW w \in Workers, Rest(w) PROVE worker' \in [Workers -> Working]
<1>1. Idle \in Working
  BY ZeroTries DEF Idle, Working
<1>2. QED
  BY <1>1 DEF Rest, TypeOK

LEMMA ReviewTypes ==
  ASSUME Typed, NEW w \in Workers, worker[w].pc # "idle", ReviewOperation(w)
  PROVE  TypeOK'
<1>1. QueueTypes'
  BY Serves, WriteStatusTypes DEF Typed, ReviewOperation, OPERATION_STATUSES
<1>2. worker' \in [Workers -> Working]
  BY RestTypes DEF Typed, ReviewOperation
<1>3. QED
  BY <1>1, <1>2 DEF Typed, TypeOK, ReviewOperation, QueueTypes

LEMMA RetryOperationTypes ==
  ASSUME Typed, NEW w \in Workers, worker[w].pc # "idle", NEW tries, RetryOperation(w, tries)
  PROVE  TypeOK'
<1>1. QueueTypes'
  <2>1. AfterRetry(tries) \in OPERATION_STATUSES
    BY DEF AfterRetry, OPERATION_STATUSES
  <2>2. QED
    BY <2>1, Serves, WriteStatusTypes DEF Typed, RetryOperation
<1>2. worker' \in [Workers -> Working]
  BY RestTypes DEF Typed, RetryOperation
<1>3. QED
  BY <1>1, <1>2 DEF Typed, TypeOK, RetryOperation, QueueTypes

LEMMA SettledType ==
  ASSUME NEW s \in Snapshot, NEW k \in Keys, NEW tries
  PROVE  Settled(evaluateOperation(k, s), tries) \in OPERATION_STATUSES \ {"NONE"}
<1>1. evaluateOperation(k, s) \in {"SUCCEEDED", "RETRY", "ESCALATE", "REVIEW_REQUIRED"}
  BY DecisionType
  DEF evaluateOperation, AfterCancel, AfterRefund, AfterPartialRefund
<1>2. QED
  BY <1>1 DEF Settled, AfterRetry, OPERATION_STATUSES

LEMMA SettleTypes ==
  ASSUME Typed, NEW w \in Workers, SettleOperation(w) PROVE TypeOK'
<1> DEFINE k == worker[w].key
           s == worker[w].snap
           owed == OwedBySettling(k, s)
<1>1. worker[w].pc # "idle" /\ Held(w)
  BY DEF SettleOperation, Held
<1>2. k \in Keys /\ s \in Snapshot
  BY <1>1, Serves DEF Typed, WorkersServe
<1>3. Queueable(owed)
  BY OwedKeys, OwedIsQueueable
<1>4. RowTypes'
  <2>1. applyProviderSnapshot(s, k # "cancel")
    BY DEF SettleOperation
  <2>2. (k # "cancel") \in BOOLEAN
    OBVIOUS
  <2>3. QED
    BY <1>2, <2>1, <2>2, ApplyTypes DEF Typed
<1>5. QueueTypes'
  <2>1. Register(owed)
    BY DEF SettleOperation
  <2>2. opStatus' \in [Keys -> OPERATION_STATUSES]
    <3>1. Queued(owed) \in [Keys -> OPERATION_STATUSES]
      BY QueuedType DEF Typed
    <3>2. Settled(evaluateOperation(k, s), worker[w].tries) \in OPERATION_STATUSES
      BY <1>2, SettledType
    <3>3. opStatus' = [Queued(owed) EXCEPT ![k] = Settled(evaluateOperation(k, s), worker[w].tries)]
      BY DEF SettleOperation
    <3>4. QED
      BY <3>1, <3>2, <3>3
  <2>3. /\ opDep' \in [Keys -> Keys \cup {Null}]
        /\ opTarget' \in [Keys -> 0..Amount]
        /\ born' \in [Keys -> 0..Cardinality(Keys)]
    BY <2>1, <1>3, RegisterTypes DEF Typed
  <2>4. /\ opOwner' = [opOwner EXCEPT ![k] = Null]
        /\ leased' = [leased EXCEPT ![k] = FALSE]
        /\ opTries' = opTries
    BY DEF SettleOperation
  <2>5. QED
    BY <2>2, <2>3, <2>4 DEF QueueTypes, Typed, TypeOK
<1>6. OutsideTypes'
  BY RestTypes DEF SettleOperation, OutsideTypes, Typed, TypeOK
<1>7. QED
  BY <1>4, <1>5, <1>6 DEF TypeOK, RowTypes, QueueTypes, OutsideTypes

LEMMA WorkerTypes ==
  ASSUME Typed, NEW w \in Workers, WorkerStep(w) PROVE TypeOK'
<1> USE DEF Typed, TypeOK
<1>1. ASSUME NEW k \in Keys, ClaimOperation(w, k) PROVE TypeOK'
  <2>1. [Idle EXCEPT !.pc = "claimed", !.key = k] \in Working
    BY ZeroTries DEF Idle, Working
  <2>2. QED
    BY <1>1, <2>1, TriedType DEF ClaimOperation, OPERATION_STATUSES
<1>2. CASE LostClaim(w)
  BY <1>2, RestTypes DEF LostClaim
<1>3. CASE NotActionable(w)
  BY <1>3, ReviewTypes DEF NotActionable
<1>4. CASE BeginOperation(w)
  <2>1. known /\ worker[w].pc = "claimed" /\ Now \in Snapshot /\ worker[w].key \in Keys
    BY <1>4, NowType, Serves DEF BeginOperation, Actionable, ProviderHasIt
  <2>2. PICK pc \in {"settling", "calling"}, snap \in {Now, Null} :
          worker' = [worker EXCEPT ![w] = [pc |-> pc, key |-> worker[w].key,
                                           tries |-> opTries[worker[w].key], snap |-> snap]]
    BY <1>4 DEF BeginOperation
  <2>3. worker' \in [Workers -> Working]
    BY <2>1, <2>2, Serves DEF Working
  <2>4. QED
    BY <1>4, <2>3 DEF BeginOperation
<1>5. CASE CallProvider(w)
  <2>1. worker[w].key \in Keys
    BY <1>5, Serves DEF CallProvider
  <2>2. worker' \in [Workers -> Working]
    BY <1>5 DEF CallProvider, Working
  <2>3. /\ provider' \in PROVIDER_STATES
        /\ prefunded' \in 0..Amount
        /\ applied' \subseteq Keys
    <3>1. CASE UNCHANGED external
      BY <3>1
    <3>2. CASE ProviderCarriesOut(worker[w].key)
      BY <2>1, <3>2, PaymentAssumption DEF ProviderCarriesOut, PROVIDER_STATES, Keys
    <3>3. QED
      BY <1>5, <3>1, <3>2 DEF CallProvider
  <2>4. QED
    BY <1>5, <2>2, <2>3 DEF CallProvider
<1>6. CASE ReadBack(w)
  <2>1. known /\ Now \in Snapshot
    BY <1>6, NowType DEF ReadBack, WorkersServe, ProviderHasIt
  <2>2. [worker[w] EXCEPT !.pc = "settling", !.snap = Now] \in Working
    <3>1. worker[w] \in Working
      OBVIOUS
    <3> HIDE DEF Typed, TypeOK
    <3>2. QED
      BY <2>1, <3>1 DEF Working
  <2>3. worker' = [worker EXCEPT ![w] = [worker[w] EXCEPT !.pc = "settling", !.snap = Now]]
    BY <1>6 DEF ReadBack
  <2>4. worker' \in [Workers -> Working]
    BY <2>2, <2>3
  <2>5. QED
    BY <1>6, <2>4 DEF ReadBack
<1>7. CASE FailForGood(w)
  BY <1>7, ReviewTypes DEF FailForGood, Reading
<1>8. CASE FailForNow(w)
  BY <1>8, RetryOperationTypes DEF FailForNow, Reading
<1>9. CASE LookAgain(w)
  <2>1. worker[w].pc \in {"reading", "claimed"} /\ known
    BY <1>9 DEF LookAgain, Reading, WorkersServe
  <2>2. Now \in Snapshot /\ TriesOf(w) \in 0..MaxTries
    BY <2>1, NowType, Serves DEF TriesOf, ProviderHasIt
  <2>3. worker' \in [Workers -> Working]
    BY <1>9, <2>1, <2>2, Serves DEF LookAgain, Working
  <2>4. QED
    BY <1>9, <2>3 DEF LookAgain
<1>10. CASE SettleOperation(w)
  BY <1>10, SettleTypes
<1>11. CASE SettleFails(w)
  BY <1>11, RestTypes DEF SettleFails
<1>12. CASE RecoveringFails(w)
  BY <1>12, RetryOperationTypes DEF RecoveringFails
<1>13. CASE WorkerCrashes(w)
  BY <1>13, RestTypes DEF WorkerCrashes
<1>14. QED
  BY <1>1, <1>2, <1>3, <1>4, <1>5, <1>6, <1>7, <1>8, <1>9, <1>10, <1>11, <1>12, <1>13
  DEF WorkerStep

LEMMA QueueStepTypes == ASSUME Typed, QueueStep PROVE TypeOK'
<1> USE DEF Typed, TypeOK
<1>1. ASSUME NEW w \in Workers, WorkerStep(w) PROVE TypeOK'
  BY <1>1, WorkerTypes
<1>2. ASSUME NEW k \in Keys, LeaseExpires(k) PROVE TypeOK'
  BY <1>2 DEF LeaseExpires
<1>3. CASE recoverLeases
  BY <1>3 DEF recoverLeases, OPERATION_STATUSES
<1>4. CASE propagateReviewedDependencies
  BY <1>4 DEF propagateReviewedDependencies, OPERATION_STATUSES
<1>5. QED
  BY <1>1, <1>2, <1>3, <1>4 DEF QueueStep

LEMMA ProviderTypes == ASSUME Typed, ProviderStep PROVE TypeOK'
<1> USE DEF Typed, TypeOK
<1>1. CASE CustomerPays
  BY <1>1 DEF CustomerPays, ProviderMoves, PROVIDER_STATES
<1>2. CASE ProviderDecides
  BY <1>2 DEF ProviderDecides, ProviderMoves, PROVIDER_STATES
<1>3. CASE RefundByHand
  BY <1>3, PaymentAssumption DEF RefundByHand
<1>4. QED
  BY <1>1, <1>2, <1>3 DEF ProviderStep

LEMMA TypeStep == ASSUME Typed, [Next]_vars PROVE TypeOK'
<1>1. CASE UNCHANGED vars
  BY <1>1 DEF vars, Typed, TypeOK
<1>2. QED
  BY <1>1, CheckoutTypes, ReadTypes, OrderTypes, QueueStepTypes, ProviderTypes DEF Next

-------------------------------------------------------------------------------
(* The strengthening.  A snapshot that says approved, on its way or in the     *)
(* hands of a worker, comes from a provider that has charged; so does a row    *)
(* that says so.                                                               *)
SnapshotsAreTrue ==
  /\ \A r \in reads : r.snap.state = "approved" => provider \in ChargedStates
  /\ \A w \in Workers :
       Held(w) /\ worker[w].snap.state = "approved" => provider \in ChargedStates

RowIsTrue ==
  pstatus \in {"APPROVED", "REFUNDED"} => known /\ provider \in ChargedStates

(* Only the payment of a cancelled order is cancelled, and only a paid order   *)
(* is ever taken to a door in vain.                                            *)
CancelledFirst == opStatus["cancel"] # "NONE" => order = "CANCELLED"
FailedWasPaid == order = "DELIVERY_FAILED" => pstatus \in {"APPROVED", "REFUNDED"}

OrderParts == OrderFollowsPayment /\ FailedWasPaid
QueueParts == CancelledFirst /\ EndedMoneyIsQueued

IInv ==
  /\ Typed
  /\ SnapshotsAreTrue
  /\ RowIsTrue
  /\ OrderParts
  /\ QueueParts

-------------------------------------------------------------------------------
(* Steps that change neither the status of the order, nor of the payment, nor  *)
(* which operations there are.                                                 *)
SameMoney ==
  /\ UNCHANGED <<order, pstatus, known>>
  /\ \A k \in Keys : opStatus'[k] = "NONE" <=> opStatus[k] = "NONE"

LEMMA KeepsWrittenStatus ==
  ASSUME TypeOK, NEW k \in Keys, opStatus[k] # "NONE", NEW status, status # "NONE",
         WriteStatus(k, status)
  PROVE  \A j \in Keys : opStatus'[j] = "NONE" <=> opStatus[j] = "NONE"
BY DEF TypeOK, WriteStatus

(* Workers other than those that settle.                                       *)
LEMMA WorkerSame ==
  ASSUME Typed, NEW w \in Workers, WorkerStep(w), ~SettleOperation(w) PROVE SameMoney
<1> USE DEF Typed, TypeOK, SameMoney
<1>1. ASSUME NEW k \in Keys, ClaimOperation(w, k) PROVE SameMoney
  BY <1>1 DEF ClaimOperation
<1>2. CASE LostClaim(w) \/ BeginOperation(w) \/ CallProvider(w) \/ ReadBack(w) \/ LookAgain(w)
             \/ SettleFails(w) \/ WorkerCrashes(w)
  BY <1>2 DEF LostClaim, BeginOperation, CallProvider, ReadBack, LookAgain, SettleFails,
              WorkerCrashes
<1>3. ASSUME worker[w].pc # "idle", ReviewOperation(w) PROVE SameMoney
  <2>1. worker[w].key \in Keys /\ opStatus[worker[w].key] # "NONE"
    BY <1>3 DEF WorkersServe, Existing
  <2>2. QED
    BY <1>3, <2>1, KeepsWrittenStatus DEF ReviewOperation
<1>4. ASSUME worker[w].pc # "idle", NEW tries, RetryOperation(w, tries) PROVE SameMoney
  <2>1. worker[w].key \in Keys /\ opStatus[worker[w].key] # "NONE"
    BY <1>4 DEF WorkersServe, Existing
  <2>2. AfterRetry(tries) # "NONE"
    BY DEF AfterRetry
  <2>3. QED
    BY <1>4, <2>1, <2>2, KeepsWrittenStatus DEF RetryOperation
<1>5. CASE NotActionable(w) \/ FailForGood(w)
  BY <1>3, <1>5 DEF NotActionable, FailForGood, Reading
<1>6. CASE FailForNow(w) \/ RecoveringFails(w)
  BY <1>4, <1>6 DEF FailForNow, Reading, RecoveringFails
<1>7. QED
  BY <1>1, <1>2, <1>5, <1>6 DEF WorkerStep

LEMMA QueueSame ==
  ASSUME Typed, QueueStep, \A w \in Workers : ~SettleOperation(w) PROVE SameMoney
<1> USE DEF Typed, TypeOK, SameMoney
<1>1. ASSUME NEW w \in Workers, WorkerStep(w) PROVE SameMoney
  BY <1>1, WorkerSame
<1>2. ASSUME NEW k \in Keys, LeaseExpires(k) PROVE SameMoney
  BY <1>2 DEF LeaseExpires
<1>3. CASE recoverLeases
  BY <1>3 DEF recoverLeases
<1>4. CASE propagateReviewedDependencies
  BY <1>4 DEF propagateReviewedDependencies, Active
<1>5. QED
  BY <1>1, <1>2, <1>3, <1>4 DEF QueueStep

(* What the provider has, it keeps: a payment known to it, and a charge.       *)
LEMMA ProviderKeeps ==
  ASSUME TypeOK, [Next]_vars
  PROVE  /\ provider \in ChargedStates => provider' \in ChargedStates
         /\ provider # "none" => provider' # "none"
<1> USE DEF ChargedStates
<1>1. CASE CheckoutStep
  <2>1. \A p \in Created : /\ provider # "none" => p = provider
                           /\ p # "none"
    BY DEF Created
  <2>2. QED
    BY <1>1, <2>1
    DEF CheckoutStep, CreateAnswered, CreateUnanswered, CreateLands, CreateNeverLands,
        RecoverFound, RecoverLater, RecoverReview, RecoverExpired, RecoverCreated,
        RecoverCreateUncertain, CreatePix
<1>2. CASE ReadStep
  BY <1>2 DEF ReadStep, WebhookReads, RefreshReads, ApplyRead, DropRead, RefreshFails
<1>3. CASE OrderStep
  BY <1>3 DEF OrderStep, cancelCustomerOrder, expireAwaitingPayment, StoreCancels, failDelivery,
              StoreAccepts, completeDelivery, approveAmendment, Decide
<1>4. CASE QueueStep
  <2>1. ASSUME NEW w \in Workers, CallProvider(w)
        PROVE  provider' = provider \/ (provider = "actionable" /\ provider' = "cancelled")
    <3>1. CASE ProviderCarriesOut(worker[w].key)
      BY <3>1 DEF ProviderCarriesOut
    <3>2. CASE UNCHANGED external
      BY <3>2
    <3>3. QED
      BY <2>1, <3>1, <3>2 DEF CallProvider
  <2>2. ASSUME NEW w \in Workers, WorkerStep(w), ~CallProvider(w) PROVE UNCHANGED provider
    BY <2>2
    DEF WorkerStep, ClaimOperation, LostClaim, NotActionable, BeginOperation, ReadBack,
        FailForGood, FailForNow, LookAgain, SettleOperation, SettleFails, RecoveringFails,
        WorkerCrashes, ReviewOperation, RetryOperation
  <2>3. QED
    BY <1>4, <2>1, <2>2
    DEF QueueStep, LeaseExpires, recoverLeases, propagateReviewedDependencies
<1>5. CASE ProviderStep
  BY <1>5 DEF ProviderStep, CustomerPays, ProviderDecides, ProviderMoves, RefundByHand
<1>6. CASE UNCHANGED vars
  BY <1>6 DEF vars
<1>7. QED
  BY <1>1, <1>2, <1>3, <1>4, <1>5, <1>6 DEF Next

-------------------------------------------------------------------------------
(* What may not be undone, by any step.                                        *)
NothingUndone ==
  /\ order \in {"CANCELLED", "DELIVERY_FAILED"} => order' = order
  /\ pstatus = "REFUNDED" => pstatus' = "REFUNDED"
  /\ pstatus = "APPROVED" => pstatus' \in {"APPROVED", "REFUNDED"}
  /\ known => known'

Fresh(s) == validateSnapshot(s) # "REVIEW_REQUIRED" /\ ~IsStale(s)

(* What a snapshot makes of the row and of the order.                          *)
LEMMA ApplyEffects ==
  ASSUME TypeOK, OrderParts, NEW s \in Snapshot, NEW release \in BOOLEAN,
         applyProviderSnapshot(s, release), ~release => order = "CANCELLED"
  PROVE  /\ OrderParts'
         /\ NothingUndone
         /\ pstatus' \in {"APPROVED", "REFUNDED"} =>
              pstatus' = pstatus \/ (s.state = "approved" /\ known')
         /\ order' = "CANCELLED" =>
              order = "CANCELLED" \/ pstatus' \notin {"APPROVED", "PENDING"}
         /\ pstatus' = "PENDING" => pstatus = "PENDING"
         /\ order' = "DELIVERY_FAILED" => order = "DELIVERY_FAILED"
<1>1. CASE Reviewed(s) \/ Ignored(s)
  <2>1. order' = order /\ pstatus' = pstatus /\ known' = known
    BY <1>1 DEF Reviewed, Ignored
  <2>2. OrderParts'
    BY <2>1 DEF OrderParts, OrderFollowsPayment, FailedWasPaid
  <2>3. NothingUndone
    BY <2>1 DEF NothingUndone
  <2>4. QED
    BY <2>1, <2>2, <2>3
<1>2. CASE Persisted(s, release)
  <2>1. validateSnapshot(s) \in Decisions
    BY DecisionType
  <2>2. validateSnapshot(s) \in Paid => s.state = "approved"
    BY DEF validateSnapshot, Paid, Accredited
  <2>3. validateSnapshot(s) # "REVIEW_REQUIRED" /\ ~IsStale(s) /\ known' = TRUE
    BY <1>2 DEF Persisted
  <2>4. pstatus' = StatusAfter(s) /\ order' = OrderAfter(s, release)
    BY <1>2 DEF Persisted
  <2>5. CASE validateSnapshot(s) = "PENDING"
    <3>1. pstatus' = pstatus /\ order' = order
      BY <2>4, <2>5 DEF StatusAfter, OrderAfter, Paid, NotCharged
    <3>2. QED
      BY <2>3, <3>1, <2>5
      DEF OrderParts, OrderFollowsPayment, FailedWasPaid, NothingUndone, Released
  <2>6. CASE validateSnapshot(s) \in Paid
    <3>1. pstatus' \in {"APPROVED", "REFUNDED"} /\ pstatus # "REFUNDED"
      BY <2>3, <2>4, <2>6 DEF StatusAfter, Paid, IsStale
    <3>2. order # "AWAITING_PAYMENT" => order' = order
      BY <2>4 DEF OrderAfter
    <3>3. ASSUME order = "AWAITING_PAYMENT" PROVE order' = "PENDING"
      <4>1. release /\ pstatus # "APPROVED"
        BY <3>3 DEF OrderParts, OrderFollowsPayment
      <4>2. validateSnapshot(s) \notin NotCharged
        BY <2>6 DEF Paid, NotCharged
      <4>3. QED
        BY <2>4, <2>6, <3>3, <4>1, <4>2 DEF OrderAfter
    <3>4. QED
      BY <2>2, <2>3, <2>6, <3>1, <3>2, <3>3
      DEF OrderParts, OrderFollowsPayment, FailedWasPaid, NothingUndone, Released
  <2>7. CASE validateSnapshot(s) \in NotCharged
    <3>1. pstatus' = validateSnapshot(s) /\ pstatus \notin {"APPROVED", "REFUNDED"}
      BY <2>3, <2>4, <2>7 DEF StatusAfter, NotCharged, Paid, IsStale
    <3>2. order # "AWAITING_PAYMENT" => order' = order
      BY <2>4 DEF OrderAfter
    <3>3. order = "AWAITING_PAYMENT" => order' = "CANCELLED"
      BY <2>4, <2>7 DEF OrderAfter, OrderParts, OrderFollowsPayment, NotCharged, Paid
    <3>4. QED
      BY <2>3, <2>7, <3>1, <3>2, <3>3
      DEF OrderParts, OrderFollowsPayment, FailedWasPaid, NothingUndone, Released, NotCharged
  <2>8. QED
    BY <2>1, <2>3, <2>5, <2>6, <2>7 DEF Decisions, Paid, NotCharged
<1>3. QED
  BY <1>1, <1>2 DEF applyProviderSnapshot

(* What it makes a cancelled order owe covers what the row then says.          *)
LEMMA OwedCovers ==
  ASSUME TypeOK, NEW s \in Snapshot, NEW release \in BOOLEAN,
         applyProviderSnapshot(s, release), order = "CANCELLED"
  PROVE  /\ pstatus' = "APPROVED" => pstatus = "APPROVED" \/ OwedAfter(s) = {"refund"}
         /\ pstatus' = "PENDING" /\ known' => known \/ OwedAfter(s) = {"cancel"}
<1>1. CASE Reviewed(s) \/ Ignored(s)
  BY <1>1 DEF Reviewed, Ignored
<1>2. CASE Persisted(s, release)
  BY <1>2
  DEF Persisted, StatusAfter, OwedAfter, Disposition, Paid, NotCharged, IsStale
<1>3. QED
  BY <1>1, <1>2 DEF applyProviderSnapshot

LEMMA OwedOnlyCancelled ==
  ASSUME NEW s PROVE "cancel" \in OwedAfter(s) => order = "CANCELLED"
BY DEF OwedAfter

-------------------------------------------------------------------------------
(* What each step must keep, besides types and snapshots.                      *)
MoneyHolds == OrderParts' /\ QueueParts' /\ RowIsTrue' /\ NothingUndone

LEMMA SpecialKeys == "cancel" \in Keys /\ "refund" \in Keys
BY DEF Keys

LEMMA RowStaysTrue ==
  ASSUME IInv, [Next]_vars, NothingUndone,
         pstatus' \in {"APPROVED", "REFUNDED"} =>
           pstatus' = pstatus \/ (known' /\ provider' \in ChargedStates)
  PROVE  RowIsTrue'
BY ProviderKeeps DEF IInv, Typed, RowIsTrue, NothingUndone

LEMMA SameKeepsMoney == ASSUME IInv, [Next]_vars, SameMoney PROVE MoneyHolds
<1>1. order' = order /\ pstatus' = pstatus /\ known' = known
  BY DEF SameMoney
<1>2. /\ opStatus'["cancel"] = "NONE" <=> opStatus["cancel"] = "NONE"
      /\ opStatus'["refund"] = "NONE" <=> opStatus["refund"] = "NONE"
  BY SpecialKeys DEF SameMoney
<1>3. NothingUndone
  BY <1>1 DEF NothingUndone
<1>4. OrderParts' /\ QueueParts'
  BY <1>1, <1>2
  DEF IInv, OrderParts, OrderFollowsPayment, FailedWasPaid, QueueParts, CancelledFirst,
      EndedMoneyIsQueued
<1>5. QED
  BY <1>1, <1>3, <1>4, RowStaysTrue DEF MoneyHolds

(* Queued rows are rows, and no row is taken out again.                        *)
LEMMA QueuedRows ==
  ASSUME NEW keys, NEW k \in Keys
  PROVE  Queued(keys)[k] # "NONE" <=> opStatus[k] # "NONE" \/ k \in keys
BY DEF Queued

LEMMA ApplyReadKeepsMoney ==
  ASSUME IInv, [Next]_vars, NEW r \in reads, ApplyRead(r) PROVE MoneyHolds
<1> DEFINE s == r.snap
<1>1. TypeOK /\ OrderParts /\ QueueParts /\ s \in Snapshot
  BY DEF IInv, Typed, TypeOK, Read
<1>2. applyProviderSnapshot(s, TRUE) /\ opStatus' = Queued(OwedAfter(s))
  BY DEF ApplyRead, enqueuePaymentOperation
<1>3. /\ OrderParts'
      /\ NothingUndone
      /\ pstatus' \in {"APPROVED", "REFUNDED"} =>
           pstatus' = pstatus \/ (s.state = "approved" /\ known')
      /\ order' = "CANCELLED" =>
           order = "CANCELLED" \/ pstatus' \notin {"APPROVED", "PENDING"}
      /\ pstatus' = "PENDING" => pstatus = "PENDING"
      /\ order' = "DELIVERY_FAILED" => order = "DELIVERY_FAILED"
  BY <1>1, <1>2, ApplyEffects
<1>4. /\ opStatus'["cancel"] # "NONE" <=> opStatus["cancel"] # "NONE" \/ "cancel" \in OwedAfter(s)
      /\ opStatus'["refund"] # "NONE" <=> opStatus["refund"] # "NONE" \/ "refund" \in OwedAfter(s)
  BY <1>2, QueuedRows, SpecialKeys
<1>5. CancelledFirst'
  BY <1>1, <1>3, <1>4, OwedOnlyCancelled DEF QueueParts, CancelledFirst, NothingUndone
<1>6. EndedMoneyIsQueued'
  <2>1. CASE order' = "CANCELLED"
    <3>1. order = "CANCELLED" =>
            /\ pstatus' = "APPROVED" => pstatus = "APPROVED" \/ OwedAfter(s) = {"refund"}
            /\ pstatus' = "PENDING" /\ known' => known \/ OwedAfter(s) = {"cancel"}
      BY <1>1, <1>2, OwedCovers
    <3>2. QED
      BY <2>1, <3>1, <1>1, <1>3, <1>4 DEF QueueParts, EndedMoneyIsQueued
  <2>2. CASE order' = "DELIVERY_FAILED"
    <3>1. pstatus' = "APPROVED" => pstatus = "APPROVED"
      BY <1>1, <1>3, <2>2 DEF OrderParts, FailedWasPaid, NothingUndone
    <3>2. QED
      BY <2>2, <3>1, <1>1, <1>3, <1>4 DEF QueueParts, EndedMoneyIsQueued
  <2>3. QED
    BY <2>1, <2>2 DEF EndedMoneyIsQueued
<1>7. s.state = "approved" => provider' \in ChargedStates
  BY <1>1, ProviderKeeps DEF IInv, SnapshotsAreTrue
<1>8. QED
  BY <1>3, <1>5, <1>6, <1>7, RowStaysTrue DEF MoneyHolds, QueueParts

(* The cancellation that comes too late owes the refund.                       *)
LEMMA TooLateOwesRefund ==
  ASSUME TypeOK, NEW s \in Snapshot, applyProviderSnapshot(s, FALSE), pstatus # "APPROVED",
         pstatus' = "APPROVED"
  PROVE  OwedBySettling("cancel", s) = {"refund"}
<1>1. Persisted(s, FALSE)
  BY DEF applyProviderSnapshot, Reviewed, Ignored
<1>2. StatusAfter(s) = "APPROVED" /\ ~IsStale(s)
  BY <1>1 DEF Persisted
<1>3. validateSnapshot(s) \in {"APPROVED", "PARTIALLY_REFUNDED"}
  BY <1>2, DecisionType DEF StatusAfter, Paid, Decisions
<1>4. evaluateOperation("cancel", s) = "ESCALATE"
  BY <1>3 DEF evaluateOperation, AfterCancel, NotCharged
<1>5. QED
  BY <1>2, <1>4 DEF OwedBySettling, Disposition

LEMMA SettleKeepsMoney ==
  ASSUME IInv, [Next]_vars, NEW w \in Workers, SettleOperation(w) PROVE MoneyHolds
<1> DEFINE k == worker[w].key
           s == worker[w].snap
           owed == OwedBySettling(k, s)
           status == Settled(evaluateOperation(k, s), worker[w].tries)
<1>1. worker[w].pc # "idle" /\ Held(w)
  BY DEF SettleOperation, Held
<1>2. TypeOK /\ OrderParts /\ QueueParts
  BY DEF IInv, Typed
<1>3. k \in Keys /\ opStatus[k] # "NONE" /\ s \in Snapshot
  BY <1>1, Serves DEF IInv, Typed, WorkersServe, Existing
<1>4. k = "cancel" => order = "CANCELLED"
  BY <1>2, <1>3 DEF QueueParts, CancelledFirst
<1>5. applyProviderSnapshot(s, k # "cancel") /\ (k # "cancel") \in BOOLEAN
  BY DEF SettleOperation
<1>6. /\ OrderParts'
      /\ NothingUndone
      /\ pstatus' \in {"APPROVED", "REFUNDED"} =>
           pstatus' = pstatus \/ (s.state = "approved" /\ known')
      /\ order' = "CANCELLED" =>
           order = "CANCELLED" \/ pstatus' \notin {"APPROVED", "PENDING"}
      /\ pstatus' = "PENDING" => pstatus = "PENDING"
      /\ order' = "DELIVERY_FAILED" => order = "DELIVERY_FAILED"
  <2>1. ~(k # "cancel") => order = "CANCELLED"
    BY <1>4
  <2>2. QED
    BY <1>2, <1>3, <1>5, <2>1, ApplyEffects
<1>7. \A j \in Keys : opStatus'[j] # "NONE" <=> opStatus[j] # "NONE" \/ j \in owed
  <2>1. opStatus' = [Queued(owed) EXCEPT ![k] = status]
    BY DEF SettleOperation
  <2>2. status # "NONE"
    BY <1>3, SettledType
  <2>3. Queued(owed) \in [Keys -> OPERATION_STATUSES]
    BY <1>2, QueuedType
  <2>4. QED
    BY <1>3, <2>1, <2>2, <2>3, QueuedRows
<1>8. /\ opStatus'["cancel"] # "NONE" <=> opStatus["cancel"] # "NONE" \/ "cancel" \in owed
      /\ opStatus'["refund"] # "NONE" <=> opStatus["refund"] # "NONE" \/ "refund" \in owed
  BY <1>7, SpecialKeys
<1>9. CancelledFirst'
  <2>1. "cancel" \in owed => order = "CANCELLED"
    BY <1>4, OwedOnlyCancelled DEF OwedBySettling
  <2>2. QED
    BY <1>2, <1>6, <1>8, <2>1 DEF QueueParts, CancelledFirst, NothingUndone
<1>10. EndedMoneyIsQueued'
  <2>1. CASE order' = "DELIVERY_FAILED"
    <3>1. pstatus' = "APPROVED" => pstatus = "APPROVED"
      BY <1>2, <1>6, <2>1 DEF OrderParts, FailedWasPaid, NothingUndone
    <3>2. QED
      BY <2>1, <3>1, <1>2, <1>6, <1>8 DEF QueueParts, EndedMoneyIsQueued
  <2>2. CASE order' = "CANCELLED" /\ k = "cancel"
    <3>1. pstatus' = "APPROVED" => pstatus = "APPROVED" \/ owed = {"refund"}
      <4>1. applyProviderSnapshot(s, FALSE)
        <5>1. (k # "cancel") = FALSE
          BY <2>2
        <5>2. QED
          BY <1>5, <5>1
      <4>2. QED
        BY <1>2, <1>3, <2>2, <4>1, TooLateOwesRefund
    <3>2. order = "CANCELLED" /\ opStatus'["cancel"] # "NONE"
      BY <1>3, <1>4, <1>8, <2>2
    <3>3. QED
      BY <2>2, <3>1, <3>2, <1>2, <1>8 DEF QueueParts, EndedMoneyIsQueued
  <2>3. CASE order' = "CANCELLED" /\ k # "cancel"
    <3>1. order = "CANCELLED" =>
            /\ pstatus' = "APPROVED" => pstatus = "APPROVED" \/ OwedAfter(s) = {"refund"}
            /\ pstatus' = "PENDING" /\ known' => known \/ OwedAfter(s) = {"cancel"}
      BY <1>2, <1>3, <1>5, OwedCovers
    <3>2. owed = OwedAfter(s)
      BY <2>3 DEF OwedBySettling
    <3>3. QED
      BY <2>3, <3>1, <3>2, <1>2, <1>6, <1>8 DEF QueueParts, EndedMoneyIsQueued
  <2>4. QED
    BY <2>1, <2>2, <2>3 DEF EndedMoneyIsQueued
<1>11. s.state = "approved" => provider' \in ChargedStates
  BY <1>1, <1>2, ProviderKeeps DEF IInv, SnapshotsAreTrue
<1>12. QED
  BY <1>6, <1>9, <1>10, <1>11, RowStaysTrue DEF MoneyHolds, QueueParts

LEMMA CheckoutKeepsMoney ==
  ASSUME IInv, [Next]_vars, CheckoutStep PROVE MoneyHolds
<1>1. TypeOK /\ OrderParts /\ QueueParts /\ RowIsTrue
  BY DEF IInv, Typed
<1>2. CASE CreateAnswered \/ CreateUnanswered \/ CreateLands \/ CreateNeverLands
             \/ RecoverFound \/ RecoverLater \/ RecoverReview \/ RecoverCreateUncertain
  <2>1. SameMoney
    BY <1>2
    DEF CreateAnswered, CreateUnanswered, CreateLands, CreateNeverLands, RecoverFound,
        RecoverLater, RecoverReview, RecoverCreateUncertain, CreateRetry, CreateReview, SameMoney
  <2>2. QED
    BY <2>1, SameKeepsMoney
<1>3. CASE RecoverExpired
  <2>1. /\ pstatus = "PENDING" /\ pstatus' = "EXPIRED"
        /\ order' = IF order = "AWAITING_PAYMENT" THEN "CANCELLED" ELSE order
        /\ known' = known
        /\ opStatus' = opStatus
    BY <1>3 DEF RecoverExpired, StillUncertain, ExpireUncreated
  <2>2. order \notin Released \cup {"DELIVERY_FAILED"}
    BY <1>1, <2>1 DEF OrderParts, OrderFollowsPayment, FailedWasPaid
  <2>3. OrderParts' /\ QueueParts' /\ NothingUndone
    BY <1>1, <2>1, <2>2
    DEF OrderParts, OrderFollowsPayment, FailedWasPaid, QueueParts, CancelledFirst,
        EndedMoneyIsQueued, NothingUndone, Released
  <2>4. QED
    BY <2>1, <2>3, RowStaysTrue DEF MoneyHolds
<1>4. CASE RecoverCreated
  <2> DEFINE s == [state |-> provider', refunded |-> prefunded]
  <2>1. applyProviderSnapshot(s, TRUE) /\ opStatus' = opStatus /\ order # "CANCELLED"
    BY <1>4 DEF RecoverCreated, CreatePix
  <2>2. s \in Snapshot
    <3>1. provider' \in PROVIDER_STATES \ {"none"}
      BY <1>1, <1>4, CreatedType DEF RecoverCreated, CreatePix, TypeOK
    <3>2. QED
      BY <1>1, <3>1 DEF Snapshot, TypeOK
  <2>3. /\ OrderParts'
        /\ NothingUndone
        /\ pstatus' \in {"APPROVED", "REFUNDED"} =>
             pstatus' = pstatus \/ (s.state = "approved" /\ known')
        /\ order' = "CANCELLED" =>
             order = "CANCELLED" \/ pstatus' \notin {"APPROVED", "PENDING"}
        /\ pstatus' = "PENDING" => pstatus = "PENDING"
        /\ order' = "DELIVERY_FAILED" => order = "DELIVERY_FAILED"
    BY <1>1, <2>1, <2>2, ApplyEffects
  <2>4. order # "DELIVERY_FAILED"
    BY <1>1, <1>4
    DEF RecoverCreated, CreatePix, StillUncertain, OrderParts, FailedWasPaid
  <2>5. QueueParts'
    BY <1>1, <2>1, <2>3, <2>4
    DEF QueueParts, CancelledFirst, EndedMoneyIsQueued, NothingUndone
  <2>6. s.state = "approved" => provider' \in ChargedStates
    BY DEF ChargedStates
  <2>7. QED
    BY <2>3, <2>5, <2>6, RowStaysTrue DEF MoneyHolds
<1>5. QED
  BY <1>2, <1>3, <1>4 DEF CheckoutStep

LEMMA ReadKeepsMoney ==
  ASSUME IInv, [Next]_vars, ReadStep PROVE MoneyHolds
<1>1. ASSUME NEW r \in reads, ApplyRead(r) PROVE MoneyHolds
  BY <1>1, ApplyReadKeepsMoney
<1>2. ASSUME NEW r \in reads, DropRead(r) \/ RefreshFails(r) PROVE SameMoney
  BY <1>2 DEF DropRead, RefreshFails, SameMoney
<1>3. CASE WebhookReads \/ RefreshReads
  <2>1. SameMoney
    BY <1>3 DEF WebhookReads, RefreshReads, SameMoney
  <2>2. QED
    BY <2>1, SameKeepsMoney
<1>4. QED
  BY <1>1, <1>2, <1>3, SameKeepsMoney DEF ReadStep

(* A decision on the order queues what it names.                               *)
LEMMA DecideRows ==
  ASSUME NEW status, NEW keys, Decide(status, keys)
  PROVE  /\ order' = status
         /\ pstatus' = pstatus /\ known' = known
         /\ opStatus'["cancel"] # "NONE" <=> opStatus["cancel"] # "NONE" \/ "cancel" \in keys
         /\ opStatus'["refund"] # "NONE" <=> opStatus["refund"] # "NONE" \/ "refund" \in keys
BY QueuedRows, SpecialKeys DEF Decide, enqueuePaymentOperation

LEMMA OrderKeepsMoney ==
  ASSUME IInv, [Next]_vars, OrderStep PROVE MoneyHolds
<1>1. TypeOK /\ OrderParts /\ QueueParts /\ RowIsTrue
  BY DEF IInv, Typed
<1>2. ASSUME NEW keys, Decide(order', keys),
             order \in {"CANCELLED", "DELIVERY_FAILED"} => order' = order,
             OrderParts', QueueParts'
      PROVE  MoneyHolds
  <2>1. pstatus' = pstatus /\ known' = known
    BY <1>2 DEF Decide
  <2>2. NothingUndone
    BY <1>2, <2>1 DEF NothingUndone
  <2>3. QED
    BY <1>2, <2>1, <2>2, RowStaysTrue DEF MoneyHolds
<1>3. ASSUME order \in {"AWAITING_PAYMENT", "PENDING", "IN_PROGRESS", "CANCELLED"},
             Decide("CANCELLED", Owed)
      PROVE  MoneyHolds
  <2>1. OrderParts'
    BY <1>3, DecideRows DEF OrderParts, OrderFollowsPayment, FailedWasPaid, Released
  <2>2. CancelledFirst'
    BY <1>3, DecideRows DEF CancelledFirst
  <2>3. EndedMoneyIsQueued'
    <3>1. pstatus = "APPROVED" => "refund" \in Owed
      BY <1>1 DEF RowIsTrue, Owed, Disposition
    <3>2. pstatus = "PENDING" /\ known => "cancel" \in Owed
      BY DEF Owed, Disposition
    <3>3. QED
      BY <1>3, <3>1, <3>2, DecideRows DEF EndedMoneyIsQueued
  <2>4. QED
    BY <1>2, <1>3, <2>1, <2>2, <2>3, DecideRows DEF QueueParts
<1>4. ASSUME order \in {"IN_PROGRESS", "DELIVERY_FAILED"}, Decide("DELIVERY_FAILED", Owed)
      PROVE  MoneyHolds
  <2>1. pstatus \in {"APPROVED", "REFUNDED"}
    BY <1>1, <1>4 DEF OrderParts, OrderFollowsPayment, FailedWasPaid, Released
  <2>2. OrderParts'
    BY <1>4, <2>1, DecideRows DEF OrderParts, OrderFollowsPayment, FailedWasPaid, Released
  <2>3. "cancel" \notin Owed /\ (pstatus = "APPROVED" => "refund" \in Owed)
    BY <1>1, <2>1 DEF RowIsTrue, Owed, Disposition
  <2>4. CancelledFirst'
    BY <1>1, <1>4, <2>3, DecideRows DEF QueueParts, CancelledFirst
  <2>5. EndedMoneyIsQueued'
    BY <1>4, <2>1, <2>3, DecideRows DEF EndedMoneyIsQueued
  <2>6. QED
    BY <1>2, <1>4, <2>2, <2>4, <2>5, DecideRows DEF QueueParts
<1>5. ASSUME NEW keys, "cancel" \notin keys, NEW status \in {"IN_PROGRESS", "DELIVERED"},
             order \in {"PENDING", "IN_PROGRESS"}, Decide(status, keys)
      PROVE  MoneyHolds
  <2>1. pstatus \in {"APPROVED", "REFUNDED"}
    BY <1>1, <1>5 DEF OrderParts, OrderFollowsPayment, Released
  <2>2. OrderParts'
    BY <1>5, <2>1, DecideRows DEF OrderParts, OrderFollowsPayment, FailedWasPaid, Released
  <2>3. QueueParts'
    BY <1>1, <1>5, DecideRows DEF QueueParts, CancelledFirst, EndedMoneyIsQueued
  <2>4. QED
    BY <1>2, <1>5, <2>2, <2>3, DecideRows
<1>6. CASE cancelCustomerOrder
  BY <1>3, <1>6 DEF cancelCustomerOrder
<1>7. CASE expireAwaitingPayment
  BY <1>3, <1>7 DEF expireAwaitingPayment
<1>8. CASE StoreCancels
  BY <1>3, <1>8 DEF StoreCancels
<1>9. CASE failDelivery
  BY <1>4, <1>9 DEF failDelivery
<1>10. CASE StoreAccepts
  BY <1>5, <1>10 DEF StoreAccepts
<1>11. CASE completeDelivery
  BY <1>5, <1>11 DEF completeDelivery
<1>12. ASSUME NEW a \in Amendments, approveAmendment(a) PROVE MoneyHolds
  BY <1>5, <1>12, AmendmentIsNeither DEF approveAmendment
<1>13. QED
  BY <1>6, <1>7, <1>8, <1>9, <1>10, <1>11, <1>12 DEF OrderStep

LEMMA MoneyStep == ASSUME IInv, [Next]_vars PROVE MoneyHolds
<1>1. CASE QueueStep
  <2>1. ASSUME NEW w \in Workers, SettleOperation(w) PROVE MoneyHolds
    BY <2>1, SettleKeepsMoney
  <2>2. ASSUME \A w \in Workers : ~SettleOperation(w) PROVE MoneyHolds
    BY <1>1, <2>2, QueueSame, SameKeepsMoney DEF IInv
  <2>3. QED
    BY <2>1, <2>2
<1>2. CASE ProviderStep
  <2>1. SameMoney
    BY <1>2
    DEF ProviderStep, CustomerPays, ProviderDecides, ProviderMoves, RefundByHand, SameMoney
  <2>2. QED
    BY <2>1, SameKeepsMoney
<1>3. CASE UNCHANGED vars
  <2>1. SameMoney
    BY <1>3 DEF vars, SameMoney
  <2>2. QED
    BY <2>1, SameKeepsMoney
<1>4. QED
  BY <1>1, <1>2, <1>3, CheckoutKeepsMoney, ReadKeepsMoney, OrderKeepsMoney DEF Next

-------------------------------------------------------------------------------
(* No row of payment_operations is taken out again.                            *)
RowsStay == \A k \in Keys : opStatus[k] # "NONE" => opStatus'[k] # "NONE"

LEMMA EnqueueKeepsRows ==
  ASSUME NEW keys, enqueuePaymentOperation(keys) PROVE RowsStay
BY QueuedRows DEF enqueuePaymentOperation, RowsStay

LEMMA RowsStep == ASSUME Typed, [Next]_vars PROVE RowsStay
<1>1. CASE CheckoutStep
  BY <1>1
  DEF CheckoutStep, CreateAnswered, CreateUnanswered, CreateLands, CreateNeverLands,
      RecoverFound, RecoverLater, RecoverReview, RecoverExpired, RecoverCreated,
      RecoverCreateUncertain, RowsStay
<1>2. CASE ReadStep
  <2>1. ASSUME NEW r \in reads, ApplyRead(r) PROVE RowsStay
    BY <2>1, EnqueueKeepsRows DEF ApplyRead
  <2>2. QED
    BY <1>2, <2>1 DEF ReadStep, WebhookReads, RefreshReads, DropRead, RefreshFails, RowsStay
<1>3. CASE OrderStep
  <2>1. ASSUME NEW status, NEW keys, Decide(status, keys) PROVE RowsStay
    BY <2>1, EnqueueKeepsRows DEF Decide
  <2>2. QED
    BY <1>3, <2>1
    DEF OrderStep, cancelCustomerOrder, expireAwaitingPayment, StoreCancels, failDelivery,
        StoreAccepts, completeDelivery, approveAmendment
<1>4. CASE QueueStep
  <2>1. ASSUME NEW w \in Workers, SettleOperation(w) PROVE RowsStay
    <3> DEFINE k == worker[w].key
               s == worker[w].snap
               owed == OwedBySettling(k, s)
               status == Settled(evaluateOperation(k, s), worker[w].tries)
    <3>1. k \in Keys /\ s \in Snapshot
      BY <2>1, Serves DEF SettleOperation, Typed, WorkersServe, Held
    <3>2. opStatus' = [Queued(owed) EXCEPT ![k] = status]
      BY <2>1 DEF SettleOperation
    <3>3. status # "NONE"
      BY <3>1, SettledType
    <3>4. Queued(owed) \in [Keys -> OPERATION_STATUSES]
      BY QueuedType DEF Typed
    <3>5. QED
      BY <3>1, <3>2, <3>3, <3>4, QueuedRows DEF RowsStay
  <2>2. QED
    BY <1>4, <2>1, QueueSame DEF SameMoney, RowsStay
<1>5. CASE ProviderStep \/ UNCHANGED vars
  BY <1>5
  DEF ProviderStep, CustomerPays, ProviderDecides, ProviderMoves, RefundByHand, vars, RowsStay
<1>6. QED
  BY <1>1, <1>2, <1>3, <1>4, <1>5 DEF Next

(* A worker's record is sound in the state that follows.                       *)
SoundNext(v) ==
  /\ v.pc # "idle" => v.key \in Existing'
  /\ v.pc \notin {"idle", "claimed"} => known'
  /\ v.pc \in {"settling", "recovering"} =>
       /\ v.snap \in Snapshot
       /\ v.snap.state = "approved" => provider' \in ChargedStates

LEMMA UntouchedWorkers ==
  ASSUME IInv, [Next]_vars, NEW w \in Workers PROVE SoundNext(worker[w])
<1>1. RowsStay /\ (known => known')
  BY RowsStep, MoneyStep DEF IInv, MoneyHolds, NothingUndone
<1>2. provider \in ChargedStates => provider' \in ChargedStates
  BY ProviderKeeps DEF IInv, Typed
<1>3. worker[w].pc # "idle" => worker[w].key \in Existing
  BY DEF IInv, Typed, WorkersServe
<1>4. worker[w].key \in Existing => worker[w].key \in Existing'
  BY <1>1 DEF RowsStay, Existing
<1>5. worker[w].pc \notin {"idle", "claimed"} => known'
  BY <1>1 DEF IInv, Typed, WorkersServe
<1>6. worker[w].pc \in {"settling", "recovering"} =>
        /\ worker[w].snap \in Snapshot
        /\ worker[w].snap.state = "approved" => provider' \in ChargedStates
  BY <1>2 DEF IInv, Typed, WorkersServe, SnapshotsAreTrue, Held
<1>7. QED
  BY <1>3, <1>4, <1>5, <1>6 DEF SoundNext

LEMMA RestIsSound == SoundNext(Idle)
BY DEF SoundNext, Idle

LEMMA FreshSnapshotIsTrue == Now.state = "approved" => provider \in ChargedStates
BY DEF Now, ChargedStates

LEMMA MovedWorker ==
  ASSUME IInv, [Next]_vars, NEW w \in Workers, WorkerStep(w)
  PROVE  \E v : SoundNext(v) /\ worker' = [worker EXCEPT ![w] = v]
<1>1. TypeOK /\ Typed /\ worker \in [Workers -> Working]
  BY DEF IInv, Typed, TypeOK
<1>2. SoundNext(worker[w])
  BY UntouchedWorkers
<1>3. provider \in ChargedStates => provider' \in ChargedStates
  BY <1>1, ProviderKeeps
<1>4. CASE Rest(w)
  BY <1>4, RestIsSound DEF Rest
<1>5. ASSUME NEW k \in Keys, ClaimOperation(w, k)
      PROVE  \E v : SoundNext(v) /\ worker' = [worker EXCEPT ![w] = v]
  <2> DEFINE v == [Idle EXCEPT !.pc = "claimed", !.key = k]
  <2>1. worker' = [worker EXCEPT ![w] = v] /\ opStatus' = [opStatus EXCEPT ![k] = "PROCESSING"]
    BY <1>5 DEF ClaimOperation
  <2>2. opStatus'[k] = "PROCESSING"
    BY <1>1, <2>1 DEF TypeOK
  <2>3. v.pc = "claimed" /\ v.key = k
    BY DEF Idle
  <2>4. SoundNext(v)
    BY <2>2, <2>3 DEF SoundNext, Existing
  <2>5. QED
    BY <2>1, <2>4
<1>6. CASE BeginOperation(w)
  <2>1. /\ known /\ known' = known /\ provider' = provider
        /\ worker[w].key \in Existing' /\ Now \in Snapshot
    BY <1>1, <1>2, <1>6, NowType
    DEF BeginOperation, Actionable, SoundNext, Typed, ProviderHasIt
  <2> DEFINE looksDone == worker[w].key = "cancel" /\ provider # "actionable"
             v == [pc |-> IF looksDone THEN "settling" ELSE "calling", key |-> worker[w].key,
                   tries |-> opTries[worker[w].key], snap |-> IF looksDone THEN Now ELSE Null]
  <2>2. worker' = [worker EXCEPT ![w] = v]
    BY <1>6 DEF BeginOperation
  <2>3. SoundNext(v)
    BY <1>3, <2>1, FreshSnapshotIsTrue DEF SoundNext
  <2>4. QED
    BY <2>2, <2>3
<1>7. CASE CallProvider(w)
  <2> DEFINE v == [worker[w] EXCEPT !.pc = "reading"]
  <2>1. worker' = [worker EXCEPT ![w] = v]
    BY <1>7 DEF CallProvider
  <2>2. v.pc = "reading" /\ v.key = worker[w].key
    BY <1>1 DEF Working
  <2>3. SoundNext(v)
    BY <1>2, <1>7, <2>2 DEF CallProvider, SoundNext
  <2>4. QED
    BY <2>1, <2>3
<1>8. CASE ReadBack(w)
  <2> DEFINE v == [worker[w] EXCEPT !.pc = "settling", !.snap = Now]
  <2>1. worker' = [worker EXCEPT ![w] = v]
    BY <1>8, <1>1 DEF ReadBack
  <2>2. v.pc = "settling" /\ v.key = worker[w].key /\ v.snap = Now
    BY <1>1 DEF Working
  <2>3. known /\ Now \in Snapshot
    BY <1>1, <1>8, NowType DEF ReadBack, Typed, WorkersServe, ProviderHasIt
  <2>4. SoundNext(v)
    BY <1>2, <1>3, <1>8, <2>2, <2>3, FreshSnapshotIsTrue DEF ReadBack, SoundNext
  <2>5. QED
    BY <2>1, <2>4
<1>9. CASE LookAgain(w)
  <2> DEFINE v == [pc |-> "recovering", key |-> worker[w].key, tries |-> TriesOf(w),
                   snap |-> Now]
  <2>1. worker' = [worker EXCEPT ![w] = v] /\ known' = known
    BY <1>9 DEF LookAgain
  <2>2. worker[w].pc \in {"reading", "claimed"} /\ known
    BY <1>1, <1>9 DEF LookAgain, Reading, Typed, WorkersServe
  <2>3. Now \in Snapshot
    BY <1>1, <2>2, NowType DEF Typed, ProviderHasIt
  <2>4. SoundNext(v)
    BY <1>2, <1>3, <2>1, <2>2, <2>3, FreshSnapshotIsTrue DEF SoundNext
  <2>5. QED
    BY <2>1, <2>4
<1>10. CASE LostClaim(w) \/ NotActionable(w) \/ FailForGood(w) \/ FailForNow(w)
              \/ SettleOperation(w) \/ SettleFails(w) \/ RecoveringFails(w) \/ WorkerCrashes(w)
  <2>1. Rest(w)
    BY <1>10
    DEF LostClaim, NotActionable, FailForGood, FailForNow, SettleOperation, SettleFails,
        RecoveringFails, WorkerCrashes, ReviewOperation, RetryOperation
  <2>2. QED
    BY <2>1, <1>4
<1>11. QED
  BY <1>5, <1>6, <1>7, <1>8, <1>9, <1>10 DEF WorkerStep

LEMMA WorkersStep ==
  ASSUME IInv, [Next]_vars PROVE \A w \in Workers : SoundNext(worker'[w])
<1>1. worker \in [Workers -> Working]
  BY DEF IInv, Typed, TypeOK
<1>2. CASE UNCHANGED worker
  BY <1>2, UntouchedWorkers
<1>3. ASSUME NEW w \in Workers, WorkerStep(w)
      PROVE  \A u \in Workers : SoundNext(worker'[u])
  <2>1. PICK v : SoundNext(v) /\ worker' = [worker EXCEPT ![w] = v]
    BY <1>3, MovedWorker
  <2>2. \A u \in Workers : worker'[u] = IF u = w THEN v ELSE worker[u]
    BY <1>1, <2>1
  <2>3. QED
    BY <2>1, <2>2, UntouchedWorkers
<1>4. CASE CheckoutStep \/ ReadStep \/ OrderStep \/ ProviderStep
  <2>1. UNCHANGED worker
    BY <1>4
    DEF CheckoutStep, CreateAnswered, CreateUnanswered, CreateLands, CreateNeverLands,
        RecoverFound, RecoverLater, RecoverReview, RecoverExpired, RecoverCreated,
        RecoverCreateUncertain, ReadStep, WebhookReads, RefreshReads, ApplyRead, DropRead,
        RefreshFails, OrderStep, cancelCustomerOrder, expireAwaitingPayment, StoreCancels,
        failDelivery, StoreAccepts, completeDelivery, approveAmendment, Decide, ProviderStep,
        CustomerPays, ProviderDecides, ProviderMoves, RefundByHand
  <2>2. QED
    BY <1>2, <2>1
<1>5. CASE QueueStep
  BY <1>2, <1>3, <1>5 DEF QueueStep, LeaseExpires, recoverLeases, propagateReviewedDependencies
<1>6. CASE UNCHANGED vars
  BY <1>2, <1>6 DEF vars
<1>7. QED
  BY <1>4, <1>5, <1>6 DEF Next

(* What is read, and what the row records, is of a payment the provider has.   *)
LEMMA ReadsStep ==
  ASSUME IInv, [Next]_vars
  PROVE  /\ ProviderHasIt'
         /\ \A r \in reads' : r.snap.state = "approved" => provider' \in ChargedStates
<1>1. TypeOK /\ Typed /\ ProviderHasIt
  BY DEF IInv, Typed
<1>2. /\ provider \in ChargedStates => provider' \in ChargedStates
      /\ provider # "none" => provider' # "none"
  BY <1>1, ProviderKeeps
<1>3. ASSUME reads' \subseteq reads, known' => known \/ provider' # "none" \/ reads # {}
      PROVE  /\ ProviderHasIt'
             /\ \A r \in reads' : r.snap.state = "approved" => provider' \in ChargedStates
  <2>1. ProviderHasIt'
    BY <1>1, <1>2, <1>3 DEF ProviderHasIt
  <2>2. QED
    BY <2>1, <1>2, <1>3 DEF IInv, SnapshotsAreTrue
<1>4. ASSUME NEW r, reads' = reads \cup {r}, known' = known, provider' # "none",
             r.snap.state = "approved" => provider' \in ChargedStates
      PROVE  /\ ProviderHasIt'
             /\ \A q \in reads' : q.snap.state = "approved" => provider' \in ChargedStates
  <2>1. ProviderHasIt'
    BY <1>4 DEF ProviderHasIt
  <2>2. QED
    BY <2>1, <1>2, <1>4 DEF IInv, SnapshotsAreTrue
<1>5. CASE CheckoutStep
  <2>1. \A p \in Created : p # "none"
    BY DEF Created
  <2>2. CASE CreateAnswered
    <3> DEFINE r == [via |-> "create", tries |-> 0,
                     snap |-> [state |-> provider', refunded |-> prefunded]]
    <3>1. reads' = reads \cup {r} /\ known' = known /\ provider' # "none"
      BY <2>1, <2>2 DEF CreateAnswered
    <3>2. r.snap.state = "approved" => provider' \in ChargedStates
      BY DEF ChargedStates
    <3>3. QED
      BY <3>1, <3>2, <1>4
  <2>3. CASE RecoverFound
    <3>1. reads' = reads \cup {ReadBy("create", 0)} /\ known' = known /\ provider' = provider
            /\ provider # "none"
      BY <2>3 DEF RecoverFound
    <3>2. ReadBy("create", 0).snap.state = "approved" => provider' \in ChargedStates
      BY <3>1, FreshSnapshotIsTrue DEF ReadBy
    <3>3. QED
      BY <3>1, <3>2, <1>4
  <2>4. CASE RecoverCreated
    BY <1>3, <2>1, <2>4 DEF RecoverCreated, CreatePix
  <2>5. CASE ~CreateAnswered /\ ~RecoverFound /\ ~RecoverCreated
    <3>1. reads' = reads /\ known' = known
      BY <1>5, <2>5
      DEF CheckoutStep, CreateUnanswered, CreateLands, CreateNeverLands, RecoverLater,
          RecoverReview, RecoverExpired, RecoverCreateUncertain, CreateRetry, CreateReview,
          ExpireUncreated
    <3>2. QED
      BY <3>1, <1>3
  <2>6. QED
    BY <2>2, <2>3, <2>4, <2>5
<1>6. CASE ReadStep
  <2>1. CASE WebhookReads
    <3>1. reads' = reads \cup {ReadBy("webhook", 0)} /\ known' = known /\ provider' = provider
            /\ provider # "none"
      BY <2>1 DEF WebhookReads
    <3>2. ReadBy("webhook", 0).snap.state = "approved" => provider' \in ChargedStates
      BY <3>1, FreshSnapshotIsTrue DEF ReadBy
    <3>3. QED
      BY <3>1, <3>2, <1>4
  <2>2. CASE RefreshReads
    <3>1. reads' = reads \cup {ReadBy("refresh", Tried(reconTries))} /\ known' = known
            /\ provider' = provider /\ provider # "none"
      BY <2>2, <1>1 DEF RefreshReads, ProviderHasIt
    <3>2. ReadBy("refresh", Tried(reconTries)).snap.state = "approved"
            => provider' \in ChargedStates
      BY <3>1, FreshSnapshotIsTrue DEF ReadBy
    <3>3. QED
      BY <3>1, <3>2, <1>4
  <2>3. ASSUME NEW r \in reads, ApplyRead(r) \/ DropRead(r) \/ RefreshFails(r)
        PROVE  reads' \subseteq reads /\ reads # {}
    BY <2>3 DEF ApplyRead, DropRead, RefreshFails
  <2>4. QED
    BY <1>3, <1>6, <2>1, <2>2, <2>3 DEF ReadStep
<1>7. CASE OrderStep \/ ProviderStep \/ UNCHANGED vars
  <2>1. reads' = reads /\ known' = known
    BY <1>7
    DEF OrderStep, cancelCustomerOrder, expireAwaitingPayment, StoreCancels, failDelivery,
        StoreAccepts, completeDelivery, approveAmendment, Decide, ProviderStep,
        CustomerPays, ProviderDecides, ProviderMoves, RefundByHand, vars
  <2>2. QED
    BY <2>1, <1>3
<1>8. CASE QueueStep
  <2>1. ASSUME NEW w \in Workers, SettleOperation(w) PROVE reads' = reads /\ known
    BY <1>1, <2>1 DEF SettleOperation, Typed, WorkersServe
  <2>2. ASSUME NEW w \in Workers, WorkerStep(w), ~SettleOperation(w)
        PROVE  reads' = reads /\ known' = known
    BY <2>2
    DEF WorkerStep, ClaimOperation, LostClaim, NotActionable, BeginOperation, CallProvider,
        ReadBack, FailForGood, FailForNow, LookAgain, SettleFails, RecoveringFails,
        WorkerCrashes, ReviewOperation, RetryOperation
  <2>3. reads' = reads /\ (known' => known)
    <3>1. ASSUME NEW w \in Workers, WorkerStep(w) PROVE reads' = reads /\ (known' => known)
      BY <2>1, <2>2, <3>1
    <3>2. ASSUME NEW k \in Keys, LeaseExpires(k) PROVE reads' = reads /\ known' = known
      BY <3>2 DEF LeaseExpires
    <3>3. ASSUME recoverLeases \/ propagateReviewedDependencies
          PROVE  reads' = reads /\ known' = known
      BY <3>3 DEF recoverLeases, propagateReviewedDependencies
    <3>4. QED
      BY <1>8, <3>1, <3>2, <3>3 DEF QueueStep
  <2>4. QED
    BY <2>3, <1>3
<1>9. QED
  BY <1>5, <1>6, <1>7, <1>8 DEF Next

-------------------------------------------------------------------------------
LEMMA InvStart == Init => IInv
<1> SUFFICES ASSUME Init PROVE IInv
  OBVIOUS
<1>1. Cardinality(Keys) \in Nat /\ MaxTries \in Nat /\ Amount \in Nat
  BY KeysFinite, FS_CardinalityType, PaymentAssumption
<1>2. \A w \in Workers : worker[w] = Idle
  BY DEF Init
<1>3. TypeOK
  <2>1. Idle \in Working
    BY ZeroTries DEF Idle, Working
  <2>2. RowTypes
    <3>1. known \in BOOLEAN
      BY DEF Init
    <3>2. reconTries \in 0..MaxTries /\ refunded \in 0..Amount
      BY <1>1 DEF Init
    <3>3. QED
      BY <3>1, <3>2 DEF Init, RowTypes, ORDER, PAYMENT_STATUSES
  <2>3. QueueTypes
    BY <1>1 DEF Init, QueueTypes, OPERATION_STATUSES
  <2>4. OutsideTypes
    BY <1>1, <2>1 DEF Init, OutsideTypes, PROVIDER_STATES
  <2>5. QED
    BY <2>2, <2>3, <2>4, TypeParts
<1>4. WorkersServe /\ ProviderHasIt /\ SnapshotsAreTrue
  BY <1>2 DEF Init, WorkersServe, ProviderHasIt, SnapshotsAreTrue, Held, Idle
<1>5. RowIsTrue /\ OrderParts /\ QueueParts
  BY SpecialKeys
  DEF Init, RowIsTrue, OrderParts, OrderFollowsPayment, FailedWasPaid, QueueParts,
      CancelledFirst, EndedMoneyIsQueued, Released
<1>6. QED
  BY <1>3, <1>4, <1>5 DEF IInv, Typed

LEMMA InvStep == ASSUME IInv, [Next]_vars PROVE IInv'
<1>1. TypeOK'
  BY TypeStep DEF IInv
<1>2. MoneyHolds
  BY MoneyStep
<1>3. \A w \in Workers : SoundNext(worker'[w])
  BY WorkersStep
<1>4. WorkersServe'
  BY <1>3 DEF WorkersServe, SoundNext, Held
<1>5. ProviderHasIt' /\ SnapshotsAreTrue'
  BY <1>3, ReadsStep DEF SnapshotsAreTrue, SoundNext, Held
<1>6. QED
  BY <1>1, <1>2, <1>4, <1>5 DEF IInv, Typed, MoneyHolds

THEOREM Invariance == Spec => []IInv
<1>1. Init => IInv
  BY InvStart
<1>2. IInv /\ [Next]_vars => IInv'
  BY InvStep
<1>3. QED
  BY <1>1, <1>2, PTL DEF Spec

-------------------------------------------------------------------------------
(* Every column of the payment and of its operations keeps its range, refund   *)
(* targets never more than the payment (enqueuePaymentOperation).              *)
THEOREM PaymentTypeCorrect == Spec => []TypeOK
<1>1. IInv => TypeOK
  BY DEF IInv, Typed
<1>2. QED
  BY <1>1, Invariance, PTL

(* An order waits exactly as long as its payment is undecided, and is with the *)
(* store only if the payment has been approved                                 *)
(* (applyProviderSnapshotInTransaction, recoverUncertainCreate, cancelLocked). *)
THEOREM OrderFollows == Spec => []OrderFollowsPayment
<1>1. IInv => OrderFollowsPayment
  BY DEF IInv, OrderParts
<1>2. QED
  BY <1>1, Invariance, PTL

(* The store gets no order whose payment the provider has not charged          *)
(* (validateProviderSnapshot).                                                 *)
THEOREM ReleasedCharged == Spec => []ReleasedWasCharged
<1>1. IInv => ReleasedWasCharged
  BY DEF IInv, OrderParts, OrderFollowsPayment, RowIsTrue, ReleasedWasCharged, ChargedStates
<1>2. QED
  BY <1>1, Invariance, PTL

(* The money of an order that ended has an operation that returns it or stops  *)
(* it from being taken (ensureCancelledOrderPaymentDisposition).               *)
THEOREM EndedQueued == Spec => []EndedMoneyIsQueued
<1>1. IInv => EndedMoneyIsQueued
  BY DEF IInv, QueueParts
<1>2. QED
  BY <1>1, Invariance, PTL

(* No ended order is reopened and no late snapshot takes back an approval or a *)
(* refund (applyProviderSnapshotInTransaction).                                *)
THEOREM RowNeverRegresses == Spec => NothingRegresses
<1> DEFINE A == /\ order \in {"CANCELLED", "DELIVERY_FAILED"} => order' = order
                /\ pstatus = "REFUNDED" => pstatus' = "REFUNDED"
                /\ pstatus = "APPROVED" => pstatus' \in {"APPROVED", "REFUNDED"}
<1>1. IInv /\ [Next]_vars => [A]_vars
  BY MoneyStep DEF MoneyHolds, NothingUndone
<1>2. QED
  BY <1>1, Invariance, PTL DEF Spec, NothingRegresses
===============================================================================
