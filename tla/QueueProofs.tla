------------------------------ MODULE QueueProofs ------------------------------
(* Theorems about the queue of Payments: what it records as done is done, and  *)
(* the provider is asked for one operation after the other, with workers that  *)
(* outlive their leases as without.                                            *)
EXTENDS PaymentProofs

USE DEF paymentRow, operations, external

-------------------------------------------------------------------------------
(* What a snapshot says of money that came back, or of a payment that was not  *)
(* taken, holds from then on.                                                  *)
Unpaid == {"cancelled", "rejected", "expired"}

Holds(s) == s.refunded <= prefunded /\ (s.state \in Unpaid => provider = s.state)
HoldsNext(s) == s.refunded <= prefunded' /\ (s.state \in Unpaid => provider' = s.state)

JustRead(s) == s = [state |-> provider', refunded |-> prefunded']

LEMMA ProviderOnward ==
  ASSUME Typed, [Next]_vars
  PROVE  prefunded <= prefunded' /\ (provider \in Unpaid => provider' = provider)
<1> USE DEF Unpaid
<1>1. prefunded \in Nat /\ Amount \in Nat
  BY PaymentAssumption DEF Typed, TypeOK
<1>2. CASE CheckoutStep
  <2>1. \A p \in Created : provider # "none" => p = provider
    BY DEF Created
  <2>2. prefunded' = prefunded /\ (provider' = provider \/ provider' \in Created)
    BY <1>2
    DEF CheckoutStep, CreateAnswered, CreateUnanswered, CreateLands, CreateNeverLands,
        RecoverFound, RecoverLater, RecoverReview, RecoverExpired, RecoverCreated,
        RecoverCreateUncertain, CreatePix
  <2>3. QED
    BY <1>1, <2>1, <2>2
<1>3. CASE ReadStep \/ OrderStep
  <2>1. UNCHANGED <<provider, prefunded>>
    BY <1>3
    DEF ReadStep, WebhookReads, RefreshReads, ApplyRead, DropRead, RefreshFails, OrderStep,
        cancelCustomerOrder, expireAwaitingPayment, StoreCancels, failDelivery, StoreAccepts,
        completeDelivery, approveAmendment, Decide
  <2>2. QED
    BY <1>1, <2>1
<1>4. CASE QueueStep
  <2>1. ASSUME NEW w \in Workers, CallProvider(w)
        PROVE  prefunded <= prefunded' /\ (provider \in Unpaid => provider' = provider)
    <3> DEFINE k == worker[w].key
    <3>1. CASE UNCHANGED external
      BY <1>1, <3>1
    <3>2. CASE ProviderCarriesOut(k) /\ k \in {"cancel", "refund"}
      BY <1>1, <3>2 DEF ProviderCarriesOut, Typed, TypeOK
    <3>3. CASE ProviderCarriesOut(k) /\ k \in Amendments
      <4>1. k # "cancel" /\ k # "refund" /\ AmendCents[k] \in 1..Amount
        BY <3>3, AmendmentIsNeither, PaymentAssumption
      <4>2. prefunded' = prefunded + AmendCents[k] /\ provider' = provider
        BY <3>3, <4>1 DEF ProviderCarriesOut
      <4>3. QED
        BY <1>1, <4>1, <4>2
    <3>4. k \in Keys
      BY <2>1, Serves DEF CallProvider
    <3>5. ProviderCarriesOut(k) \/ UNCHANGED external
      BY <2>1 DEF CallProvider
    <3>6. k \in {"cancel", "refund"} \/ k \in Amendments
      BY <3>4 DEF Keys
    <3>7. QED
      BY <3>1, <3>2, <3>3, <3>5, <3>6
  <2>2. ASSUME NEW w \in Workers, WorkerStep(w), ~CallProvider(w)
        PROVE  UNCHANGED <<provider, prefunded>>
    BY <2>2
    DEF WorkerStep, ClaimOperation, LostClaim, NotActionable, BeginOperation, ReadBack,
        FailForGood, FailForNow, LookAgain, SettleOperation, SettleFails, RecoveringFails,
        WorkerCrashes, ReviewOperation, RetryOperation
  <2>3. CASE \E k \in Keys : LeaseExpires(k)
    BY <1>1, <2>3 DEF LeaseExpires
  <2>4. ASSUME recoverLeases \/ propagateReviewedDependencies
        PROVE  provider' = provider /\ prefunded' = prefunded
    BY <2>4 DEF recoverLeases, propagateReviewedDependencies
  <2>5. QED
    BY <1>1, <1>4, <2>1, <2>2, <2>3, <2>4 DEF QueueStep
<1>5. CASE ProviderStep
  BY <1>1, <1>5 DEF ProviderStep, CustomerPays, ProviderDecides, ProviderMoves, RefundByHand
<1>6. CASE UNCHANGED vars
  BY <1>1, <1>6 DEF vars
<1>7. QED
  BY <1>2, <1>3, <1>4, <1>5, <1>6 DEF Next

LEMMA HoldsOn ==
  ASSUME Typed, TypeOK', [Next]_vars, NEW s \in Snapshot
  PROVE  /\ Holds(s) => HoldsNext(s)
         /\ JustRead(s) => HoldsNext(s)
<1>1. prefunded <= prefunded' /\ (provider \in Unpaid => provider' = provider)
  BY ProviderOnward
<1>2. prefunded \in Nat /\ prefunded' \in Nat /\ s.refunded \in Nat
  BY PaymentAssumption DEF Typed, TypeOK, Snapshot
<1>3. QED
  BY <1>1, <1>2 DEF Holds, HoldsNext, JustRead

(* Every read that is under way was under way, or is of the provider as it is. *)
LEMMA ReadsKnow ==
  ASSUME Typed, [Next]_vars
  PROVE  \A r \in reads' : r \in reads \/ JustRead(r.snap)
<1>1. CASE CheckoutStep
  <2>1. CASE CreateAnswered
    <3> DEFINE s == [state |-> provider', refunded |-> prefunded]
    <3>1. reads' = reads \cup {[via |-> "create", tries |-> 0, snap |-> s]}
            /\ prefunded' = prefunded
      BY <2>1 DEF CreateAnswered
    <3>2. QED
      BY <3>1 DEF JustRead
  <2>2. CASE RecoverFound
    <3>1. reads' = reads \cup {ReadBy("create", 0)} /\ JustRead(ReadBy("create", 0).snap)
      BY <2>2 DEF RecoverFound, ReadBy, Now, JustRead
    <3>2. QED
      BY <3>1
  <2>3. CASE reads' = reads
    BY <2>3
  <2>4. QED
    BY <1>1, <2>1, <2>2, <2>3
    DEF CheckoutStep, CreateUnanswered, CreateLands, CreateNeverLands, RecoverLater,
        RecoverReview, RecoverExpired, RecoverCreated, RecoverCreateUncertain
<1>2. CASE ReadStep
  <2>1. ASSUME NEW via, NEW tries, reads' = reads \cup {ReadBy(via, tries)},
               UNCHANGED external
        PROVE  \A r \in reads' : r \in reads \/ JustRead(r.snap)
    BY <2>1 DEF ReadBy, Now, JustRead
  <2>2. CASE WebhookReads
    BY <2>1, <2>2 DEF WebhookReads
  <2>3. CASE RefreshReads
    BY <2>1, <2>3 DEF RefreshReads
  <2>4. ASSUME NEW r \in reads, ApplyRead(r) \/ DropRead(r) \/ RefreshFails(r)
        PROVE  reads' \subseteq reads
    BY <2>4 DEF ApplyRead, DropRead, RefreshFails
  <2>5. QED
    BY <1>2, <2>2, <2>3, <2>4 DEF ReadStep
<1>3. CASE OrderStep \/ QueueStep \/ ProviderStep \/ UNCHANGED vars
  <2>1. reads' = reads
    BY <1>3
    DEF OrderStep, cancelCustomerOrder, expireAwaitingPayment, StoreCancels, failDelivery,
        StoreAccepts, completeDelivery, approveAmendment, Decide, ProviderStep, CustomerPays,
        ProviderDecides, ProviderMoves, RefundByHand, vars, QueueStep, LeaseExpires,
        recoverLeases, propagateReviewedDependencies, WorkerStep, ClaimOperation, LostClaim,
        NotActionable, BeginOperation, CallProvider, ReadBack, FailForGood, FailForNow,
        LookAgain, SettleOperation, SettleFails, RecoveringFails, WorkerCrashes,
        ReviewOperation, RetryOperation
  <2>2. QED
    BY <2>1
<1>4. QED
  BY <1>1, <1>2, <1>3 DEF Next

(* So is every snapshot in the hands of a worker; the rest of a worker's record *)
(* is its own.                                                                 *)
LEMMA WorkersKnow ==
  ASSUME Typed, [Next]_vars, NEW w \in Workers,
         worker'[w].pc \in {"settling", "recovering"}
  PROVE  \/ JustRead(worker'[w].snap)
         \/ Held(w) /\ worker'[w].snap = worker[w].snap
<1>1. worker \in [Workers -> Working]
  BY DEF Typed, TypeOK
<1>2. CASE worker' = worker
  BY <1>2 DEF Held
<1>3. ASSUME NEW u \in Workers, WorkerStep(u)
      PROVE  \/ JustRead(worker'[w].snap)
             \/ Held(w) /\ worker'[w].snap = worker[w].snap
  <2>1. PICK v : worker' = [worker EXCEPT ![u] = v]
    BY <1>3
    DEF WorkerStep, ClaimOperation, LostClaim, NotActionable, BeginOperation, CallProvider,
        ReadBack, FailForGood, FailForNow, LookAgain, SettleOperation, SettleFails,
        RecoveringFails, WorkerCrashes, ReviewOperation, RetryOperation, Rest
  <2>2. CASE w # u
    BY <1>1, <2>1, <2>2 DEF Held
  <2>3. CASE w = u
    <3>1. CASE BeginOperation(w) \/ ReadBack(w) \/ LookAgain(w)
      <4>1. JustRead(Now)
        BY <3>1 DEF BeginOperation, ReadBack, LookAgain, Now, JustRead
      <4>2. CASE BeginOperation(w)
        <5> DEFINE looksDone == worker[w].key = "cancel" /\ provider # "actionable"
                   x == [pc |-> IF looksDone THEN "settling" ELSE "calling",
                         key |-> worker[w].key, tries |-> opTries[worker[w].key],
                         snap |-> IF looksDone THEN Now ELSE Null]
        <5>1. worker' = [worker EXCEPT ![w] = x]
          BY <4>2 DEF BeginOperation
        <5>2. worker'[w] = x
          BY <1>1, <5>1
        <5>3. QED
          BY <4>1, <5>2
      <4>3. CASE ReadBack(w)
        <5>1. worker'[w] = [worker[w] EXCEPT !.pc = "settling", !.snap = Now]
          BY <1>1, <4>3 DEF ReadBack
        <5>2. worker'[w].snap = Now
          BY <1>1, <5>1 DEF Working
        <5>3. QED
          BY <4>1, <5>2
      <4>4. CASE LookAgain(w)
        <5>1. worker'[w].snap = Now
          BY <1>1, <4>4 DEF LookAgain
        <5>2. QED
          BY <4>1, <5>1
      <4>5. QED
        BY <3>1, <4>2, <4>3, <4>4
    <3>2. CASE Rest(w)
      BY <1>1, <3>2 DEF Rest, Idle
    <3>3. CASE CallProvider(w)
      BY <1>1, <3>3 DEF CallProvider, Working
    <3>4. ASSUME NEW k \in Keys, ClaimOperation(w, k)  PROVE FALSE
      BY <1>1, <3>4 DEF ClaimOperation, Idle
    <3>5. WorkerStep(w)
      BY <1>3, <2>3
    <3>6. ASSUME LostClaim(w) \/ NotActionable(w) \/ FailForGood(w) \/ FailForNow(w)
                   \/ SettleOperation(w) \/ SettleFails(w) \/ RecoveringFails(w)
                   \/ WorkerCrashes(w)
          PROVE  Rest(w)
      BY <3>6
      DEF LostClaim, NotActionable, FailForGood, FailForNow, SettleOperation, SettleFails,
          RecoveringFails, WorkerCrashes, ReviewOperation, RetryOperation
    <3>7. QED
      BY <3>1, <3>2, <3>3, <3>4, <3>5, <3>6 DEF WorkerStep
  <2>4. QED
    BY <2>2, <2>3
<1>4. CASE CheckoutStep \/ ReadStep \/ OrderStep \/ ProviderStep \/ UNCHANGED vars
  <2>1. worker' = worker
    BY <1>4
    DEF CheckoutStep, CreateAnswered, CreateUnanswered, CreateLands, CreateNeverLands,
        RecoverFound, RecoverLater, RecoverReview, RecoverExpired, RecoverCreated,
        RecoverCreateUncertain, ReadStep, WebhookReads, RefreshReads, ApplyRead, DropRead,
        RefreshFails, OrderStep, cancelCustomerOrder, expireAwaitingPayment, StoreCancels,
        failDelivery, StoreAccepts, completeDelivery, approveAmendment, Decide, ProviderStep,
        CustomerPays, ProviderDecides, ProviderMoves, RefundByHand, vars
  <2>2. QED
    BY <2>1, <1>2
<1>5. CASE QueueStep
  <2>1. ASSUME NEW k \in Keys, LeaseExpires(k)  PROVE worker' = worker
    BY <2>1 DEF LeaseExpires
  <2>2. ASSUME recoverLeases \/ propagateReviewedDependencies  PROVE worker' = worker
    BY <2>2 DEF recoverLeases, propagateReviewedDependencies
  <2>3. QED
    BY <1>2, <1>3, <1>5, <2>1, <2>2 DEF QueueStep
<1>6. QED
  BY <1>4, <1>5 DEF Next

-------------------------------------------------------------------------------
(* The strengthening: snapshots are behind the provider, not ahead of it, and  *)
(* what the row calls refunded has come back.                                  *)
SnapshotsHold ==
  /\ \A r \in reads : Holds(r.snap)
  /\ \A w \in Workers : Held(w) => Holds(worker[w].snap)

RefundedIsBack == pstatus = "REFUNDED" => prefunded = Amount

DoneInv == SnapshotsHold /\ RefundedIsBack /\ SucceededMeansDone

LEMMA SnapshotsHoldOn ==
  ASSUME IInv, IInv', SnapshotsHold, [Next]_vars  PROVE SnapshotsHold'
<1>1. Typed /\ TypeOK'
  BY DEF IInv, Typed
<1>2. ASSUME NEW r \in reads'  PROVE HoldsNext(r.snap)
  <2>1. r.snap \in Snapshot
    BY <1>1, <1>2 DEF TypeOK, Read
  <2>2. r \in reads \/ JustRead(r.snap)
    BY <1>1, <1>2, ReadsKnow
  <2>3. QED
    BY <1>1, <2>1, <2>2, HoldsOn DEF SnapshotsHold
<1>3. ASSUME NEW w \in Workers, worker'[w].pc \in {"settling", "recovering"}
      PROVE  HoldsNext(worker'[w].snap)
  <2>1. worker'[w].snap \in Snapshot
    BY <1>3 DEF IInv, Typed, WorkersServe, Held
  <2>2. \/ JustRead(worker'[w].snap)
        \/ Held(w) /\ worker'[w].snap = worker[w].snap
    BY <1>1, <1>3, WorkersKnow
  <2>3. QED
    BY <1>1, <2>1, <2>2, HoldsOn DEF SnapshotsHold
<1>4. QED
  BY <1>2, <1>3 DEF SnapshotsHold, Holds, HoldsNext, Held

(* A row becomes refunded by a snapshot that says so.                          *)
LEMMA RefundedBy ==
  ASSUME TypeOK, NEW s \in Snapshot, NEW release, applyProviderSnapshot(s, release),
         pstatus' = "REFUNDED"
  PROVE  pstatus = "REFUNDED" \/ s.refunded = Amount
<1>1. validateSnapshot(s) = "REFUNDED" => s.refunded = Amount
  BY DEF validateSnapshot, Accredited
<1>2. QED
  BY <1>1, DecisionType
  DEF applyProviderSnapshot, Reviewed, Ignored, Persisted, StatusAfter, Paid, Decisions

LEMMA RefundedStep ==
  ASSUME IInv, IInv', DoneInv, [Next]_vars  PROVE RefundedIsBack'
<1>1. Typed /\ TypeOK /\ TypeOK'
  BY DEF IInv, Typed
<1>2. prefunded <= prefunded' /\ prefunded \in 0..Amount /\ prefunded' \in 0..Amount
        /\ Amount \in Nat
  BY <1>1, ProviderOnward, PaymentAssumption DEF TypeOK
<1>3. CASE pstatus' = "REFUNDED" => pstatus = "REFUNDED"
  BY <1>2, <1>3 DEF DoneInv, RefundedIsBack
<1>4. ASSUME NEW s \in Snapshot, NEW release, applyProviderSnapshot(s, release),
             s.refunded <= prefunded'
      PROVE  RefundedIsBack'
  BY <1>1, <1>2, <1>3, <1>4, RefundedBy DEF RefundedIsBack
<1>5. CASE CheckoutStep
  <2>1. CASE RecoverCreated
    <3> DEFINE s == [state |-> provider', refunded |-> prefunded]
    <3>1. applyProviderSnapshot(s, TRUE)
      BY <2>1 DEF RecoverCreated
    <3>2. s \in Snapshot
      <4>1. provider' \in PROVIDER_STATES \ {"none"}
        BY <1>1, <2>1, CreatedType DEF RecoverCreated, CreatePix, TypeOK
      <4>2. QED
        BY <1>1, <4>1 DEF Snapshot, TypeOK
    <3>3. QED
      BY <1>2, <1>4, <3>1, <3>2
  <2>2. CASE ~RecoverCreated
    BY <1>3, <1>5, <2>2
    DEF CheckoutStep, CreateAnswered, CreateUnanswered, CreateLands, CreateNeverLands,
        RecoverFound, RecoverLater, RecoverReview, RecoverExpired, RecoverCreateUncertain,
        ExpireUncreated, CreateRetry, CreateReview
  <2>3. QED
    BY <2>1, <2>2
<1>6. CASE ReadStep
  <2>1. ASSUME NEW r \in reads, ApplyRead(r)  PROVE RefundedIsBack'
    <3>1. r.snap \in Snapshot /\ applyProviderSnapshot(r.snap, TRUE) /\ Holds(r.snap)
      BY <1>1, <2>1 DEF ApplyRead, TypeOK, Read, DoneInv, SnapshotsHold
    <3>2. QED
      BY <1>1, <1>4, <3>1, HoldsOn DEF HoldsNext
  <2>2. ASSUME NEW r \in reads, DropRead(r) \/ RefreshFails(r)  PROVE RefundedIsBack'
    BY <1>3, <2>2 DEF DropRead, RefreshFails
  <2>3. CASE WebhookReads \/ RefreshReads
    BY <1>3, <2>3 DEF WebhookReads, RefreshReads
  <2>4. QED
    BY <1>6, <2>1, <2>2, <2>3 DEF ReadStep
<1>7. CASE QueueStep
  <2>1. ASSUME NEW w \in Workers, SettleOperation(w)  PROVE RefundedIsBack'
    <3> DEFINE s == worker[w].snap
    <3>1. s \in Snapshot /\ Holds(s)
      BY <1>1, <2>1 DEF SettleOperation, Typed, WorkersServe, Held, DoneInv, SnapshotsHold
    <3>2. applyProviderSnapshot(s, worker[w].key # "cancel")
      BY <2>1 DEF SettleOperation
    <3>3. QED
      BY <1>1, <1>4, <3>1, <3>2, HoldsOn DEF HoldsNext
  <2>2. CASE \A w \in Workers : ~SettleOperation(w)
    BY <1>1, <1>3, <1>7, <2>2, QueueSame DEF SameMoney
  <2>3. QED
    BY <2>1, <2>2
<1>8. CASE OrderStep \/ ProviderStep \/ UNCHANGED vars
  <2>1. pstatus' = pstatus
    BY <1>8
    DEF OrderStep, cancelCustomerOrder, expireAwaitingPayment, StoreCancels, failDelivery,
        StoreAccepts, completeDelivery, approveAmendment, Decide, ProviderStep, CustomerPays,
        ProviderDecides, ProviderMoves, RefundByHand, vars
  <2>2. QED
    BY <1>3, <2>1
<1>9. QED
  BY <1>5, <1>6, <1>7, <1>8 DEF Next

(* An operation is recorded as done by a worker that settles it.               *)
LEMMA DoneBySettling ==
  ASSUME Typed, [Next]_vars, NEW k \in Keys, opStatus'[k] = "SUCCEEDED",
         opStatus[k] # "SUCCEEDED"
  PROVE  \E w \in Workers : SettleOperation(w) /\ worker[w].key = k
<1>1. opStatus \in [Keys -> OPERATION_STATUSES]
  BY DEF Typed, TypeOK
<1>2. \A keys : Queued(keys)[k] # "SUCCEEDED"
  BY DEF Queued
<1>3. ~(opStatus' = opStatus)
  OBVIOUS
<1>4. ~CheckoutStep /\ ~ProviderStep /\ ~UNCHANGED vars
  BY <1>3
  DEF CheckoutStep, CreateAnswered, CreateUnanswered, CreateLands, CreateNeverLands,
      RecoverFound, RecoverLater, RecoverReview, RecoverExpired, RecoverCreated,
      RecoverCreateUncertain, ProviderStep, CustomerPays, ProviderDecides, ProviderMoves,
      RefundByHand, vars
<1>5. ASSUME ReadStep  PROVE FALSE
  <2>1. ASSUME NEW r \in reads, ApplyRead(r)  PROVE FALSE
    BY <1>2, <2>1 DEF ApplyRead, enqueuePaymentOperation
  <2>2. QED
    BY <1>3, <1>5, <2>1 DEF ReadStep, WebhookReads, RefreshReads, DropRead, RefreshFails
<1>6. ASSUME OrderStep  PROVE FALSE
  <2>1. ASSUME NEW status, NEW keys, Decide(status, keys)  PROVE FALSE
    BY <1>2, <2>1 DEF Decide, enqueuePaymentOperation
  <2>2. QED
    BY <1>6, <2>1
    DEF OrderStep, cancelCustomerOrder, expireAwaitingPayment, StoreCancels, failDelivery,
        StoreAccepts, completeDelivery, approveAmendment
<1>7. CASE QueueStep
  <2>1. ASSUME NEW w \in Workers, WorkerStep(w), ~SettleOperation(w)  PROVE FALSE
    <3>1. ASSUME NEW j \in Keys, ClaimOperation(w, j)  PROVE FALSE
      BY <1>1, <3>1 DEF ClaimOperation
    <3>2. ASSUME NEW j, NEW status, status # "SUCCEEDED", WriteStatus(j, status)  PROVE FALSE
      BY <1>1, <3>2 DEF WriteStatus
    <3>3. ASSUME NEW tries, RetryOperation(w, tries)  PROVE FALSE
      BY <3>2, <3>3 DEF RetryOperation, AfterRetry
    <3>4. ~ReviewOperation(w)
      BY <3>2 DEF ReviewOperation
    <3>5. QED
      BY <1>3, <2>1, <3>1, <3>3, <3>4
      DEF WorkerStep, LostClaim, NotActionable, BeginOperation, CallProvider, ReadBack,
          FailForGood, FailForNow, LookAgain, SettleFails, RecoveringFails, WorkerCrashes
  <2>2. ASSUME NEW w \in Workers, SettleOperation(w)  PROVE worker[w].key = k
    BY <1>1, <1>2, <2>2 DEF SettleOperation, Queued
  <2>3. ASSUME NEW j \in Keys, LeaseExpires(j)  PROVE FALSE
    BY <1>3, <2>3 DEF LeaseExpires
  <2>4. ASSUME recoverLeases  PROVE FALSE
    BY <1>1, <2>4 DEF recoverLeases
  <2>5. ASSUME propagateReviewedDependencies  PROVE FALSE
    BY <1>1, <2>5 DEF propagateReviewedDependencies
  <2>6. QED
    BY <1>7, <2>1, <2>2, <2>3, <2>4, <2>5 DEF QueueStep
<1>8. QED
  BY <1>4, <1>5, <1>6, <1>7 DEF Next

(* What is true of an operation that is recorded as done.                      *)
DoneNext(k) ==
  CASE k = "cancel" -> provider' \in {"cancelled", "rejected", "expired"}
                         \/ prefunded' = Amount \/ opStatus'["refund"] # "NONE"
    [] k = "refund" -> prefunded' = Amount
    [] OTHER -> prefunded' >= opTarget'[k]

(* A row keeps what it was queued with.                                        *)
LEMMA RowKeeps ==
  ASSUME [Next]_vars, NEW k \in Keys, opStatus[k] # "NONE"
  PROVE  opTarget'[k] = opTarget[k] /\ opDep'[k] = opDep[k]
<1> DEFINE stays == opTarget'[k] = opTarget[k] /\ opDep'[k] = opDep[k]
<1>1. ASSUME NEW keys, Register(keys)  PROVE stays
  BY <1>1 DEF Register, Existing
<1>2. CASE UNCHANGED <<opTarget, opDep>>
  BY <1>2
<1>3. CASE CheckoutStep \/ ProviderStep \/ UNCHANGED vars
  BY <1>2, <1>3
  DEF CheckoutStep, CreateAnswered, CreateUnanswered, CreateLands, CreateNeverLands,
      RecoverFound, RecoverLater, RecoverReview, RecoverExpired, RecoverCreated,
      RecoverCreateUncertain, ProviderStep, CustomerPays, ProviderDecides, ProviderMoves,
      RefundByHand, vars
<1>4. CASE ReadStep
  BY <1>1, <1>2, <1>4
  DEF ReadStep, WebhookReads, RefreshReads, DropRead, RefreshFails, ApplyRead,
      enqueuePaymentOperation
<1>5. CASE OrderStep
  <2>1. ASSUME NEW status, NEW keys, Decide(status, keys)  PROVE stays
    BY <1>1, <2>1 DEF Decide, enqueuePaymentOperation
  <2>2. QED
    BY <1>5, <2>1
    DEF OrderStep, cancelCustomerOrder, expireAwaitingPayment, StoreCancels, failDelivery,
        StoreAccepts, completeDelivery, approveAmendment
<1>6. CASE QueueStep
  <2>1. ASSUME NEW w \in Workers, SettleOperation(w)  PROVE stays
    BY <1>1, <2>1 DEF SettleOperation
  <2>2. ASSUME NEW w \in Workers, WorkerStep(w), ~SettleOperation(w)
        PROVE  UNCHANGED <<opTarget, opDep>>
    BY <2>2
    DEF WorkerStep, ClaimOperation, LostClaim, NotActionable, BeginOperation, CallProvider,
        ReadBack, FailForGood, FailForNow, LookAgain, SettleFails, RecoveringFails,
        WorkerCrashes, ReviewOperation, RetryOperation, WriteStatus
  <2>3. ASSUME NEW j \in Keys, LeaseExpires(j)  PROVE UNCHANGED <<opTarget, opDep>>
    BY <2>3 DEF LeaseExpires
  <2>4. ASSUME recoverLeases \/ propagateReviewedDependencies  PROVE UNCHANGED <<opTarget, opDep>>
    BY <2>4 DEF recoverLeases, propagateReviewedDependencies
  <2>5. QED
    BY <1>2, <1>6, <2>1, <2>2, <2>3, <2>4 DEF QueueStep
<1>7. QED
  BY <1>3, <1>4, <1>5, <1>6 DEF Next

LEMMA SettledIsDone ==
  ASSUME IInv, IInv', DoneInv, [Next]_vars, NEW w \in Workers, SettleOperation(w),
         opStatus'[worker[w].key] = "SUCCEEDED"
  PROVE  DoneNext(worker[w].key)
<1> DEFINE k == worker[w].key
           s == worker[w].snap
           owed == OwedBySettling(k, s)
           outcome == evaluateOperation(k, s)
           decision == validateSnapshot(s)
<1>1. Typed /\ TypeOK /\ TypeOK' /\ k \in Keys /\ opStatus[k] # "NONE" /\ s \in Snapshot /\ Holds(s)
  BY Serves DEF IInv, Typed, WorkersServe, Held, Existing, SettleOperation, DoneInv, SnapshotsHold
<1>2. HoldsNext(s)
  BY <1>1, HoldsOn
<1>3. Amount \in Nat /\ prefunded' \in 0..Amount /\ s.refunded \in 0..Amount
  BY <1>1, PaymentAssumption DEF TypeOK, Snapshot
<1>4. outcome \in {"ESCALATE", "SUCCEEDED"}
  <2>1. Queued(owed) \in [Keys -> OPERATION_STATUSES]
    BY <1>1, QueuedType
  <2>2. opStatus' = [Queued(owed) EXCEPT ![k] = Settled(outcome, worker[w].tries)]
    BY DEF SettleOperation
  <2>3. Settled(outcome, worker[w].tries) = "SUCCEEDED"
    BY <1>1, <2>1, <2>2
  <2>4. QED
    BY <2>3 DEF Settled, AfterRetry
<1>5. /\ decision = "REFUNDED" => s.refunded = Amount
      /\ decision \in NotCharged => s.state \in Unpaid
      /\ decision \in Decisions
  BY <1>1, DecisionType DEF validateSnapshot, NotCharged, Accredited, Unpaid
<1>6. opTarget'[k] = opTarget[k] /\ opTarget[k] \in 0..Amount
  BY <1>1, RowKeeps DEF TypeOK
<1>7. CASE k = "cancel"
  <2>1. CASE decision = "REFUNDED"
    BY <1>2, <1>3, <1>5, <1>7, <2>1 DEF HoldsNext, DoneNext
  <2>2. CASE decision \in NotCharged
    BY <1>2, <1>5, <1>7, <2>2 DEF HoldsNext, DoneNext, Unpaid
  <2>3. CASE decision \in {"APPROVED", "PARTIALLY_REFUNDED"}
    <3>1. outcome = "ESCALATE"
      BY <1>7, <2>3 DEF evaluateOperation, AfterCancel, NotCharged
    <3>2. CASE IsStale(s)
      <4>1. pstatus = "REFUNDED"
        BY <2>3, <3>2 DEF IsStale, NotCharged
      <4>2. prefunded = Amount
        BY <4>1 DEF DoneInv, RefundedIsBack
      <4>3. prefunded' = Amount
        BY <1>1, <1>3, <4>2, ProviderOnward
      <4>4. QED
        BY <1>7, <4>3 DEF DoneNext
    <3>3. CASE ~IsStale(s)
      <4>1. StatusAfter(s) = "APPROVED"
        BY <2>3 DEF StatusAfter, Paid
      <4>2. owed = {"refund"}
        BY <1>7, <3>1, <3>3, <4>1 DEF OwedBySettling, Disposition
      <4>3. Queued(owed)["refund"] # "NONE" /\ Queued(owed) \in [Keys -> OPERATION_STATUSES]
        BY <1>1, <4>2, QueuedRows, SpecialKeys, QueuedType
      <4>4. opStatus'["refund"] # "NONE"
        BY <1>7, <4>3, SpecialKeys DEF SettleOperation
      <4>5. QED
        BY <1>7, <4>4 DEF DoneNext
    <3>4. QED
      BY <3>2, <3>3
  <2>4. decision # "PENDING" /\ decision # "REVIEW_REQUIRED"
    BY <1>4, <1>7 DEF evaluateOperation, AfterCancel, NotCharged
  <2>5. QED
    BY <1>5, <2>1, <2>2, <2>3, <2>4 DEF Decisions, NotCharged
<1>8. CASE k = "refund"
  <2>1. decision = "REFUNDED"
    BY <1>4, <1>8 DEF evaluateOperation, AfterRefund
  <2>2. QED
    BY <1>2, <1>3, <1>5, <1>8, <2>1 DEF HoldsNext, DoneNext
<1>9. CASE k \notin {"cancel", "refund"}
  <2>1. s.refunded = opTarget[k]
    BY <1>4, <1>9 DEF evaluateOperation, AfterPartialRefund
  <2>2. prefunded' >= opTarget'[k]
    BY <1>2, <1>3, <1>6, <2>1 DEF HoldsNext
  <2>3. QED
    BY <1>9, <2>2 DEF DoneNext
<1>10. QED
  BY <1>7, <1>8, <1>9

(* What is done at the provider stays done.                                    *)
LEMMA DoneStays ==
  ASSUME Typed, TypeOK', [Next]_vars, NEW k \in Existing, Done(k)  PROVE DoneNext(k)
<1>1. TypeOK /\ Amount \in Nat /\ k \in Keys /\ opStatus[k] # "NONE"
  BY PaymentAssumption DEF Typed, Existing
<1>2. prefunded <= prefunded' /\ (provider \in Unpaid => provider' = provider)
  BY ProviderOnward
<1>3. opTarget'[k] = opTarget[k] /\ opTarget[k] \in 0..Amount
  BY <1>1, RowKeeps DEF TypeOK
<1>4. prefunded \in 0..Amount /\ prefunded' \in 0..Amount
  BY <1>1 DEF TypeOK
<1>5. opStatus["refund"] # "NONE" => opStatus'["refund"] # "NONE"
  BY <1>1, RowsStep, SpecialKeys DEF RowsStay
<1>6. CASE k = "cancel"
  BY <1>1, <1>2, <1>4, <1>5, <1>6 DEF Done, DoneNext, Unpaid
<1>7. CASE k = "refund"
  BY <1>1, <1>2, <1>4, <1>7 DEF Done, DoneNext
<1>8. CASE k \notin {"cancel", "refund"}
  BY <1>1, <1>2, <1>3, <1>4, <1>8 DEF Done, DoneNext
<1>9. QED
  BY <1>6, <1>7, <1>8

LEMMA DoneStep ==
  ASSUME IInv, IInv', DoneInv, [Next]_vars  PROVE DoneInv'
<1>1. Typed /\ TypeOK'
  BY DEF IInv, Typed
<1>2. ASSUME NEW k \in Keys, opStatus'[k] = "SUCCEEDED"  PROVE DoneNext(k)
  <2>1. CASE opStatus[k] = "SUCCEEDED"
    <3>1. k \in Existing /\ Done(k)
      BY <2>1 DEF Existing, DoneInv, SucceededMeansDone
    <3>2. QED
      BY <1>1, <3>1, DoneStays
  <2>2. CASE opStatus[k] # "SUCCEEDED"
    <3>1. PICK w \in Workers : SettleOperation(w) /\ worker[w].key = k
      BY <1>1, <1>2, <2>2, DoneBySettling
    <3>2. QED
      BY <1>2, <3>1, SettledIsDone
  <2>3. QED
    BY <2>1, <2>2
<1>3. SucceededMeansDone'
  BY <1>2 DEF SucceededMeansDone, Done, DoneNext
<1>4. QED
  BY <1>3, SnapshotsHoldOn, RefundedStep DEF DoneInv

LEMMA DoneInit == Init => DoneInv
BY DEF Init, DoneInv, SnapshotsHold, RefundedIsBack, SucceededMeansDone, Held, Idle

(* What the queue records as done is done at the provider, however many        *)
(* workers, with their leases or without, call it and settle what they read    *)
(* (settleSnapshot).                                                           *)
THEOREM DoneIsDone == Spec => []SucceededMeansDone
<1>1. IInv /\ IInv' /\ DoneInv /\ [Next]_vars => DoneInv'
  BY DoneStep
<1>2. DoneInv => SucceededMeansDone
  BY DEF DoneInv
<1>3. QED
  BY <1>1, <1>2, DoneInit, Invariance, PTL DEF Spec

-------------------------------------------------------------------------------
(* One operation after the other.  Only a claim begins an operation, and it    *)
(* finds the predecessor recorded as done.  The record may be rewritten by a   *)
(* worker that settles late; what it said stays so at the provider.            *)
AfterItsPredecessor(k) == opDep[k] # Null => opDep[k] \in Existing /\ Done(opDep[k])

TurnInv == applied \subseteq Existing /\ \A k \in Keys : Begun(k) => AfterItsPredecessor(k)

(* What a step may begin when it claims nothing: k was begun already.          *)
BegunNext(k) ==
  \/ opStatus'[k] \in {"PROCESSING", "SUCCEEDED"}
  \/ k \in applied'
  \/ \E w \in Workers : worker'[w].pc # "idle" /\ worker'[w].key = k

LEMMA QueuedIsNotBegun ==
  ASSUME NEW keys, NEW k \in Keys, Queued(keys)[k] \in {"PROCESSING", "SUCCEEDED"}
  PROVE  opStatus[k] = Queued(keys)[k]
BY DEF Queued

LEMMA WorkerBegins ==
  ASSUME Typed, NEW w \in Workers, WorkerStep(w), NEW k \in Keys, BegunNext(k), ~Begun(k)
  PROVE  ClaimOperation(w, k)
<1> DEFINE j == worker[w].key
<1>1. TypeOK /\ (worker[w].pc # "idle" => j # k /\ j \in Keys)
  BY Serves DEF Begun, Typed
<1>2. ASSUME opStatus'[k] = opStatus[k], k \in applied' => k \in applied,
             NEW v, worker' = [worker EXCEPT ![w] = v], v.pc = "idle" \/ v.key = j,
             worker[w].pc # "idle"
      PROVE  FALSE
  <2>1. \A u \in Workers : u # w => worker'[u] = worker[u]
    BY <1>1, <1>2 DEF TypeOK
  <2>2. worker'[w] = v
    BY <1>1, <1>2 DEF TypeOK
  <2>3. QED
    BY <1>1, <1>2, <2>1, <2>2 DEF Begun, BegunNext
<1>3. ASSUME Rest(w), opStatus'[k] = opStatus[k], applied' = applied, worker[w].pc # "idle"
      PROVE  FALSE
  BY <1>2, <1>3 DEF Rest, Idle
<1>4. ASSUME NEW status, WriteStatus(j, status), Rest(w), applied' = applied,
             worker[w].pc # "idle"
      PROVE  FALSE
  <2>1. opStatus'[k] = opStatus[k]
    BY <1>1, <1>4 DEF WriteStatus, TypeOK
  <2>2. QED
    BY <1>3, <1>4, <2>1
<1>5. ASSUME NEW i \in Keys, ClaimOperation(w, i), i # k  PROVE FALSE
  <2> DEFINE v == [Idle EXCEPT !.pc = "claimed", !.key = i]
  <2>1. worker' = [worker EXCEPT ![w] = v] /\ v.key = i /\ opStatus'[k] = opStatus[k]
          /\ applied' = applied
    BY <1>1, <1>5 DEF ClaimOperation, Idle, TypeOK
  <2>2. \A u \in Workers : u # w => worker'[u] = worker[u]
    BY <1>1, <2>1 DEF TypeOK
  <2>3. worker'[w].key = i
    BY <1>1, <2>1 DEF TypeOK
  <2>4. QED
    BY <1>5, <2>1, <2>2, <2>3 DEF Begun, BegunNext
<1>6. ASSUME LostClaim(w) \/ SettleFails(w) \/ WorkerCrashes(w)  PROVE FALSE
  BY <1>3, <1>6 DEF LostClaim, SettleFails, WorkerCrashes
<1>7. ASSUME NotActionable(w) \/ FailForGood(w)  PROVE FALSE
  BY <1>4, <1>7 DEF NotActionable, FailForGood, Reading, ReviewOperation
<1>8. ASSUME FailForNow(w) \/ RecoveringFails(w)  PROVE FALSE
  BY <1>4, <1>8 DEF FailForNow, Reading, RecoveringFails, RetryOperation
<1>9. ASSUME BeginOperation(w)  PROVE FALSE
  <2> DEFINE looksDone == j = "cancel" /\ provider # "actionable"
             v == [pc |-> IF looksDone THEN "settling" ELSE "calling", key |-> j,
                   tries |-> opTries[j], snap |-> IF looksDone THEN Now ELSE Null]
  <2>1. worker' = [worker EXCEPT ![w] = v] /\ v.key = j /\ worker[w].pc # "idle"
          /\ opStatus' = opStatus /\ applied' = applied
    BY <1>9 DEF BeginOperation
  <2> HIDE DEF v
  <2>2. QED
    BY <1>2, <2>1
<1>10. ASSUME LookAgain(w)  PROVE FALSE
  <2> DEFINE v == [pc |-> "recovering", key |-> j, tries |-> TriesOf(w), snap |-> Now]
  <2>1. worker' = [worker EXCEPT ![w] = v] /\ v.key = j /\ worker[w].pc # "idle"
          /\ opStatus' = opStatus /\ applied' = applied
    BY <1>10 DEF LookAgain, Reading
  <2> HIDE DEF v
  <2>2. QED
    BY <1>2, <2>1
<1>11. ASSUME CallProvider(w)  PROVE FALSE
  <2> DEFINE v == [worker[w] EXCEPT !.pc = "reading"]
  <2>1. worker' = [worker EXCEPT ![w] = v] /\ v.key = j /\ worker[w].pc # "idle"
          /\ opStatus' = opStatus
    BY <1>1, <1>11 DEF CallProvider, TypeOK, Working
  <2>2. k \in applied' => k \in applied
    BY <1>1, <1>11, <2>1 DEF CallProvider, ProviderCarriesOut
  <2> HIDE DEF v
  <2>3. QED
    BY <1>2, <2>1, <2>2
<1>12. ASSUME ReadBack(w)  PROVE FALSE
  <2> DEFINE v == [worker[w] EXCEPT !.pc = "settling", !.snap = Now]
  <2>1. worker' = [worker EXCEPT ![w] = v] /\ v.key = j /\ worker[w].pc # "idle"
          /\ opStatus' = opStatus /\ applied' = applied
    BY <1>1, <1>12 DEF ReadBack, TypeOK, Working
  <2> HIDE DEF v
  <2>2. QED
    BY <1>2, <2>1
<1>13. ASSUME SettleOperation(w)  PROVE FALSE
  <2> DEFINE owed == OwedBySettling(j, worker[w].snap)
             status == Settled(evaluateOperation(j, worker[w].snap), worker[w].tries)
  <2>1. worker[w].pc # "idle" /\ Rest(w) /\ applied' = applied
          /\ opStatus' = [Queued(owed) EXCEPT ![j] = status]
    BY <1>13 DEF SettleOperation
  <2> HIDE DEF owed, status
  <2>2. opStatus'[k] = Queued(owed)[k]
    BY <1>1, <2>1 DEF Queued
  <2>3. opStatus'[k] \notin {"PROCESSING", "SUCCEEDED"}
    BY <2>2, QueuedIsNotBegun DEF Begun
  <2>4. \A u \in Workers : u # w => worker'[u] = worker[u]
    BY <1>1, <2>1 DEF TypeOK, Rest
  <2>5. worker'[w].pc = "idle"
    BY <1>1, <2>1 DEF TypeOK, Rest, Idle
  <2>6. QED
    BY <2>1, <2>3, <2>4, <2>5 DEF Begun, BegunNext
<1>14. QED
  BY <1>5, <1>6, <1>7, <1>8, <1>9, <1>10, <1>11, <1>12, <1>13 DEF WorkerStep

LEMMA OnlyClaimsBegin ==
  ASSUME Typed, [Next]_vars, NEW k \in Keys, BegunNext(k), ~Begun(k)
  PROVE  \E w \in Workers : ClaimOperation(w, k)
<1>1. ASSUME UNCHANGED <<worker, applied>>,
             opStatus'[k] \in {"PROCESSING", "SUCCEEDED"} => opStatus[k] = opStatus'[k]
      PROVE  FALSE
  BY <1>1 DEF Begun, BegunNext
<1>2. ASSUME NEW keys, enqueuePaymentOperation(keys), UNCHANGED <<worker, applied>>  PROVE FALSE
  BY <1>1, <1>2, QueuedIsNotBegun DEF enqueuePaymentOperation
<1>3. ASSUME CheckoutStep \/ ProviderStep \/ UNCHANGED vars  PROVE FALSE
  BY <1>1, <1>3
  DEF CheckoutStep, CreateAnswered, CreateUnanswered, CreateLands, CreateNeverLands,
      RecoverFound, RecoverLater, RecoverReview, RecoverExpired, RecoverCreated,
      RecoverCreateUncertain, CreatePix, ProviderStep, CustomerPays, ProviderDecides,
      ProviderMoves, RefundByHand, vars
<1>4. ASSUME ReadStep  PROVE FALSE
  BY <1>1, <1>2, <1>4
  DEF ReadStep, WebhookReads, RefreshReads, DropRead, RefreshFails, ApplyRead
<1>5. ASSUME OrderStep  PROVE FALSE
  <2>1. ASSUME NEW status, NEW keys, Decide(status, keys)  PROVE FALSE
    BY <1>2, <2>1 DEF Decide
  <2>2. QED
    BY <1>5, <2>1
    DEF OrderStep, cancelCustomerOrder, expireAwaitingPayment, StoreCancels, failDelivery,
        StoreAccepts, completeDelivery, approveAmendment
<1>6. ASSUME NEW j \in Keys, LeaseExpires(j)  PROVE FALSE
  BY <1>1, <1>6 DEF LeaseExpires
<1>7. ASSUME recoverLeases  PROVE FALSE
  BY <1>1, <1>7 DEF recoverLeases
<1>8. ASSUME propagateReviewedDependencies  PROVE FALSE
  BY <1>1, <1>8 DEF propagateReviewedDependencies
<1>9. QED
  BY <1>3, <1>4, <1>5, <1>6, <1>7, <1>8, WorkerBegins DEF Next, QueueStep

(* The provider is asked only for what has a row.                              *)
LEMMA AppliedHasRow ==
  ASSUME Typed, [Next]_vars, applied \subseteq Existing  PROVE applied' \subseteq Existing'
<1>1. Existing \subseteq Existing'
  BY RowsStep DEF RowsStay, Existing
<1>2. SUFFICES ASSUME NEW k \in applied', k \notin applied  PROVE k \in Existing
  BY <1>1
<1>3. CASE CheckoutStep
  BY <1>2, <1>3
  DEF CheckoutStep, CreateAnswered, CreateUnanswered, CreateLands, CreateNeverLands,
      RecoverFound, RecoverLater, RecoverReview, RecoverExpired, RecoverCreated,
      RecoverCreateUncertain, CreatePix
<1>4. CASE ReadStep \/ OrderStep
  BY <1>2, <1>4
  DEF ReadStep, WebhookReads, RefreshReads, ApplyRead, DropRead, RefreshFails, OrderStep,
      cancelCustomerOrder, expireAwaitingPayment, StoreCancels, failDelivery, StoreAccepts,
      completeDelivery, approveAmendment, Decide
<1>5. CASE QueueStep
  <2>1. ASSUME NEW w \in Workers, CallProvider(w)  PROVE k \in Existing
    <3>1. k = worker[w].key /\ worker[w].pc # "idle"
      BY <1>2, <2>1 DEF CallProvider, ProviderCarriesOut
    <3>2. QED
      BY <3>1 DEF Typed, WorkersServe
  <2>2. ASSUME NEW w \in Workers, WorkerStep(w), ~CallProvider(w)  PROVE applied' = applied
    BY <2>2
    DEF WorkerStep, ClaimOperation, LostClaim, NotActionable, BeginOperation, ReadBack,
        FailForGood, FailForNow, LookAgain, SettleOperation, SettleFails, RecoveringFails,
        WorkerCrashes, ReviewOperation, RetryOperation
  <2>3. ASSUME NEW j \in Keys, LeaseExpires(j)  PROVE applied' = applied
    BY <2>3 DEF LeaseExpires
  <2>4. ASSUME recoverLeases \/ propagateReviewedDependencies  PROVE applied' = applied
    BY <2>4 DEF recoverLeases, propagateReviewedDependencies
  <2>5. QED
    BY <1>2, <1>5, <2>1, <2>2, <2>3, <2>4 DEF QueueStep
<1>6. CASE ProviderStep \/ UNCHANGED vars
  BY <1>2, <1>6 DEF ProviderStep, CustomerPays, ProviderDecides, ProviderMoves, RefundByHand, vars
<1>7. QED
  BY <1>3, <1>4, <1>5, <1>6 DEF Next

LEMMA TurnStep ==
  ASSUME IInv, IInv', DoneInv, TurnInv, [Next]_vars  PROVE TurnInv'
<1>1. Typed /\ TypeOK /\ TypeOK'
  BY DEF IInv, Typed
<1>2. applied' \subseteq Existing'
  BY <1>1, AppliedHasRow DEF TurnInv
<1>3. ASSUME NEW k \in Keys, BegunNext(k), opDep'[k] # Null
      PROVE  opDep'[k] \in Existing' /\ DoneNext(opDep'[k])
  <2>1. k \in Existing /\ (opDep[k] # Null => opDep[k] \in Existing /\ Done(opDep[k]))
    <3>1. CASE Begun(k)
      BY <1>1, <3>1 DEF Begun, TurnInv, AfterItsPredecessor, Existing, Typed, WorkersServe
    <3>2. CASE ~Begun(k)
      <4>1. k \in Existing /\ (opDep[k] # Null => opStatus[opDep[k]] = "SUCCEEDED")
        BY <1>1, <1>3, <3>2, OnlyClaimsBegin DEF ClaimOperation, PredecessorDone, Existing
      <4>2. opDep[k] # Null => opDep[k] \in Keys
        BY <1>1 DEF TypeOK
      <4>3. QED
        BY <4>1, <4>2 DEF Existing, DoneInv, SucceededMeansDone
    <3>3. QED
      BY <3>1, <3>2
  <2>2. opDep'[k] = opDep[k]
    BY <2>1, RowKeeps DEF Existing
  <2>3. opDep[k] \in Existing /\ Done(opDep[k])
    BY <1>3, <2>1, <2>2
  <2>4. DoneNext(opDep[k])
    BY <1>1, <2>3, DoneStays
  <2>5. opDep[k] \in Existing'
    BY <1>1, <2>3, RowsStep DEF RowsStay, Existing
  <2>6. QED
    BY <2>2, <2>4, <2>5
<1>4. QED
  BY <1>2, <1>3 DEF TurnInv, AfterItsPredecessor, Begun, BegunNext, Done, DoneNext

LEMMA TurnInit == Init => TurnInv
BY DEF Init, TurnInv, Begun, Idle

(* The provider is asked for an operation only once what the one before it was *)
(* for is so, although a batch may outlive its lease, a second worker take its *)
(* operation over and the first one settle all the same                        *)
(* (enqueuePaymentOperation, claimDueOperations, settleSnapshot).              *)
THEOREM OneAfterTheOther == Spec => []EffectsInTurn
<1>1. IInv /\ IInv' /\ DoneInv /\ TurnInv /\ [Next]_vars => TurnInv'
  BY TurnStep
<1>2. IInv /\ IInv' /\ DoneInv /\ [Next]_vars => DoneInv'
  BY DoneStep
<1>3. TurnInv => EffectsInTurn
  BY DEF TurnInv, AfterItsPredecessor, EffectsInTurn
<1>4. QED
  BY <1>1, <1>2, <1>3, DoneInit, TurnInit, Invariance, PTL DEF Spec

-------------------------------------------------------------------------------
(* What comes back.  While nobody refunds by hand, the provider has given back *)
(* what the amendments it carried out add up to, and only of an order that has *)
(* ended everything.                                                           *)
Ended == {"CANCELLED", "DELIVERY_FAILED"}

RefundOfEnded == opStatus["refund"] # "NONE" => order \in Ended

GivenBack == "refund" \notin applied => prefunded = SumOf(applied \cap Amendments)

BackInv == applied \subseteq Existing /\ RefundOfEnded /\ GivenBack

(* SumOf is a sum: one for all sets of amendments.                             *)
LEMMA AmendmentsAddUp ==
  \E g : AddsUp(g, AmendCents, Amendments) /\ \A ks : SumOf(ks) = g[ks]
<1> DEFINE adds(g) == g = [s \in SUBSET Amendments |->
                             IF s = {} THEN 0
                             ELSE LET k == CHOOSE k \in s : TRUE IN AmendCents[k] + g[s \ {k}]]
           sum == CHOOSE g : adds(g)
<1>1. \A g : adds(g) <=> AddsUp(g, AmendCents, Amendments)
  BY DEF AddsUp, Pick
<1>2. \E g : AddsUp(g, AmendCents, Amendments)
  BY SumExists, PaymentAssumption
<1>3. adds(sum)
  <2> HIDE DEF adds
  <2>1. \E g : adds(g)
    BY <1>1, <1>2
  <2>2. QED
    BY <2>1
<1>4. \A ks : SumOf(ks) = sum[ks]
  BY DEF SumOf
<1>5. QED
  BY <1>1, <1>3, <1>4

LEMMA CentsPositive == \A a \in Amendments : AmendCents[a] \in Nat
BY PaymentAssumption

LEMMA OneMoreAmendment ==
  ASSUME NEW s \in SUBSET Amendments, NEW a \in Amendments \ s
  PROVE  SumOf(s \cup {a}) = AmendCents[a] + SumOf(s)
<1>1. PICK g : AddsUp(g, AmendCents, Amendments) /\ \A ks : SumOf(ks) = g[ks]
  BY AmendmentsAddUp
<1>2. \A x \in Amendments : AmendCents[x] \in Int
  BY CentsPositive
<1>3. g[s \cup {a}] = AmendCents[a] + g[s]
  BY <1>1, <1>2, SumAdds, PaymentAssumption
<1>4. QED
  BY <1>1, <1>3

LEMMA MoreAmendments ==
  ASSUME NEW t \in SUBSET Amendments, NEW s \in SUBSET t  PROVE SumOf(s) <= SumOf(t)
<1>1. PICK g : AddsUp(g, AmendCents, Amendments) /\ \A ks : SumOf(ks) = g[ks]
  BY AmendmentsAddUp
<1>2. g[s] <= g[t]
  BY <1>1, CentsPositive, SumGrows, PaymentAssumption
<1>3. QED
  BY <1>1, <1>2

LEMMA NoAmendments == SumOf({}) = 0
<1>1. PICK g : AddsUp(g, AmendCents, Amendments) /\ \A ks : SumOf(ks) = g[ks]
  BY AmendmentsAddUp
<1>2. g[{}] = 0
  BY <1>1, SumUnfolds
<1>3. QED
  BY <1>1, <1>2

(* Only a call of a worker changes what has been given back and why.           *)
LEMMA ProviderStands ==
  ASSUME Typed, ~MerchantRefunds, [Next]_vars, \A w \in Workers : ~CallProvider(w)
  PROVE  UNCHANGED <<prefunded, applied>>
<1>1. CASE CheckoutStep
  BY <1>1
  DEF CheckoutStep, CreateAnswered, CreateUnanswered, CreateLands, CreateNeverLands,
      RecoverFound, RecoverLater, RecoverReview, RecoverExpired, RecoverCreated,
      RecoverCreateUncertain, CreatePix
<1>2. CASE ReadStep \/ OrderStep
  BY <1>2
  DEF ReadStep, WebhookReads, RefreshReads, ApplyRead, DropRead, RefreshFails, OrderStep,
      cancelCustomerOrder, expireAwaitingPayment, StoreCancels, failDelivery, StoreAccepts,
      completeDelivery, approveAmendment, Decide
<1>3. CASE QueueStep
  <2>1. ASSUME NEW w \in Workers, WorkerStep(w)  PROVE UNCHANGED <<prefunded, applied>>
    BY <2>1
    DEF WorkerStep, ClaimOperation, LostClaim, NotActionable, BeginOperation, ReadBack,
        FailForGood, FailForNow, LookAgain, SettleOperation, SettleFails, RecoveringFails,
        WorkerCrashes, ReviewOperation, RetryOperation
  <2>2. ASSUME NEW k \in Keys, LeaseExpires(k)  PROVE UNCHANGED <<prefunded, applied>>
    BY <2>2 DEF LeaseExpires
  <2>3. ASSUME recoverLeases \/ propagateReviewedDependencies
        PROVE  UNCHANGED <<prefunded, applied>>
    BY <2>3 DEF recoverLeases, propagateReviewedDependencies
  <2>4. QED
    BY <1>3, <2>1, <2>2, <2>3 DEF QueueStep
<1>4. CASE ProviderStep \/ UNCHANGED vars
  BY <1>4 DEF ProviderStep, CustomerPays, ProviderDecides, ProviderMoves, RefundByHand, vars
<1>5. QED
  BY <1>1, <1>2, <1>3, <1>4 DEF Next

(* A call gives back one amendment it had not given back, or the whole.        *)
LEMMA CallGivesBack ==
  ASSUME Typed, applied \subseteq Existing, GivenBack, NEW w \in Workers, CallProvider(w)
  PROVE  (applied' \subseteq Existing)  /\ GivenBack'
<1> DEFINE k == worker[w].key
<1>1. k \in Existing /\ k \in Keys
  BY Serves DEF CallProvider, Typed, WorkersServe
<1>2. CASE UNCHANGED external
  BY <1>2 DEF GivenBack
<1>3. CASE ProviderCarriesOut(k)
  <2>1. k \notin applied /\ applied' = applied \cup {k}
    BY <1>3 DEF ProviderCarriesOut, AlreadyApplied
  <2>2. applied' \subseteq Existing
    BY <1>1, <2>1
  <2>3. CASE k = "refund"
    BY <2>1, <2>2, <2>3 DEF GivenBack
  <2>4. CASE k = "cancel"
    <3>1. prefunded' = prefunded
      BY <1>3, <2>4 DEF ProviderCarriesOut
    <3>2. applied' \cap Amendments = applied \cap Amendments
      BY <2>1, <2>4, PaymentAssumption
    <3>3. QED
      BY <2>1, <2>2, <3>1, <3>2 DEF GivenBack
  <2>5. CASE k \in Amendments
    <3>1. k # "cancel" /\ k # "refund"
      BY <2>5, PaymentAssumption
    <3>2. prefunded' = prefunded + AmendCents[k]
      BY <1>3, <3>1 DEF ProviderCarriesOut
    <3>3. applied' \cap Amendments = (applied \cap Amendments) \cup {k}
      BY <2>1, <2>5
    <3>4. SumOf((applied \cap Amendments) \cup {k}) = AmendCents[k] + SumOf(applied \cap Amendments)
      BY <2>1, <2>5, OneMoreAmendment
    <3>5. prefunded \in Int /\ AmendCents[k] \in Int
      BY <2>5, CentsPositive DEF Typed, TypeOK
    <3>6. SumOf(applied \cap Amendments)' = AmendCents[k] + SumOf(applied \cap Amendments)
      <4> DEFINE before == applied \cap Amendments
      <4>1. SumOf(applied \cap Amendments)' = SumOf(before \cup {k})
        BY <3>3 DEF SumOf
      <4>2. QED
        BY <3>4, <4>1
    <3>7. SUFFICES ASSUME "refund" \notin applied'
                   PROVE  prefunded' = SumOf(applied \cap Amendments)'
      BY <2>2 DEF GivenBack
    <3>8. prefunded = SumOf(applied \cap Amendments)
      BY <2>1, <3>7 DEF GivenBack
    <3>9. QED
      BY <3>2, <3>5, <3>6, <3>8
  <2>6. QED
    BY <1>1, <2>3, <2>4, <2>5 DEF Keys
<1>4. QED
  BY <1>2, <1>3 DEF CallProvider

(* The full refund is queued for an order that has ended.                      *)
LEMMA RefundNeedsEnd ==
  ASSUME IInv, RefundOfEnded, [Next]_vars  PROVE RefundOfEnded'
<1>1. NothingUndone
  BY MoneyStep DEF MoneyHolds
<1>2. order \in Ended => order' \in Ended
  BY <1>1 DEF NothingUndone, Ended
<1>3. CASE opStatus'["refund"] # "NONE" => opStatus["refund"] # "NONE" \/ order = "CANCELLED"
  BY <1>2, <1>3 DEF RefundOfEnded, Ended
<1>4. ASSUME NEW keys, enqueuePaymentOperation(keys), "refund" \in keys => order = "CANCELLED"
      PROVE  RefundOfEnded'
  BY <1>3, <1>4, SpecialKeys, QueuedRows DEF enqueuePaymentOperation
<1>5. CASE CheckoutStep \/ ProviderStep \/ UNCHANGED vars
  BY <1>3, <1>5
  DEF CheckoutStep, CreateAnswered, CreateUnanswered, CreateLands, CreateNeverLands,
      RecoverFound, RecoverLater, RecoverReview, RecoverExpired, RecoverCreated,
      RecoverCreateUncertain, ProviderStep, CustomerPays, ProviderDecides, ProviderMoves,
      RefundByHand, vars
<1>6. CASE ReadStep
  <2>1. ASSUME NEW r \in reads, ApplyRead(r)  PROVE RefundOfEnded'
    <3>1. enqueuePaymentOperation(OwedAfter(r.snap))
      BY <2>1 DEF ApplyRead
    <3>2. "refund" \in OwedAfter(r.snap) => order = "CANCELLED"
      BY DEF OwedAfter
    <3>3. QED
      BY <1>4, <3>1, <3>2
  <2>2. QED
    BY <1>3, <1>6, <2>1 DEF ReadStep, WebhookReads, RefreshReads, DropRead, RefreshFails
<1>7. CASE OrderStep
  <2>1. ASSUME NEW status \in Ended, Decide(status, Owed)  PROVE RefundOfEnded'
    BY <2>1 DEF Decide, RefundOfEnded
  <2>2. ASSUME NEW status, NEW keys, "refund" \notin keys, Decide(status, keys)
        PROVE  RefundOfEnded'
    <3>1. enqueuePaymentOperation(keys)
      BY <2>2 DEF Decide
    <3>2. QED
      BY <1>4, <2>2, <3>1
  <2>3. ASSUME NEW a \in Amendments, approveAmendment(a)  PROVE RefundOfEnded'
    BY <2>2, <2>3, AmendmentIsNeither DEF approveAmendment
  <2>4. QED
    BY <1>7, <2>1, <2>2, <2>3
    DEF OrderStep, cancelCustomerOrder, expireAwaitingPayment, StoreCancels, failDelivery,
        StoreAccepts, completeDelivery, Ended
<1>8. CASE QueueStep
  <2>1. ASSUME NEW w \in Workers, SettleOperation(w)  PROVE RefundOfEnded'
    <3> DEFINE k == worker[w].key
               s == worker[w].snap
               owed == OwedBySettling(k, s)
               status == Settled(evaluateOperation(k, s), worker[w].tries)
    <3>1. k \in Existing /\ k \in Keys
      BY <2>1, Serves DEF SettleOperation, IInv, Typed, WorkersServe
    <3>2. "refund" \in owed => order = "CANCELLED"
      <4>1. CASE k = "cancel"
        BY <3>1, <4>1 DEF IInv, QueueParts, CancelledFirst, Existing
      <4>2. CASE k # "cancel"
        BY <4>2 DEF OwedBySettling, OwedAfter
      <4>3. QED
        BY <4>1, <4>2
    <3>3. opStatus' = [Queued(owed) EXCEPT ![k] = status]
      BY <2>1 DEF SettleOperation
    <3>4. opStatus'["refund"] # "NONE" => k = "refund" \/ Queued(owed)["refund"] # "NONE"
      BY <3>3, SpecialKeys DEF Queued
    <3>5. QED
      BY <1>3, <3>1, <3>2, <3>4, SpecialKeys, QueuedRows DEF Existing
  <2>2. CASE \A w \in Workers : ~SettleOperation(w)
    BY <1>3, <1>8, <2>2, QueueSame, SpecialKeys DEF IInv, SameMoney
  <2>3. QED
    BY <2>1, <2>2
<1>9. QED
  BY <1>5, <1>6, <1>7, <1>8 DEF Next

LEMMA BackStep == ASSUME ~MerchantRefunds, IInv, BackInv, [Next]_vars  PROVE BackInv'
<1>1. Typed
  BY DEF IInv
<1>2. Existing \subseteq Existing'
  BY <1>1, RowsStep DEF RowsStay, Existing
<1>3. applied' \subseteq Existing /\ GivenBack'
  <2>1. CASE \E w \in Workers : CallProvider(w)
    BY <1>1, <2>1, CallGivesBack DEF BackInv
  <2>2. CASE \A w \in Workers : ~CallProvider(w)
    BY <1>1, <2>2, ProviderStands DEF BackInv, GivenBack
  <2>3. QED
    BY <2>1, <2>2
<1>4. QED
  BY <1>2, <1>3, RefundNeedsEnd DEF BackInv

LEMMA BackInit == Init => BackInv
<1> SUFFICES ASSUME Init  PROVE BackInv
  OBVIOUS
<1>1. applied = {} /\ prefunded = 0 /\ opStatus["refund"] = "NONE"
  BY SpecialKeys DEF Init
<1>2. applied \cap Amendments = {}
  BY <1>1
<1>3. QED
  BY <1>1, <1>2, NoAmendments DEF BackInv, GivenBack, RefundOfEnded

(* As long as the order is alive and nobody refunds by hand, no more comes     *)
(* back than the approved amendments add up to, however often their operations *)
(* are lost, taken over or repeated.                                           *)
THEOREM OnlyWhatIsOwed == ASSUME ~MerchantRefunds PROVE Spec => []RefundsAreOwed
<1>1. IInv /\ BackInv /\ [Next]_vars => BackInv'
  BY BackStep
<1>2. BackInv => RefundsAreOwed
  <2> SUFFICES ASSUME BackInv, order \in Released
               PROVE  prefunded <= SumOf({a \in Amendments : opStatus[a] # "NONE"})
    BY DEF RefundsAreOwed
  <2> DEFINE t == {a \in Amendments : opStatus[a] # "NONE"}
  <2>1. "refund" \notin applied
    BY DEF BackInv, RefundOfEnded, Existing, Ended, Released
  <2>2. applied \cap Amendments \subseteq t
    BY DEF BackInv, Existing
  <2>3. SumOf(applied \cap Amendments) <= SumOf(t)
    BY <2>2, MoreAmendments
  <2>4. QED
    BY <2>1, <2>3 DEF BackInv, GivenBack
<1>3. QED
  BY <1>1, <1>2, BackInit, Invariance, PTL DEF Spec
===============================================================================
