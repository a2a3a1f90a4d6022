--------------------------- MODULE PaymentOperations ---------------------------
(* The queue of provider mutations (payment_operations) and the workers that   *)
(* carry them out: the operations stage of the cron, and the request that has  *)
(* just queued one.  A worker claims an operation under a lease of five        *)
(* minutes, calls the provider, reads the payment back and settles both rows   *)
(* in one transaction.                                                         *)
EXTENDS PaymentState

Serving(k) == {w \in Workers : worker[w].key = k}

(* What the WHERE of a claim asks of the predecessor.                          *)
WhateverCameBefore(k) == TRUE            \* mutant: claims out of turn

PredecessorDone(k) == opDep[k] # Null => opStatus[opDep[k]] = "SUCCEEDED"

(* claimDueOperations, claimPaymentOperationById.                              *)
ClaimOperation(w, k) ==
  /\ worker[w] = Idle
  /\ opStatus[k] = "PENDING" \/ (opStatus[k] = "PROCESSING" /\ ~leased[k])
  /\ PredecessorDone(k)
  /\ opStatus' = [opStatus EXCEPT ![k] = "PROCESSING"]
  /\ opOwner' = [opOwner EXCEPT ![k] = w]
  /\ leased' = [leased EXCEPT ![k] = TRUE]
  /\ opTries' = [opTries EXCEPT ![k] = Tried(@)]
  /\ worker' = [worker EXCEPT ![w] = [Idle EXCEPT !.pc = "claimed", !.key = k]]
  /\ UNCHANGED <<order, paymentRow, opDep, opTarget, born, checkout, reads, external>>

Rest(w) == worker' = [worker EXCEPT ![w] = Idle]

(* An update of payment_operations by id alone, whoever owns it by now.        *)
WriteStatus(k, status) ==
  /\ opStatus' = [opStatus EXCEPT ![k] = status]
  /\ opOwner' = [opOwner EXCEPT ![k] = Null]
  /\ leased' = [leased EXCEPT ![k] = FALSE]
  /\ UNCHANGED <<opDep, opTarget, opTries, born>>

ReviewOperation(w) ==
  /\ WriteStatus(worker[w].key, "REVIEW_REQUIRED")
  /\ Rest(w)
  /\ UNCHANGED <<order, paymentRow, checkout, reads, external>>

RetryForever(tries) == "PENDING"         \* mutant: attempts are not counted

(* retryDisposition.                                                           *)
AfterRetry(tries) == IF tries >= MaxTries THEN "REVIEW_REQUIRED" ELSE "PENDING"

RetryOperation(w, tries) ==
  /\ WriteStatus(worker[w].key, AfterRetry(tries))
  /\ Rest(w)
  /\ UNCHANGED <<order, paymentRow, checkout, reads, external>>

-------------------------------------------------------------------------------
(* processPaymentOperation up to its first call.                               *)
StillOwned(w) ==
  LET k == worker[w].key IN opStatus[k] = "PROCESSING" /\ opOwner[k] = w

Actionable(k) ==
  /\ known
  /\ k \in Amendments => AmendCents[k] <= Amount - refunded

LostClaim(w) ==
  /\ worker[w].pc = "claimed"
  /\ ~StillOwned(w)
  /\ Rest(w)
  /\ UNCHANGED <<order, paymentRow, operations, checkout, reads, external>>

NotActionable(w) ==
  /\ worker[w].pc = "claimed"
  /\ StillOwned(w)
  /\ ~Actionable(worker[w].key)
  /\ ReviewOperation(w)

(* A cancellation looks at the provider first and is sent only while the       *)
(* payment still waits for the customer.                                       *)
BeginOperation(w) ==
  LET k == worker[w].key
      looksDone == k = "cancel" /\ provider # "actionable" IN
  /\ worker[w].pc = "claimed"
  /\ StillOwned(w)
  /\ Actionable(k)
  /\ worker' = [worker EXCEPT ![w] =
                  [pc |-> IF looksDone THEN "settling" ELSE "calling", key |-> k,
                   tries |-> opTries[k], snap |-> IF looksDone THEN Now ELSE Null]]
  /\ UNCHANGED <<order, paymentRow, operations, checkout, reads, external>>

(* The provider carries the mutation out, once for each idempotency key, when  *)
(* its own state permits.                                                      *)
AlreadyApplied(k) == k \in applied

ProviderCarriesOut(k) ==
  /\ ~AlreadyApplied(k)
  /\ applied' = applied \cup {k}
  /\ CASE k = "cancel" ->
            /\ provider = "actionable"
            /\ provider' = "cancelled"
            /\ UNCHANGED prefunded
       [] k = "refund" ->
            /\ provider = "approved"
            /\ prefunded' = Amount
            /\ UNCHANGED provider
       [] OTHER ->
            /\ provider = "approved"
            /\ prefunded + AmendCents[k] <= Amount
            /\ prefunded' = prefunded + AmendCents[k]
            /\ UNCHANGED provider

(* The call: carried out or not, its answer is not looked at.                  *)
CallProvider(w) ==
  /\ worker[w].pc = "calling"
  /\ worker' = [worker EXCEPT ![w].pc = "reading"]
  /\ ProviderCarriesOut(worker[w].key) \/ UNCHANGED external
  /\ UNCHANGED <<order, paymentRow, operations, checkout, reads>>

ReadBack(w) ==
  /\ worker[w].pc = "reading"
  /\ worker' = [worker EXCEPT ![w] = [@ EXCEPT !.pc = "settling", !.snap = Now]]
  /\ UNCHANGED <<order, paymentRow, operations, checkout, reads, external>>

(* A call or a read that failed for good, or for now.                          *)
Reading(w) ==
  \/ worker[w].pc = "reading"
  \/ worker[w].pc = "claimed" /\ worker[w].key = "cancel" /\ StillOwned(w) /\ known

TriesOf(w) ==
  IF worker[w].pc = "claimed" THEN opTries[worker[w].key] ELSE worker[w].tries

FailForGood(w) == Reading(w) /\ ReviewOperation(w)

FailForNow(w) == Reading(w) /\ RetryOperation(w, TriesOf(w))

(* The read of the catch block, one more attempt to learn what happened.       *)
LookAgain(w) ==
  /\ Reading(w)
  /\ provider # "actionable"
  /\ worker' = [worker EXCEPT ![w] = [pc |-> "recovering", key |-> worker[w].key,
                                      tries |-> TriesOf(w), snap |-> Now]]
  /\ UNCHANGED <<order, paymentRow, operations, checkout, reads, external>>

-------------------------------------------------------------------------------
AnyRefundWillDo(k, s) ==                 \* mutant: a started refund counts as done
  LET decision == validateSnapshot(s) IN
  IF k = "cancel" /\ decision \in {"APPROVED", "PARTIALLY_REFUNDED"} THEN "ESCALATE"
  ELSE IF decision = "PENDING" THEN "RETRY"
  ELSE IF decision = "REVIEW_REQUIRED" THEN "REVIEW_REQUIRED" ELSE "SUCCEEDED"

AfterCancel(decision) ==
  CASE decision \in NotCharged \cup {"REFUNDED"} -> "SUCCEEDED"
    [] decision = "PENDING" -> "RETRY"
    [] OTHER -> "ESCALATE"

AfterRefund(decision, cents) ==
  CASE decision = "REFUNDED" /\ cents = opTarget["refund"] -> "SUCCEEDED"
    [] decision \in {"PENDING", "APPROVED", "PARTIALLY_REFUNDED"} -> "RETRY"
    [] OTHER -> "REVIEW_REQUIRED"

AfterPartialRefund(k, decision, cents) ==
  IF decision \notin {"PARTIALLY_REFUNDED", "REFUNDED"} \/ cents > opTarget[k]
  THEN "REVIEW_REQUIRED"
  ELSE IF cents = opTarget[k] THEN "SUCCEEDED" ELSE "RETRY"

evaluateOperation(k, s) ==
  LET decision == validateSnapshot(s) IN
  IF decision = "REVIEW_REQUIRED" THEN decision
  ELSE CASE k = "cancel" -> AfterCancel(decision)
         [] k = "refund" -> AfterRefund(decision, s.refunded)
         [] OTHER -> AfterPartialRefund(k, decision, s.refunded)

(* operations that settling queues: the escalation of a cancellation that came *)
(* too late, or what the snapshot of a refund makes a cancelled order owe.     *)
EscalatesToNothing(k, s) == IF k = "cancel" THEN {} ELSE OwedAfter(s)   \* mutant

OwedBySettling(k, s) ==
  IF k # "cancel" THEN OwedAfter(s)
  ELSE IF evaluateOperation(k, s) = "ESCALATE"
       THEN Disposition(IF IsStale(s) THEN pstatus ELSE StatusAfter(s), TRUE) ELSE {}

Settled(outcome, tries) ==
  CASE outcome = "ESCALATE" -> "SUCCEEDED"
    [] outcome = "RETRY" -> AfterRetry(tries)
    [] OTHER -> outcome

(* settleSnapshot.  It looks at neither the owner nor the status of the        *)
(* operation it settles.                                                       *)
SettleOperation(w) ==
  LET k == worker[w].key
      s == worker[w].snap
      owed == OwedBySettling(k, s)
      status == Settled(evaluateOperation(k, s), worker[w].tries) IN
  /\ worker[w].pc \in {"settling", "recovering"}
  /\ ~Refuses(owed)
  /\ applyProviderSnapshot(s, k # "cancel")
  /\ opStatus' = [Queued(owed) EXCEPT ![k] = status]
  /\ opOwner' = [opOwner EXCEPT ![k] = Null]
  /\ leased' = [leased EXCEPT ![k] = FALSE]
  /\ Register(owed)
  /\ Rest(w)
  /\ UNCHANGED <<opTries, checkout, reads, external>>

SettlingThrows(w) == Refuses(OwedBySettling(worker[w].key, worker[w].snap))

(* Thrown out of the worker, the operation keeps its lease until it runs out.  *)
SettleFails(w) ==
  /\ worker[w].pc = "settling"
  /\ SettlingThrows(w)
  /\ Rest(w)
  /\ UNCHANGED <<order, paymentRow, operations, checkout, reads, external>>

(* Thrown in the catch block, it only means another attempt.                   *)
RecoveringFails(w) ==
  /\ worker[w].pc = "recovering"
  /\ SettlingThrows(w)
  /\ RetryOperation(w, worker[w].tries)

-------------------------------------------------------------------------------
WorkerCrashes(w) ==
  /\ worker[w].pc # "idle"
  /\ Rest(w)
  /\ UNCHANGED <<order, paymentRow, operations, checkout, reads, external>>

(* Five minutes pass.  A batch of 25 operations, each with calls of up to 8 s, *)
(* can outlive the lease: SlowWorkers.                                         *)
LeaseExpires(k) ==
  /\ leased[k]
  /\ SlowWorkers \/ Serving(k) = {}
  /\ leased' = [leased EXCEPT ![k] = FALSE]
  /\ UNCHANGED <<order, paymentRow, opStatus, opDep, opTarget, opTries, opOwner, born,
                 worker, checkout, reads, external>>

(* recoverLeases, its part for the operations.                                 *)
recoverLeases ==
  LET due == {k \in Keys : opStatus[k] = "PROCESSING" /\ ~leased[k]} IN
  /\ due # {}
  /\ opStatus' = [k \in Keys |-> IF k \in due THEN "PENDING" ELSE opStatus[k]]
  /\ opOwner' = [k \in Keys |-> IF k \in due THEN Null ELSE opOwner[k]]
  /\ UNCHANGED <<order, paymentRow, opDep, opTarget, opTries, leased, born, worker,
                 checkout, reads, external>>

(* One pass of the loop: the operations whose predecessor is under review.     *)
propagateReviewedDependencies ==
  LET blocked == {k \in Active : opDep[k] # Null /\ opStatus[opDep[k]] = "REVIEW_REQUIRED"} IN
  /\ blocked # {}
  /\ opStatus' = [k \in Keys |-> IF k \in blocked THEN "REVIEW_REQUIRED" ELSE opStatus[k]]
  /\ opOwner' = [k \in Keys |-> IF k \in blocked THEN Null ELSE opOwner[k]]
  /\ leased' = [k \in Keys |-> IF k \in blocked THEN FALSE ELSE leased[k]]
  /\ UNCHANGED <<order, paymentRow, opDep, opTarget, opTries, born, worker, checkout,
                 reads, external>>

WorkerStep(w) ==
  \/ \E k \in Keys : ClaimOperation(w, k)
  \/ LostClaim(w)
  \/ NotActionable(w)
  \/ BeginOperation(w)
  \/ CallProvider(w)
  \/ ReadBack(w)
  \/ FailForGood(w)
  \/ FailForNow(w)
  \/ LookAgain(w)
  \/ SettleOperation(w)
  \/ SettleFails(w)
  \/ RecoveringFails(w)
  \/ WorkerCrashes(w)

QueueStep ==
  \/ \E w \in Workers : WorkerStep(w)
  \/ \E k \in Keys : LeaseExpires(k)
  \/ recoverLeases
  \/ propagateReviewedDependencies
===============================================================================
