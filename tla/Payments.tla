------------------------------- MODULE Payments --------------------------------
(* The online payment of one order, from the checkout to the money going back: *)
(* the checkout and the recovery of a create whose answer was lost, the        *)
(* snapshots that webhooks and the cron read and apply, the decisions on the   *)
(* order that make money owed, and the operations that return it.              *)
EXTENDS PaymentOperations

Released == {"PENDING", "IN_PROGRESS", "DELIVERED"}

(* The provider's answer to a create; repeated under the same idempotency key, *)
(* it creates nothing.                                                         *)
Created ==
  IF provider # "none" THEN {provider}
  ELSE IF Method = "PIX" THEN {"actionable"} ELSE {"processing", "approved", "rejected"}

ReadBy(via, tries) == [via |-> via, tries |-> tries, snap |-> Now]

RoomToRead == Cardinality(reads) < MaxReads

-------------------------------------------------------------------------------
(* createOnlinePayment: the answer of the provider, on its way to the row.     *)
CreateAnswered ==
  /\ checkout = "begun"
  /\ checkout' = "done"
  /\ provider' \in Created
  /\ reads' = reads \cup {[via |-> "create", tries |-> 0,
                           snap |-> [state |-> provider', refunded |-> prefunded]]}
  /\ UNCHANGED <<order, paymentRow, operations, worker, prefunded, applied>>

(* The answer is lost: the create may still take place, or never.              *)
CreateUnanswered ==
  /\ checkout = "begun"
  /\ checkout' = "sent"
  /\ UNCHANGED <<order, paymentRow, operations, worker, reads, external>>

CreateLands ==
  /\ checkout = "sent"
  /\ checkout' = "done"
  /\ provider' \in Created
  /\ UNCHANGED <<order, paymentRow, operations, worker, reads, prefunded, applied>>

(* The request dies before its call, or the call never reaches the provider.   *)
CreateNeverLands ==
  /\ checkout # "done"
  /\ checkout' = "done"
  /\ UNCHANGED <<order, paymentRow, operations, worker, reads, external>>

-------------------------------------------------------------------------------
(* whileStillUncertain: the condition under which a create may write the row.  *)
StillUncertain == pstatus = "PENDING" /\ ~known

(* The attempt number a recovery sees: the cron counts one when it claims the  *)
(* payment, the request that lost the answer does not.                         *)
RecoveryTries ==
  (IF recon = "PENDING" THEN {Tried(reconTries)} ELSE {})
    \cup (IF checkout = "sent" THEN {reconTries} ELSE {})

(* scheduleCreateRecoveryRetry, and its twins inside the transaction.          *)
CreateRetry(tries) ==
  /\ recon' = IF tries >= MaxTries THEN "REVIEW_REQUIRED" ELSE "PENDING"
  /\ reconTries' = tries
  /\ UNCHANGED <<order, pstatus, known, refunded>>

CreateReview(tries) ==
  /\ recon' = "REVIEW_REQUIRED"
  /\ reconTries' = tries
  /\ UNCHANGED <<order, pstatus, known, refunded>>

(* The search finds the order: an authoritative read of it is on its way.      *)
RecoverFound ==
  /\ StillUncertain
  /\ provider # "none"
  /\ RoomToRead
  /\ \E tries \in RecoveryTries : reconTries' = tries
  /\ reads' = reads \cup {ReadBy("create", 0)}
  /\ UNCHANGED <<order, pstatus, known, recon, refunded, operations, worker, checkout, external>>

(* The search or the read fails for now; or a card's order is not found, and a *)
(* card is never charged again without its token.                              *)
RecoverLater ==
  /\ StillUncertain
  /\ \E tries \in RecoveryTries : CreateRetry(tries)
  /\ UNCHANGED <<operations, worker, checkout, reads, external>>

(* It fails for good, or finds more than one order.                            *)
RecoverReview ==
  /\ StillUncertain
  /\ \E tries \in RecoveryTries : CreateReview(tries)
  /\ UNCHANGED <<operations, worker, checkout, reads, external>>

LeavesOrderWaiting(tries) ==             \* mutant: the order of an expired PIX is left waiting
  /\ pstatus' = "EXPIRED"
  /\ recon' = "HEALTHY"
  /\ reconTries' = tries
  /\ UNCHANGED <<order, known, refunded>>

(* A PIX not found past its deadline: it is not created any more.              *)
ExpireUncreated(tries) ==
  /\ pstatus' = "EXPIRED"
  /\ recon' = "HEALTHY"
  /\ reconTries' = tries
  /\ order' = IF order = "AWAITING_PAYMENT" THEN "CANCELLED" ELSE order
  /\ UNCHANGED <<known, refunded>>

RecoverExpired ==
  /\ StillUncertain
  /\ Method = "PIX"
  /\ order # "CANCELLED"
  /\ \E tries \in RecoveryTries : ExpireUncreated(tries)
  /\ UNCHANGED <<operations, worker, checkout, reads, external>>

(* A PIX not found before its deadline is created again under the same key.    *)
CreatePix ==
  /\ StillUncertain
  /\ Method = "PIX"
  /\ order # "CANCELLED"
  /\ RecoveryTries # {}
  /\ provider' \in Created
  /\ UNCHANGED <<prefunded, applied>>

RecoverCreated ==
  /\ CreatePix
  /\ applyProviderSnapshot([state |-> provider', refunded |-> prefunded], TRUE)
  /\ UNCHANGED <<operations, worker, checkout, reads>>

RecoverCreateUncertain ==
  /\ CreatePix
  /\ \E tries \in RecoveryTries : CreateRetry(tries) \/ CreateReview(tries)
  /\ UNCHANGED <<operations, worker, checkout, reads>>

CheckoutStep ==
  \/ CreateAnswered
  \/ CreateUnanswered
  \/ CreateLands
  \/ CreateNeverLands
  \/ RecoverFound
  \/ RecoverLater
  \/ RecoverReview
  \/ RecoverExpired
  \/ RecoverCreated
  \/ RecoverCreateUncertain

-------------------------------------------------------------------------------
(* processWebhookInboxItem: an authoritative read, on behalf of any of the     *)
(* notifications the provider may send, once or more often, in any order.      *)
WebhookReads ==
  /\ provider # "none"
  /\ RoomToRead
  /\ reads' = reads \cup {ReadBy("webhook", 0)}
  /\ UNCHANGED <<order, paymentRow, operations, worker, checkout, external>>

(* refreshPendingSnapshot: the claim and the read.                             *)
RefreshReads ==
  /\ pstatus = "PENDING"
  /\ known
  /\ recon \in {"PENDING", "HEALTHY"}
  /\ RoomToRead
  /\ reconTries' = Tried(reconTries)
  /\ reads' = reads \cup {ReadBy("refresh", Tried(reconTries))}
  /\ UNCHANGED <<order, pstatus, known, recon, refunded, operations, worker, checkout, external>>

ApplyRead(r) ==
  /\ r.via = "create" => StillUncertain
  /\ enqueuePaymentOperation(OwedAfter(r.snap))
  /\ applyProviderSnapshot(r.snap, TRUE)
  /\ reads' = reads \ {r}
  /\ UNCHANGED <<worker, checkout, external>>

(* A create that is no longer uncertain, a crash, or a webhook that will be    *)
(* read again.                                                                 *)
DropRead(r) ==
  /\ reads' = reads \ {r}
  /\ UNCHANGED <<order, paymentRow, operations, worker, checkout, external>>

(* retryPayment: the read failed, or its transaction did.                      *)
RefreshFails(r) ==
  /\ r.via = "refresh"
  /\ reads' = reads \ {r}
  /\ recon' = IF r.tries >= MaxTries THEN "REVIEW_REQUIRED" ELSE "PENDING"
  /\ UNCHANGED <<order, pstatus, known, reconTries, refunded, operations, worker, checkout,
                 external>>

ReadStep ==
  \/ WebhookReads
  \/ RefreshReads
  \/ \E r \in reads : ApplyRead(r) \/ DropRead(r) \/ RefreshFails(r)

-------------------------------------------------------------------------------
(* The order's own decisions.  Each that ends it queues what it owes in the    *)
(* same transaction, and fails as a whole when the queue refuses.              *)
Decide(status, keys) ==
  /\ order' = status
  /\ enqueuePaymentOperation(keys)
  /\ UNCHANGED <<paymentRow, worker, checkout, reads, external>>

Owed == Disposition(pstatus, known)

cancelCustomerOrder ==
  /\ order \in {"AWAITING_PAYMENT", "PENDING", "CANCELLED"}
  /\ Decide("CANCELLED", Owed)

expireAwaitingPayment ==
  /\ pstatus = "PENDING"
  /\ order \in {"AWAITING_PAYMENT", "CANCELLED"}
  /\ Decide("CANCELLED", Owed)

(* The store, the resolution of a request, a rejected amendment, the cron of   *)
(* stale orders.                                                               *)
StoreCancels ==
  /\ order \in {"PENDING", "IN_PROGRESS"}
  /\ Decide("CANCELLED", Owed)

failDelivery ==
  /\ order \in {"IN_PROGRESS", "DELIVERY_FAILED"}
  /\ Decide("DELIVERY_FAILED", Owed)

StoreAccepts == order = "PENDING" /\ Decide("IN_PROGRESS", {})

completeDelivery == order = "IN_PROGRESS" /\ Decide("DELIVERED", {})

approveWithoutSum(a) ==                  \* mutant: targets are not held against the payment
  /\ order = "IN_PROGRESS"
  /\ pstatus = "APPROVED"
  /\ opStatus[a] = "NONE"
  /\ Decide("IN_PROGRESS", {a})

approveAmendment(a) ==
  /\ order = "IN_PROGRESS"
  /\ pstatus = "APPROVED"
  /\ opStatus[a] = "NONE"
  /\ Active # {} => Latest(Active) # "refund"
  /\ expectedRefundedAmount(a) <= Amount
  /\ Decide("IN_PROGRESS", {a})

OrderStep ==
  \/ cancelCustomerOrder
  \/ expireAwaitingPayment
  \/ StoreCancels
  \/ failDelivery
  \/ StoreAccepts
  \/ completeDelivery
  \/ \E a \in Amendments : approveAmendment(a)

-------------------------------------------------------------------------------
(* The provider and its two users outside the system.  The QR code of a PIX is *)
(* shown only once the row has it.                                             *)
ProviderMoves(from, to) ==
  /\ provider \in from
  /\ provider' \in to
  /\ UNCHANGED <<order, paymentRow, operations, worker, checkout, reads, prefunded, applied>>

CustomerPays ==
  /\ known
  /\ ProviderMoves({"actionable"}, {"processing", "approved"})

ProviderDecides ==
  \/ ProviderMoves({"actionable"}, {"rejected", "expired"})
  \/ ProviderMoves({"processing"}, {"approved", "rejected"})
  \/ ProviderMoves({"approved"}, {"disputed"})

RefundByHand ==
  /\ MerchantRefunds
  /\ provider = "approved"
  /\ prefunded' \in (prefunded + 1)..Amount
  /\ UNCHANGED <<order, paymentRow, operations, worker, checkout, reads, provider, applied>>

ProviderStep == CustomerPays \/ ProviderDecides \/ RefundByHand

Next == CheckoutStep \/ ReadStep \/ OrderStep \/ QueueStep \/ ProviderStep

Spec == Init /\ [][Next]_vars

(* The cron comes round every minute; a claimed operation is not interrupted   *)
(* at the same point of every attempt; time ends leases.                       *)
CronRecovers == RecoverFound \/ RecoverLater \/ RecoverReview

Fairness ==
  /\ WF_vars(CronRecovers)
  /\ SF_vars(\E r \in reads : ApplyRead(r))
  /\ WF_vars(recoverLeases)
  /\ \A k \in Keys : WF_vars(LeaseExpires(k))
  /\ \A w \in Workers :
       /\ WF_vars(\E k \in Keys : ClaimOperation(w, k))
       /\ SF_vars(BeginOperation(w) \/ NotActionable(w) \/ LostClaim(w))
       /\ SF_vars(CallProvider(w))
       /\ SF_vars(ReadBack(w))
       /\ SF_vars(SettleOperation(w))

FairSpec == Spec /\ Fairness

-------------------------------------------------------------------------------
(* An order waits exactly as long as its payment is undecided, and is with the *)
(* store only if the payment has been approved, as reads, webhooks, recoveries *)
(* and cancellations interleave (transition.service.ts:98-123,                 *)
(* checkout.service.ts:226-232, cancellation.service.ts:30).                   *)
OrderFollowsPayment ==
  /\ order = "AWAITING_PAYMENT" => pstatus = "PENDING"
  /\ order \in Released => pstatus \in {"APPROVED", "REFUNDED"}

(* The store gets no order whose payment the provider has not charged, however *)
(* old the snapshot that released it (snapshot-validation.ts:53).              *)
ReleasedWasCharged ==
  order \in Released => provider \in {"approved", "disputed"}

(* Whoever ends an order, and whenever the approval arrives, the operation that*)
(* gives the money back or stops it from being taken is in the queue           *)
(* (payment.service.ts:22, operation.service.ts:81-90).                        *)
EndedMoneyIsQueued ==
  /\ order \in {"CANCELLED", "DELIVERY_FAILED"} /\ pstatus = "APPROVED"
       => opStatus["refund"] # "NONE"
  /\ order = "CANCELLED" /\ pstatus = "PENDING" /\ known
       => opStatus["cancel"] # "NONE"

SumOf(ks) ==
  LET add[s \in SUBSET Amendments] ==
        IF s = {} THEN 0 ELSE LET k == CHOOSE k \in s : TRUE IN AmendCents[k] + add[s \ {k}]
  IN add[ks]

(* As long as an order is alive, only what the customer approved to be taken   *)
(* off it goes back, once, whatever attempts were lost or repeated             *)
(* (provider.ts idempotency keys, operation.service.ts:118).                   *)
RefundsAreOwed ==
  order \in Released => prefunded <= SumOf({a \in Amendments : opStatus[a] # "NONE"})

(* What an operation is for is so at the provider; for a cancellation that     *)
(* came too late its refund has been queued.                                   *)
Done(k) ==
  CASE k = "cancel" -> provider \in {"cancelled", "rejected", "expired"}
                         \/ prefunded = Amount \/ opStatus["refund"] # "NONE"
    [] k = "refund" -> prefunded = Amount
    [] OTHER -> prefunded >= opTarget[k]

(* An operation that the queue records as done is done at the provider         *)
(* (operation.service.ts:36-56).                                               *)
SucceededMeansDone == \A k \in Keys : opStatus[k] = "SUCCEEDED" => Done(k)

(* Operations of a payment run one after the other: whichever is being carried *)
(* out, or done, had its predecessor done before                               *)
(* (operation-queue.service.ts:121-127).                                       *)
SerialOperations ==
  /\ \A k \in Keys : opStatus[k] \in {"PROCESSING", "SUCCEEDED"} /\ opDep[k] # Null
       => opStatus[opDep[k]] = "SUCCEEDED"
  /\ \A k, j \in Keys :
       opStatus[k] = "PROCESSING" /\ opStatus[j] = "PROCESSING" => k = j

(* An operation that some worker has claimed and not left, that is recorded as *)
(* being carried out or done, or whose effect the provider has applied.        *)
Begun(k) ==
  \/ opStatus[k] \in {"PROCESSING", "SUCCEEDED"}
  \/ k \in applied
  \/ \E w \in Workers : worker[w].pc # "idle" /\ worker[w].key = k

(* The half of it that outlives a lease: the provider is never asked for an    *)
(* operation before what its predecessor was for is so, even by a worker whose *)
(* operation was taken over, nor once a late settling has rewritten the        *)
(* predecessor's row (operation.service.ts:129 looks at no owner).             *)
EffectsInTurn == \A k \in Keys : Begun(k) /\ opDep[k] # Null => Done(opDep[k])

(* Nothing reopens an ended order and no late snapshot takes back what the row *)
(* says of the money: approved becomes only refunded, and refunded nothing     *)
(* (transition.service.ts:81-84).                                              *)
NothingRegresses ==
  [][/\ order \in {"CANCELLED", "DELIVERY_FAILED"} => order' = order
     /\ pstatus = "REFUNDED" => pstatus' = "REFUNDED"
     /\ pstatus = "APPROVED" => pstatus' \in {"APPROVED", "REFUNDED"}]_vars

(* The money of an order that ended does not stay: it is returned, or never    *)
(* taken, or a person is asked to look.                                        *)
EndedMoneySettles ==
  [](order \in {"CANCELLED", "DELIVERY_FAILED"} =>
       <>(pstatus \notin {"PENDING", "APPROVED"} \/ recon = "REVIEW_REQUIRED" \/ ChainInReview))

(* What has been completed stays so.                                           *)
CompletedStaysCompleted ==
  [][\A k \in Keys : opStatus[k] = "SUCCEEDED" => opStatus'[k] = "SUCCEEDED"]_vars

(* A late approval of a cancelled order can be recorded.                       *)
LateApprovalIsRecorded ==
  order = "CANCELLED" /\ pstatus = "PENDING" =>
    \A r \in reads : r.via # "create" /\ validateSnapshot(r.snap) = "APPROVED"
                     => ~Refuses(OwedAfter(r.snap))

(* Recorded refund progress does not go back.                                  *)
RefundProgressGrows == [][refunded' >= refunded]_vars

(* A payment whose chargeback is under review releases no order.               *)
DisputedReleasesNothing ==
  [][order = "AWAITING_PAYMENT" /\ order' = "PENDING"
       => ~(recon = "REVIEW_REQUIRED" /\ provider = "disputed")]_vars
===============================================================================
