---------------------------- MODULE DeliveryProofs ----------------------------
(* Theorems of Delivery for every set of orders, drivers, shifts and packages. *)
(* Each part of IInv has a lemma: it survives a step from a state of IInv.     *)
EXTENDS Delivery, TLAPS

USE DEF assignment, request, return, orderRow, batchRow, OfferedOnShift

(* The daily rate is an entry of the shift's own driver.                       *)
LEMMA DailyEntry ==
  ASSUME ledger \subseteq Entry, NEW s \in Shifts
  PROVE  recordShiftDaily(s) \subseteq Entry
<1>1. ShiftDriver[s] \in Drivers
  BY RowsHaveOwners
<1>2. [kind |-> "driver-daily", of |-> s, driver |-> ShiftDriver[s]] \in
        [kind : {"driver-daily"}, of : Shifts, driver : Drivers]
  BY <1>1
<1>3. QED
  BY <1>2 DEF recordShiftDaily, insertEntries, Entry

(* Every step keeps every column within its type.                              *)
LEMMA TypeStep == ASSUME TypeOK, [Next]_vars  PROVE TypeOK'
<1> USE DEF TypeOK
<1>1. ASSUME NEW o \in Orders, PaymentReleasesOrder(o) PROVE  TypeOK'
  BY <1>1 DEF PaymentReleasesOrder, ORDER_STATUSES
<1>2. ASSUME NEW o \in Orders, PaymentCancelsOrder(o) PROVE  TypeOK'
  BY <1>2 DEF PaymentCancelsOrder, Cancel, ORDER_STATUSES
<1>3. ASSUME NEW o \in Orders, customerCancelOrder(o) PROVE  TypeOK'
  BY <1>3 DEF customerCancelOrder, Cancel, ORDER_STATUSES
<1>4. ASSUME NEW o \in Orders, storeResolveCancelRequest(o) PROVE  TypeOK'
  BY <1>4 DEF storeResolveCancelRequest, Cancel, ORDER_STATUSES
<1>5. ASSUME NEW o \in Orders, rejectAmendment(o) PROVE  TypeOK'
  BY <1>5 DEF rejectAmendment, Cancel, ORDER_STATUSES
<1>6. ASSUME NEW stale \in SUBSET Orders, cancelStalePendingOrders(stale)
      PROVE  TypeOK'
  BY <1>6 DEF cancelStalePendingOrders, ORDER_STATUSES
<1>7. ASSUME NEW o \in Orders, withdrawDriverRequest(o) PROVE  TypeOK'
  BY <1>7 DEF withdrawDriverRequest, ClearRequest, ORDER_STATUSES
<1>8. ASSUME NEW o \in Orders, NEW to \in STORE_ALLOWED, storeUpdateOrderStatus(o, to)
      PROVE  TypeOK'
  BY <1>8
  DEF storeUpdateOrderStatus, ORDER_STATUSES, STORE_ALLOWED, recordOrderLedger,
      insertEntries, Entry, DeliveryPayKinds
<1>9. ASSUME NEW o \in Orders, NEW to \in TARGETS, NEW d \in Drivers \cup {Null}, setDriverRequestTarget(o, to, d)
      PROVE  TypeOK'
  BY <1>9 DEF setDriverRequestTarget, ORDER_STATUSES, TARGETS
<1>10. ASSUME NEW d \in Drivers, NEW o \in Orders, acceptDeliveryReads(d, o)
       PROVE  TypeOK'
  BY <1>10 DEF acceptDeliveryReads, Txn
<1>11. ASSUME NEW t \in holding, acceptDelivery(t) PROVE  TypeOK'
  BY <1>11 DEF acceptDelivery, InGeneralPool, Txn
<1>12. ASSUME NEW d \in Drivers, NEW o \in Orders, releaseDelivery(d, o)
       PROVE  TypeOK'
  BY <1>12 DEF releaseDelivery, Unassign
<1>13. ASSUME NEW d \in Drivers, NEW o \in Orders, acceptShiftDelivery(d, o)
       PROVE  TypeOK'
  BY <1>13 DEF acceptShiftDelivery, ActiveShifts
<1>14. ASSUME NEW d \in Drivers, NEW o \in Orders, refuseDirectDelivery(d, o)
       PROVE  TypeOK'
  BY <1>14 DEF refuseDirectDelivery
<1>15. ASSUME NEW d \in Drivers, NEW o \in Orders, collectDelivery(d, o)
       PROVE  TypeOK'
  BY <1>15 DEF collectDelivery, ORDER_STATUSES
<1>16. ASSUME NEW d \in Drivers, NEW o \in Orders, confirmArrival(d, o)
       PROVE  TypeOK'
  BY <1>16 DEF confirmArrival
<1>17. ASSUME NEW o \in Orders, storeReleaseDriver(o) PROVE  TypeOK'
  BY <1>17
  DEF storeReleaseDriver, Unassign, ClearRequest, ORDER_STATUSES,
      recordHalfFee, insertEntries, Entry
<1>18. ASSUME NEW d \in Drivers, NEW o \in Orders, completeDelivery(d, o)
       PROVE  TypeOK'
  BY <1>18
  DEF completeDelivery, ORDER_STATUSES, recordOrderLedger, insertEntries,
      Entry, DeliveryPayKinds
<1>19. ASSUME NEW d \in Drivers, NEW o \in Orders, failDelivery(d, o)
       PROVE  TypeOK'
  BY <1>19 DEF failDelivery, ORDER_STATUSES
<1>20. ASSUME NEW d \in Drivers, NEW o \in Orders, markDriverReturned(d, o)
       PROVE  TypeOK'
  BY <1>20 DEF markDriverReturned
<1>21. ASSUME NEW o \in Orders, confirmReturn(o) PROVE  TypeOK'
  BY <1>21
  DEF confirmReturn, recordReturnLedger, insertEntries, Entry,
      DeliveryPayKinds, ReturnPayKinds
<1>22. ASSUME NEW b \in Batches, NEW ids \in SUBSET Orders, createBatch(b, ids)
       PROVE  TypeOK'
  BY <1>22 DEF createBatch, BATCH_STATUSES
<1>23. ASSUME NEW b \in Batches, NEW to \in TARGETS, NEW d \in Drivers \cup {Null}, broadcastBatch(b, to, d)
       PROVE  TypeOK'
  BY <1>23 DEF broadcastBatch, BATCH_STATUSES, BatchCall, TARGETS
<1>24. ASSUME NEW b \in Batches, cancelBatch(b) PROVE  TypeOK'
  BY <1>24 DEF cancelBatch, ClearRequest, OrdersOf, BATCH_STATUSES
<1>25. ASSUME NEW d \in Drivers, NEW b \in Batches, acceptBatch(d, b)
       PROVE  TypeOK'
  BY <1>25 DEF acceptBatch, AssignBatch, BATCH_STATUSES, ActiveShifts
<1>26. ASSUME NEW d \in Drivers, NEW b \in Batches, releaseBatch(d, b)
       PROVE  TypeOK'
  BY <1>26 DEF releaseBatch, BATCH_STATUSES
<1>27. ASSUME NEW d \in Drivers, NEW b \in Batches, refuseBatch(d, b)
       PROVE  TypeOK'
  BY <1>27 DEF refuseBatch, BatchCall
<1>28. ASSUME NEW d \in Drivers, NEW b \in Batches, collectBatch(d, b)
       PROVE  TypeOK'
  BY <1>28 DEF collectBatch, OrdersOf, ORDER_STATUSES, BATCH_STATUSES
<1>29. ASSUME NEW d \in Drivers, NEW s \in Shifts, startShiftReads(d, s)
       PROVE  TypeOK'
  BY <1>29 DEF startShiftReads, Txn
<1>30. ASSUME NEW t \in holding, startShift(t) PROVE  TypeOK'
  BY <1>30 DEF startShift, Txn, SHIFT_STATUSES
<1>31. ASSUME NEW s \in Shifts, endShift(s) PROVE  TypeOK'
  BY <1>31 DEF endShift, Leave, SHIFT_STATUSES
<1>32. ASSUME NEW s \in Shifts, closeShift(s) PROVE  TypeOK'
  BY <1>32, DailyEntry DEF closeShift, Leave, SHIFT_STATUSES
<1>33. ASSUME NEW s \in Shifts, NEW approve \in BOOLEAN, decideShiftDaily(s, approve)
       PROVE  TypeOK'
  BY <1>33, DailyEntry DEF decideShiftDaily, SHIFT_STATUSES
<1>34. ASSUME NEW s \in Shifts, autoApproveStaleShiftDailies(s) PROVE  TypeOK'
  BY <1>34, DailyEntry
  DEF autoApproveStaleShiftDailies, decideShiftDaily, SHIFT_STATUSES
<1>35. ASSUME NEW s \in Shifts, offerShiftReactivation(s) PROVE  TypeOK'
  BY <1>35 DEF offerShiftReactivation, SHIFT_STATUSES
<1>36. ASSUME NEW s \in Shifts, reactivateShift(s) PROVE  TypeOK'
  BY <1>36 DEF reactivateShift, SHIFT_STATUSES
<1>37. CASE UNCHANGED vars
  BY <1>37 DEF vars
<1>38. QED
  BY <1>1, <1>2, <1>3, <1>4, <1>5, <1>6, <1>7, <1>8, <1>9, <1>10, <1>11, <1>12,
     <1>13, <1>14, <1>15, <1>16, <1>17, <1>18, <1>19, <1>20, <1>21, <1>22,
     <1>23, <1>24, <1>25, <1>26, <1>27, <1>28, <1>29, <1>30, <1>31, <1>32,
     <1>33, <1>34, <1>35, <1>36, <1>37
  DEF Next, OrderFlowNext, DispatchNext, BatchNext, ShiftNext

(* What the transition table says of a single move.                            *)
LEMMA TransitionRules ==
  ASSUME NEW from \in ORDER_STATUSES, NEW to, canTransition(from, to)
  PROVE  /\ from \notin {"DELIVERED", "DELIVERY_FAILED", "CANCELLED"}
         /\ from = "OUT_FOR_DELIVERY" => to \in {"DELIVERED", "DELIVERY_FAILED"}
         /\ to = "READY" => from = "PREPARING"
         /\ to = "OUT_FOR_DELIVERY" => from \in {"READY", "AWAITING_DRIVER"}
         /\ to = "DELIVERED" => from \in {"READY", "OUT_FOR_DELIVERY"}
         /\ to \notin {"AWAITING_PAYMENT"}
         /\ to = "PENDING" => from = "AWAITING_PAYMENT"
  BY DEF canTransition, Lifecycle!canTransition, Lifecycle!TRANSITIONS,
         Lifecycle!ORDER_STATUSES, ORDER_STATUSES

(* A package and its orders change together.                                   *)
LEMMA BatchStep == ASSUME IInv, [Next]_vars  PROVE BatchAgreesWithOrders'
<1> USE DEF IInv, TypeOK, BatchAgreesWithOrders
<1>1. ASSUME NEW o \in Orders, PaymentCancelsOrder(o)
      PROVE  BatchAgreesWithOrders'
  BY <1>1, NullIsNoRow DEF PaymentCancelsOrder, Cancel
<1>2. ASSUME NEW o \in Orders, customerCancelOrder(o)
      PROVE  BatchAgreesWithOrders'
  BY <1>2, NullIsNoRow DEF customerCancelOrder, Cancel
<1>3. ASSUME NEW o \in Orders, storeResolveCancelRequest(o)
      PROVE  BatchAgreesWithOrders'
  BY <1>3, NullIsNoRow DEF storeResolveCancelRequest, Cancel
<1>4. ASSUME NEW o \in Orders, rejectAmendment(o)
      PROVE  BatchAgreesWithOrders'
  BY <1>4, NullIsNoRow DEF rejectAmendment, Cancel
<1>5. ASSUME NEW stale \in SUBSET Orders, cancelStalePendingOrders(stale)
      PROVE  BatchAgreesWithOrders'
  BY <1>5, NullIsNoRow DEF cancelStalePendingOrders
<1>6. ASSUME NEW o \in Orders, NEW to \in STORE_ALLOWED, storeUpdateOrderStatus(o, to)
      PROVE  BatchAgreesWithOrders'
  BY <1>6, NullIsNoRow DEF storeUpdateOrderStatus
<1>7. ASSUME NEW t \in holding, acceptDelivery(t)
      PROVE  BatchAgreesWithOrders'
  BY <1>7, NullIsNoRow DEF acceptDelivery, InGeneralPool
<1>8. ASSUME NEW d \in Drivers, NEW o \in Orders, releaseDelivery(d, o)
      PROVE  BatchAgreesWithOrders'
  BY <1>8, NullIsNoRow DEF releaseDelivery, Unassign
<1>9. ASSUME NEW d \in Drivers, NEW o \in Orders, acceptShiftDelivery(d, o)
      PROVE  BatchAgreesWithOrders'
  BY <1>9, NullIsNoRow DEF acceptShiftDelivery, ActiveShifts
<1>10. ASSUME NEW o \in Orders, storeReleaseDriver(o)
       PROVE  BatchAgreesWithOrders'
  BY <1>10, NullIsNoRow DEF storeReleaseDriver, Unassign, ClearRequest
<1>11. ASSUME NEW b \in Batches, NEW ids \in SUBSET Orders, createBatch(b, ids)
       PROVE  BatchAgreesWithOrders'
  BY <1>11, NullIsNoRow DEF createBatch
<1>12. ASSUME NEW b \in Batches, NEW to \in TARGETS, NEW d \in Drivers \cup {Null}, broadcastBatch(b, to, d)
       PROVE  BatchAgreesWithOrders'
  BY <1>12, NullIsNoRow DEF broadcastBatch
<1>13. ASSUME NEW b \in Batches, cancelBatch(b) PROVE  BatchAgreesWithOrders'
  BY <1>13, NullIsNoRow DEF cancelBatch, ClearRequest, OrdersOf
<1>14. ASSUME NEW d \in Drivers, NEW b \in Batches, acceptBatch(d, b)
       PROVE  BatchAgreesWithOrders'
  BY <1>14, NullIsNoRow DEF acceptBatch, AssignBatch
<1>15. ASSUME NEW d \in Drivers, NEW b \in Batches, releaseBatch(d, b)
       PROVE  BatchAgreesWithOrders'
  BY <1>15, NullIsNoRow DEF releaseBatch
<1>16. ASSUME NEW d \in Drivers, NEW b \in Batches, collectBatch(d, b)
       PROVE  BatchAgreesWithOrders'
  BY <1>16, NullIsNoRow DEF collectBatch, OrdersOf
<1>17. ASSUME NEW o \in Orders,
              PaymentReleasesOrder(o) \/ withdrawDriverRequest(o)
              \/ confirmReturn(o)
       PROVE  BatchAgreesWithOrders'
  BY <1>17
  DEF PaymentReleasesOrder, withdrawDriverRequest, confirmReturn, ClearRequest
<1>18. ASSUME NEW o \in Orders, NEW to \in TARGETS, NEW d \in Drivers \cup {Null},
              setDriverRequestTarget(o, to, d)
       PROVE  BatchAgreesWithOrders'
  BY <1>18 DEF setDriverRequestTarget
<1>19. ASSUME NEW d \in Drivers, NEW o \in Orders,
              acceptDeliveryReads(d, o) \/ refuseDirectDelivery(d, o)
              \/ collectDelivery(d, o) \/ confirmArrival(d, o)
              \/ completeDelivery(d, o) \/ failDelivery(d, o)
              \/ markDriverReturned(d, o)
       PROVE  BatchAgreesWithOrders'
  BY <1>19
  DEF acceptDeliveryReads, refuseDirectDelivery, collectDelivery,
      confirmArrival, completeDelivery, failDelivery, markDriverReturned
<1>20. ASSUME NEW d \in Drivers, NEW b \in Batches,
              refuseBatch(d, b)
       PROVE  BatchAgreesWithOrders'
  BY <1>20 DEF refuseBatch
<1>21. ASSUME NEW d \in Drivers, NEW s \in Shifts,
              startShiftReads(d, s)
       PROVE  BatchAgreesWithOrders'
  BY <1>21 DEF startShiftReads
<1>22. ASSUME NEW t \in holding,
              startShift(t)
       PROVE  BatchAgreesWithOrders'
  BY <1>22 DEF startShift
<1>23. ASSUME NEW s \in Shifts,
              endShift(s) \/ closeShift(s) \/ autoApproveStaleShiftDailies(s)
              \/ offerShiftReactivation(s) \/ reactivateShift(s)
       PROVE  BatchAgreesWithOrders'
  BY <1>23
  DEF endShift, closeShift, autoApproveStaleShiftDailies,
      offerShiftReactivation, reactivateShift, Leave, decideShiftDaily
<1>24. ASSUME NEW s \in Shifts, NEW approve \in BOOLEAN,
              decideShiftDaily(s, approve)
       PROVE  BatchAgreesWithOrders'
  BY <1>24 DEF decideShiftDaily
<1>25. CASE UNCHANGED vars
  BY <1>25 DEF vars
<1>26. QED
  BY <1>1, <1>2, <1>3, <1>4, <1>5, <1>6, <1>7, <1>8, <1>9, <1>10, <1>11, <1>12,
     <1>13, <1>14, <1>15, <1>16, <1>17, <1>18, <1>19, <1>20, <1>21, <1>22,
     <1>23, <1>24, <1>25
  DEF Next, OrderFlowNext, DispatchNext, BatchNext, ShiftNext

(* No order of a collected package goes back.                                  *)
LEMMA CollectedStep == ASSUME IInv, [Next]_vars  PROVE CollectedPackageIsOut'
<1> USE DEF IInv, TypeOK, CollectedPackageIsOut
<1>1. ASSUME NEW o \in Orders, PaymentReleasesOrder(o)
      PROVE  CollectedPackageIsOut'
  BY <1>1, NullIsNoRow DEF PaymentReleasesOrder
<1>2. ASSUME NEW o \in Orders, PaymentCancelsOrder(o)
      PROVE  CollectedPackageIsOut'
  BY <1>2, NullIsNoRow DEF PaymentCancelsOrder, Cancel
<1>3. ASSUME NEW o \in Orders, customerCancelOrder(o)
      PROVE  CollectedPackageIsOut'
  BY <1>3, NullIsNoRow DEF customerCancelOrder, Cancel
<1>4. ASSUME NEW o \in Orders, storeResolveCancelRequest(o)
      PROVE  CollectedPackageIsOut'
  BY <1>4, NullIsNoRow
  DEF storeResolveCancelRequest, Cancel, REQUESTABLE, ACCEPTABLE
<1>5. ASSUME NEW o \in Orders, rejectAmendment(o)
      PROVE  CollectedPackageIsOut'
  BY <1>5, NullIsNoRow DEF rejectAmendment, Cancel
<1>6. ASSUME NEW stale \in SUBSET Orders, cancelStalePendingOrders(stale)
      PROVE  CollectedPackageIsOut'
  BY <1>6, NullIsNoRow DEF cancelStalePendingOrders
<1>7. ASSUME NEW o \in Orders, withdrawDriverRequest(o)
      PROVE  CollectedPackageIsOut'
  BY <1>7, NullIsNoRow DEF withdrawDriverRequest, ClearRequest
<1>8. ASSUME NEW o \in Orders, NEW to \in STORE_ALLOWED, storeUpdateOrderStatus(o, to)
      PROVE  CollectedPackageIsOut'
  BY <1>8, NullIsNoRow, TransitionRules DEF storeUpdateOrderStatus
<1>9. ASSUME NEW o \in Orders, NEW to \in TARGETS, NEW d \in Drivers \cup {Null}, setDriverRequestTarget(o, to, d)
      PROVE  CollectedPackageIsOut'
  BY <1>9, NullIsNoRow
  DEF setDriverRequestTarget, REQUESTABLE_FOR_DRIVER, ACCEPTABLE
<1>10. ASSUME NEW d \in Drivers, NEW o \in Orders, collectDelivery(d, o)
       PROVE  CollectedPackageIsOut'
  BY <1>10, NullIsNoRow DEF collectDelivery, COLLECTIBLE
<1>11. ASSUME NEW o \in Orders, storeReleaseDriver(o)
       PROVE  CollectedPackageIsOut'
  BY <1>11, NullIsNoRow
  DEF storeReleaseDriver, Unassign, ClearRequest, ACCEPTABLE
<1>12. ASSUME NEW d \in Drivers, NEW o \in Orders, completeDelivery(d, o)
       PROVE  CollectedPackageIsOut'
  BY <1>12, NullIsNoRow DEF completeDelivery
<1>13. ASSUME NEW d \in Drivers, NEW o \in Orders, failDelivery(d, o)
       PROVE  CollectedPackageIsOut'
  BY <1>13, NullIsNoRow DEF failDelivery
<1>14. ASSUME NEW b \in Batches, NEW ids \in SUBSET Orders, createBatch(b, ids)
       PROVE  CollectedPackageIsOut'
  BY <1>14, NullIsNoRow
  DEF createBatch, BATCHABLE_STATUSES, BatchAgreesWithOrders
<1>15. ASSUME NEW b \in Batches, NEW to \in TARGETS, NEW d \in Drivers \cup {Null}, broadcastBatch(b, to, d)
       PROVE  CollectedPackageIsOut'
  BY <1>15, NullIsNoRow DEF broadcastBatch
<1>16. ASSUME NEW b \in Batches, cancelBatch(b) PROVE  CollectedPackageIsOut'
  BY <1>16, NullIsNoRow DEF cancelBatch, ClearRequest, OrdersOf
<1>17. ASSUME NEW d \in Drivers, NEW b \in Batches, acceptBatch(d, b)
       PROVE  CollectedPackageIsOut'
  BY <1>17, NullIsNoRow DEF acceptBatch, AssignBatch
<1>18. ASSUME NEW d \in Drivers, NEW b \in Batches, releaseBatch(d, b)
       PROVE  CollectedPackageIsOut'
  BY <1>18, NullIsNoRow DEF releaseBatch
<1>19. ASSUME NEW d \in Drivers, NEW b \in Batches, collectBatch(d, b)
       PROVE  CollectedPackageIsOut'
  BY <1>19, NullIsNoRow DEF collectBatch, OrdersOf
<1>20. ASSUME NEW d \in Drivers, NEW o \in Orders,
              acceptDeliveryReads(d, o) \/ releaseDelivery(d, o)
              \/ acceptShiftDelivery(d, o) \/ refuseDirectDelivery(d, o)
              \/ confirmArrival(d, o) \/ markDriverReturned(d, o)
       PROVE  CollectedPackageIsOut'
  BY <1>20
  DEF acceptDeliveryReads, releaseDelivery, acceptShiftDelivery,
      refuseDirectDelivery, confirmArrival, markDriverReturned, Unassign
<1>21. ASSUME NEW t \in holding,
              acceptDelivery(t) \/ startShift(t)
       PROVE  CollectedPackageIsOut'
  BY <1>21 DEF acceptDelivery, startShift
<1>22. ASSUME NEW o \in Orders,
              confirmReturn(o)
       PROVE  CollectedPackageIsOut'
  BY <1>22 DEF confirmReturn
<1>23. ASSUME NEW d \in Drivers, NEW b \in Batches,
              refuseBatch(d, b)
       PROVE  CollectedPackageIsOut'
  BY <1>23 DEF refuseBatch
<1>24. ASSUME NEW d \in Drivers, NEW s \in Shifts,
              startShiftReads(d, s)
       PROVE  CollectedPackageIsOut'
  BY <1>24 DEF startShiftReads
<1>25. ASSUME NEW s \in Shifts,
              endShift(s) \/ closeShift(s) \/ autoApproveStaleShiftDailies(s)
              \/ offerShiftReactivation(s) \/ reactivateShift(s)
       PROVE  CollectedPackageIsOut'
  BY <1>25
  DEF endShift, closeShift, autoApproveStaleShiftDailies,
      offerShiftReactivation, reactivateShift, Leave, decideShiftDaily
<1>26. ASSUME NEW s \in Shifts, NEW approve \in BOOLEAN,
              decideShiftDaily(s, approve)
       PROVE  CollectedPackageIsOut'
  BY <1>26 DEF decideShiftDaily
<1>27. CASE UNCHANGED vars
  BY <1>27 DEF vars
<1>28. QED
  BY <1>1, <1>2, <1>3, <1>4, <1>5, <1>6, <1>7, <1>8, <1>9, <1>10, <1>11, <1>12,
     <1>13, <1>14, <1>15, <1>16, <1>17, <1>18, <1>19, <1>20, <1>21, <1>22,
     <1>23, <1>24, <1>25, <1>26, <1>27
  DEF Next, OrderFlowNext, DispatchNext, BatchNext, ShiftNext

(* A call stays whole through every step, for as long as the order waits.      *)
LEMMA CallStep == ASSUME IInv, [Next]_vars  PROVE CallIsKept'
<1> USE DEF IInv, TypeOK, CallIsKept
<1>1. ASSUME NEW o \in Orders, PaymentReleasesOrder(o)
      PROVE  CallIsKept'
  BY <1>1, NullIsNoRow DEF PaymentReleasesOrder
<1>2. ASSUME NEW o \in Orders, PaymentCancelsOrder(o)
      PROVE  CallIsKept'
  BY <1>2, NullIsNoRow DEF PaymentCancelsOrder, Cancel
<1>3. ASSUME NEW o \in Orders, customerCancelOrder(o)
      PROVE  CallIsKept'
  BY <1>3, NullIsNoRow DEF customerCancelOrder, Cancel
<1>4. ASSUME NEW o \in Orders, storeResolveCancelRequest(o)
      PROVE  CallIsKept'
  BY <1>4, NullIsNoRow DEF storeResolveCancelRequest, Cancel
<1>5. ASSUME NEW o \in Orders, rejectAmendment(o)
      PROVE  CallIsKept'
  BY <1>5, NullIsNoRow DEF rejectAmendment, Cancel
<1>6. ASSUME NEW stale \in SUBSET Orders, cancelStalePendingOrders(stale)
      PROVE  CallIsKept'
  BY <1>6, NullIsNoRow DEF cancelStalePendingOrders
<1>7. ASSUME NEW o \in Orders, withdrawDriverRequest(o)
      PROVE  CallIsKept'
  BY <1>7, NullIsNoRow DEF withdrawDriverRequest, ClearRequest
<1>8. ASSUME NEW o \in Orders, NEW to \in STORE_ALLOWED, storeUpdateOrderStatus(o, to)
      PROVE  CallIsKept'
  <2>1. status[o] # "CANCELLED"
    BY <1>8, TransitionRules DEF storeUpdateOrderStatus
  <2>2. to = "CANCELLED" \/ batchId'[o] = batchId[o]
    BY <1>8 DEF storeUpdateOrderStatus
  <2>3. status'[o] = "AWAITING_DRIVER" =>
          target[o] # "NONE" /\ batchId[o] = Null /\ to # "CANCELLED"
    BY <1>8 DEF storeUpdateOrderStatus, STORE_ALLOWED
  <2>4. /\ status'[o] # "CANCELLED" => to # "CANCELLED"
        /\ \A p \in Orders \ {o} : status'[p] = status[p] /\ batchId'[p] = batchId[p]
        /\ batchId'[o] = Null \/ batchId'[o] = batchId[o]
        /\ UNCHANGED request
    BY <1>8 DEF storeUpdateOrderStatus
  <2>5. QED
    BY <2>1, <2>2, <2>3, <2>4
<1>9. ASSUME NEW o \in Orders, NEW to \in TARGETS, NEW d \in Drivers \cup {Null}, setDriverRequestTarget(o, to, d)
      PROVE  CallIsKept'
  BY <1>9, NullIsNoRow DEF setDriverRequestTarget, TARGETS
<1>10. ASSUME NEW d \in Drivers, NEW o \in Orders, collectDelivery(d, o)
       PROVE  CallIsKept'
  BY <1>10, NullIsNoRow DEF collectDelivery, COLLECTIBLE
<1>11. ASSUME NEW o \in Orders, storeReleaseDriver(o)
       PROVE  CallIsKept'
  BY <1>11, NullIsNoRow DEF storeReleaseDriver, Unassign, ClearRequest
<1>12. ASSUME NEW d \in Drivers, NEW o \in Orders, completeDelivery(d, o)
       PROVE  CallIsKept'
  BY <1>12, NullIsNoRow DEF completeDelivery
<1>13. ASSUME NEW d \in Drivers, NEW o \in Orders, failDelivery(d, o)
       PROVE  CallIsKept'
  BY <1>13, NullIsNoRow DEF failDelivery
<1>14. ASSUME NEW b \in Batches, NEW ids \in SUBSET Orders, createBatch(b, ids)
       PROVE  CallIsKept'
  BY <1>14, NullIsNoRow DEF createBatch, BATCHABLE_STATUSES
<1>15. ASSUME NEW b \in Batches, NEW to \in TARGETS, NEW d \in Drivers \cup {Null}, broadcastBatch(b, to, d)
       PROVE  CallIsKept'
  <2>1. to # "NONE"
    BY <1>15 DEF TARGETS
  <2>2. \A p \in Orders : batchId[p] # b =>
          target'[p] = target[p] /\ requestedDriver'[p] = requestedDriver[p]
          /\ refused'[p] = refused[p]
    BY <1>15 DEF broadcastBatch
  <2>3. /\ \A p \in Orders : batchId[p] = b => target'[p] = to /\ ~refused'[p]
        /\ UNCHANGED <<status, batchId>>
    BY <1>15 DEF broadcastBatch
  <2>4. QED
    BY <2>1, <2>2, <2>3, NullIsNoRow
<1>16. ASSUME NEW b \in Batches, cancelBatch(b) PROVE  CallIsKept'
  <2>1. \A p \in Orders : batchId[p] = b =>
          target'[p] = "NONE" /\ ~refused'[p] /\ batchId'[p] = Null
    BY <1>16 DEF cancelBatch, ClearRequest, OrdersOf
  <2>2. \A p \in Orders : batchId[p] # b =>
          target'[p] = target[p] /\ requestedDriver'[p] = requestedDriver[p]
          /\ refused'[p] = refused[p] /\ batchId'[p] = batchId[p]
    BY <1>16 DEF cancelBatch, ClearRequest, OrdersOf
  <2>3. status' = status /\ b # Null
    BY <1>16, NullIsNoRow DEF cancelBatch
  <2>4. QED
    BY <2>1, <2>2, <2>3
<1>17. ASSUME NEW d \in Drivers, NEW b \in Batches, collectBatch(d, b)
       PROVE  CallIsKept'
  BY <1>17, NullIsNoRow DEF collectBatch, OrdersOf
<1>18. ASSUME NEW d \in Drivers, NEW o \in Orders,
              acceptDeliveryReads(d, o) \/ releaseDelivery(d, o)
              \/ acceptShiftDelivery(d, o) \/ refuseDirectDelivery(d, o)
              \/ confirmArrival(d, o) \/ markDriverReturned(d, o)
       PROVE  CallIsKept'
  BY <1>18
  DEF acceptDeliveryReads, releaseDelivery, acceptShiftDelivery,
      refuseDirectDelivery, confirmArrival, markDriverReturned, Unassign
<1>19. ASSUME NEW t \in holding,
              acceptDelivery(t) \/ startShift(t)
       PROVE  CallIsKept'
  BY <1>19 DEF acceptDelivery, startShift
<1>20. ASSUME NEW o \in Orders,
              confirmReturn(o)
       PROVE  CallIsKept'
  BY <1>20 DEF confirmReturn
<1>21. ASSUME NEW d \in Drivers, NEW b \in Batches,
              acceptBatch(d, b) \/ releaseBatch(d, b) \/ refuseBatch(d, b)
       PROVE  CallIsKept'
  BY <1>21 DEF acceptBatch, releaseBatch, refuseBatch, AssignBatch
<1>22. ASSUME NEW d \in Drivers, NEW s \in Shifts,
              startShiftReads(d, s)
       PROVE  CallIsKept'
  BY <1>22 DEF startShiftReads
<1>23. ASSUME NEW s \in Shifts,
              endShift(s) \/ closeShift(s) \/ autoApproveStaleShiftDailies(s)
              \/ offerShiftReactivation(s) \/ reactivateShift(s)
       PROVE  CallIsKept'
  BY <1>23
  DEF endShift, closeShift, autoApproveStaleShiftDailies,
      offerShiftReactivation, reactivateShift, Leave, decideShiftDaily
<1>24. ASSUME NEW s \in Shifts, NEW approve \in BOOLEAN,
              decideShiftDaily(s, approve)
       PROVE  CallIsKept'
  BY <1>24 DEF decideShiftDaily
<1>25. CASE UNCHANGED vars
  BY <1>25 DEF vars
<1>26. QED
  BY <1>1, <1>2, <1>3, <1>4, <1>5, <1>6, <1>7, <1>8, <1>9, <1>10, <1>11, <1>12,
     <1>13, <1>14, <1>15, <1>16, <1>17, <1>18, <1>19, <1>20, <1>21, <1>22,
     <1>23, <1>24, <1>25
  DEF Next, OrderFlowNext, DispatchNext, BatchNext, ShiftNext

(* A shift that holds an unfinished order stays active.                        *)
LEMMA ShiftHoldsStep == ASSUME IInv, [Next]_vars  PROVE ShiftHoldsItsOrders'
<1> USE DEF IInv, TypeOK, ShiftHoldsItsOrders, Finished
<1>1. ASSUME NEW o \in Orders, PaymentReleasesOrder(o)
      PROVE  ShiftHoldsItsOrders'
  BY <1>1, NullIsNoRow DEF PaymentReleasesOrder
<1>2. ASSUME NEW o \in Orders, PaymentCancelsOrder(o)
      PROVE  ShiftHoldsItsOrders'
  BY <1>2, NullIsNoRow DEF PaymentCancelsOrder, Cancel
<1>3. ASSUME NEW o \in Orders, customerCancelOrder(o)
      PROVE  ShiftHoldsItsOrders'
  BY <1>3, NullIsNoRow DEF customerCancelOrder, Cancel
<1>4. ASSUME NEW o \in Orders, storeResolveCancelRequest(o)
      PROVE  ShiftHoldsItsOrders'
  BY <1>4, NullIsNoRow
  DEF storeResolveCancelRequest, Cancel, REQUESTABLE, ACCEPTABLE
<1>5. ASSUME NEW o \in Orders, rejectAmendment(o) PROVE  ShiftHoldsItsOrders'
  BY <1>5, NullIsNoRow DEF rejectAmendment, Cancel
<1>6. ASSUME NEW stale \in SUBSET Orders, cancelStalePendingOrders(stale)
      PROVE  ShiftHoldsItsOrders'
  BY <1>6, NullIsNoRow DEF cancelStalePendingOrders
<1>7. ASSUME NEW o \in Orders, withdrawDriverRequest(o)
      PROVE  ShiftHoldsItsOrders'
  BY <1>7, NullIsNoRow DEF withdrawDriverRequest, ClearRequest
<1>8. ASSUME NEW o \in Orders, NEW to \in STORE_ALLOWED, storeUpdateOrderStatus(o, to)
      PROVE  ShiftHoldsItsOrders'
  BY <1>8, NullIsNoRow, TransitionRules DEF storeUpdateOrderStatus
<1>9. ASSUME NEW o \in Orders, NEW to \in TARGETS, NEW d \in Drivers \cup {Null}, setDriverRequestTarget(o, to, d)
      PROVE  ShiftHoldsItsOrders'
  BY <1>9, NullIsNoRow
  DEF setDriverRequestTarget, REQUESTABLE_FOR_DRIVER, ACCEPTABLE
<1>10. ASSUME NEW t \in holding, acceptDelivery(t) PROVE  ShiftHoldsItsOrders'
  BY <1>10, NullIsNoRow, RowsHaveOwners DEF acceptDelivery, InGeneralPool, Txn
<1>11. ASSUME NEW d \in Drivers, NEW o \in Orders, releaseDelivery(d, o)
       PROVE  ShiftHoldsItsOrders'
  BY <1>11, NullIsNoRow DEF releaseDelivery, Unassign
<1>12. ASSUME NEW d \in Drivers, NEW o \in Orders, acceptShiftDelivery(d, o)
       PROVE  ShiftHoldsItsOrders'
  BY <1>12, NullIsNoRow, RowsHaveOwners DEF acceptShiftDelivery, ActiveShifts
<1>13. ASSUME NEW d \in Drivers, NEW o \in Orders, collectDelivery(d, o)
       PROVE  ShiftHoldsItsOrders'
  BY <1>13, NullIsNoRow DEF collectDelivery, COLLECTIBLE
<1>14. ASSUME NEW o \in Orders, storeReleaseDriver(o)
       PROVE  ShiftHoldsItsOrders'
  BY <1>14, NullIsNoRow
  DEF storeReleaseDriver, Unassign, ClearRequest, ACCEPTABLE
<1>15. ASSUME NEW d \in Drivers, NEW o \in Orders, completeDelivery(d, o)
       PROVE  ShiftHoldsItsOrders'
  BY <1>15, NullIsNoRow DEF completeDelivery
<1>16. ASSUME NEW d \in Drivers, NEW o \in Orders, failDelivery(d, o)
       PROVE  ShiftHoldsItsOrders'
  BY <1>16, NullIsNoRow DEF failDelivery
<1>17. ASSUME NEW o \in Orders, confirmReturn(o) PROVE  ShiftHoldsItsOrders'
  BY <1>17, NullIsNoRow DEF confirmReturn, ReturnPending
<1>18. ASSUME NEW b \in Batches, cancelBatch(b) PROVE  ShiftHoldsItsOrders'
  BY <1>18, NullIsNoRow DEF cancelBatch, ClearRequest, OrdersOf
<1>19. ASSUME NEW d \in Drivers, NEW b \in Batches, acceptBatch(d, b)
       PROVE  ShiftHoldsItsOrders'
  BY <1>19, NullIsNoRow, RowsHaveOwners
  DEF acceptBatch, AssignBatch, ActiveShifts, OrdersOf, OfferedToShift,
      OnlyAcceptedOrdersMove
<1>20. ASSUME NEW d \in Drivers, NEW b \in Batches, releaseBatch(d, b)
       PROVE  ShiftHoldsItsOrders'
  BY <1>20, NullIsNoRow DEF releaseBatch
<1>21. ASSUME NEW d \in Drivers, NEW b \in Batches, collectBatch(d, b)
       PROVE  ShiftHoldsItsOrders'
  BY <1>21, NullIsNoRow DEF collectBatch, OrdersOf
<1>22. ASSUME NEW t \in holding, startShift(t) PROVE  ShiftHoldsItsOrders'
  BY <1>22, NullIsNoRow DEF startShift
<1>23. ASSUME NEW s \in Shifts, endShift(s) PROVE  ShiftHoldsItsOrders'
  BY <1>23, NullIsNoRow DEF endShift, Leave, hasUnfinishedOrder
<1>24. ASSUME NEW s \in Shifts, closeShift(s) PROVE  ShiftHoldsItsOrders'
  BY <1>24, NullIsNoRow DEF closeShift, Leave, hasUnfinishedOrder
<1>25. ASSUME NEW s \in Shifts, NEW approve \in BOOLEAN, decideShiftDaily(s, approve)
       PROVE  ShiftHoldsItsOrders'
  BY <1>25, NullIsNoRow DEF decideShiftDaily
<1>26. ASSUME NEW s \in Shifts, autoApproveStaleShiftDailies(s)
       PROVE  ShiftHoldsItsOrders'
  BY <1>26, NullIsNoRow DEF autoApproveStaleShiftDailies, decideShiftDaily
<1>27. ASSUME NEW s \in Shifts, offerShiftReactivation(s)
       PROVE  ShiftHoldsItsOrders'
  BY <1>27, NullIsNoRow DEF offerShiftReactivation
<1>28. ASSUME NEW s \in Shifts, reactivateShift(s) PROVE  ShiftHoldsItsOrders'
  BY <1>28, NullIsNoRow DEF reactivateShift
<1>29. ASSUME NEW d \in Drivers, NEW o \in Orders,
              acceptDeliveryReads(d, o) \/ refuseDirectDelivery(d, o)
              \/ confirmArrival(d, o) \/ markDriverReturned(d, o)
       PROVE  ShiftHoldsItsOrders'
  BY <1>29
  DEF acceptDeliveryReads, refuseDirectDelivery, confirmArrival,
      markDriverReturned
<1>30. ASSUME NEW b \in Batches, NEW ids \in SUBSET Orders,
              createBatch(b, ids)
       PROVE  ShiftHoldsItsOrders'
  BY <1>30 DEF createBatch
<1>31. ASSUME NEW b \in Batches, NEW to \in TARGETS, NEW d \in Drivers \cup {Null},
              broadcastBatch(b, to, d)
       PROVE  ShiftHoldsItsOrders'
  BY <1>31 DEF broadcastBatch
<1>32. ASSUME NEW d \in Drivers, NEW b \in Batches,
              refuseBatch(d, b)
       PROVE  ShiftHoldsItsOrders'
  BY <1>32 DEF refuseBatch
<1>33. ASSUME NEW d \in Drivers, NEW s \in Shifts,
              startShiftReads(d, s)
       PROVE  ShiftHoldsItsOrders'
  BY <1>33 DEF startShiftReads
<1>34. CASE UNCHANGED vars
  BY <1>34 DEF vars
<1>35. QED
  BY <1>1, <1>2, <1>3, <1>4, <1>5, <1>6, <1>7, <1>8, <1>9, <1>10, <1>11, <1>12,
     <1>13, <1>14, <1>15, <1>16, <1>17, <1>18, <1>19, <1>20, <1>21, <1>22,
     <1>23, <1>24, <1>25, <1>26, <1>27, <1>28, <1>29, <1>30, <1>31, <1>32,
     <1>33, <1>34
  DEF Next, OrderFlowNext, DispatchNext, BatchNext, ShiftNext

(* A shift becomes active only when its driver has no other.                   *)
LEMMA OneActiveStep == ASSUME IInv, [Next]_vars  PROVE OneActiveShift'
<1> USE DEF IInv, TypeOK, OneActiveShift
<1>1. ASSUME NEW t \in holding, startShift(t) PROVE  OneActiveShift'
  BY <1>1 DEF startShift, ActiveShifts, HoldersAreRight, Txn
<1>2. ASSUME NEW s \in Shifts, endShift(s) PROVE  OneActiveShift'
  BY <1>2 DEF endShift, Leave
<1>3. ASSUME NEW s \in Shifts, closeShift(s) PROVE  OneActiveShift'
  BY <1>3 DEF closeShift, Leave
<1>4. ASSUME NEW s \in Shifts, NEW approve \in BOOLEAN, decideShiftDaily(s, approve)
      PROVE  OneActiveShift'
  BY <1>4 DEF decideShiftDaily
<1>5. ASSUME NEW s \in Shifts, autoApproveStaleShiftDailies(s)
      PROVE  OneActiveShift'
  BY <1>5 DEF autoApproveStaleShiftDailies, decideShiftDaily
<1>6. ASSUME NEW s \in Shifts, offerShiftReactivation(s)
      PROVE  OneActiveShift'
  BY <1>6 DEF offerShiftReactivation
<1>7. ASSUME NEW s \in Shifts, reactivateShift(s) PROVE  OneActiveShift'
  BY <1>7 DEF reactivateShift, ActiveShifts
<1>8. ASSUME NEW o \in Orders,
             PaymentReleasesOrder(o) \/ PaymentCancelsOrder(o)
             \/ customerCancelOrder(o) \/ storeResolveCancelRequest(o)
             \/ rejectAmendment(o) \/ withdrawDriverRequest(o)
             \/ storeReleaseDriver(o) \/ confirmReturn(o)
      PROVE  OneActiveShift'
  BY <1>8
  DEF PaymentReleasesOrder, PaymentCancelsOrder, customerCancelOrder,
      storeResolveCancelRequest, rejectAmendment, withdrawDriverRequest,
      storeReleaseDriver, confirmReturn, Cancel, ClearRequest, Unassign
<1>9. ASSUME NEW stale \in SUBSET Orders,
             cancelStalePendingOrders(stale)
      PROVE  OneActiveShift'
  BY <1>9 DEF cancelStalePendingOrders
<1>10. ASSUME NEW o \in Orders, NEW to \in STORE_ALLOWED,
              storeUpdateOrderStatus(o, to)
       PROVE  OneActiveShift'
  BY <1>10 DEF storeUpdateOrderStatus
<1>11. ASSUME NEW o \in Orders, NEW to \in TARGETS, NEW d \in Drivers \cup {Null},
              setDriverRequestTarget(o, to, d)
       PROVE  OneActiveShift'
  BY <1>11 DEF setDriverRequestTarget
<1>12. ASSUME NEW d \in Drivers, NEW o \in Orders,
              acceptDeliveryReads(d, o) \/ releaseDelivery(d, o)
              \/ acceptShiftDelivery(d, o) \/ refuseDirectDelivery(d, o)
              \/ collectDelivery(d, o) \/ confirmArrival(d, o)
              \/ completeDelivery(d, o) \/ failDelivery(d, o)
              \/ markDriverReturned(d, o)
       PROVE  OneActiveShift'
  BY <1>12
  DEF acceptDeliveryReads, releaseDelivery, acceptShiftDelivery,
      refuseDirectDelivery, collectDelivery, confirmArrival, completeDelivery,
      failDelivery, markDriverReturned, Unassign
<1>13. ASSUME NEW t \in holding,
              acceptDelivery(t)
       PROVE  OneActiveShift'
  BY <1>13 DEF acceptDelivery
<1>14. ASSUME NEW b \in Batches, NEW ids \in SUBSET Orders,
              createBatch(b, ids)
       PROVE  OneActiveShift'
  BY <1>14 DEF createBatch
<1>15. ASSUME NEW b \in Batches, NEW to \in TARGETS, NEW d \in Drivers \cup {Null},
              broadcastBatch(b, to, d)
       PROVE  OneActiveShift'
  BY <1>15 DEF broadcastBatch
<1>16. ASSUME NEW b \in Batches,
              cancelBatch(b)
       PROVE  OneActiveShift'
  BY <1>16 DEF cancelBatch, ClearRequest
<1>17. ASSUME NEW d \in Drivers, NEW b \in Batches,
              acceptBatch(d, b) \/ releaseBatch(d, b) \/ refuseBatch(d, b)
              \/ collectBatch(d, b)
       PROVE  OneActiveShift'
  BY <1>17
  DEF acceptBatch, releaseBatch, refuseBatch, collectBatch, AssignBatch
<1>18. ASSUME NEW d \in Drivers, NEW s \in Shifts,
              startShiftReads(d, s)
       PROVE  OneActiveShift'
  BY <1>18 DEF startShiftReads
<1>19. CASE UNCHANGED vars
  BY <1>19 DEF vars
<1>20. QED
  BY <1>1, <1>2, <1>3, <1>4, <1>5, <1>6, <1>7, <1>8, <1>9, <1>10, <1>11, <1>12,
     <1>13, <1>14, <1>15, <1>16, <1>17, <1>18, <1>19
  DEF Next, OrderFlowNext, DispatchNext, BatchNext, ShiftNext

(* What was paid for stays delivered, returned or closed.                      *)
LEMMA PayFollowsStep == ASSUME IInv, [Next]_vars  PROVE PayFollowsTheGoods'
<1> USE DEF IInv, TypeOK, PayFollowsTheGoods, ReturnPayKinds, DeliveryPayKinds,
    Entry
<1>1. ASSUME NEW o \in Orders, PaymentReleasesOrder(o)
      PROVE  PayFollowsTheGoods'
  BY <1>1 DEF PaymentReleasesOrder
<1>2. ASSUME NEW o \in Orders, PaymentCancelsOrder(o)
      PROVE  PayFollowsTheGoods'
  BY <1>2 DEF PaymentCancelsOrder, Cancel
<1>3. ASSUME NEW o \in Orders, customerCancelOrder(o)
      PROVE  PayFollowsTheGoods'
  BY <1>3 DEF customerCancelOrder, Cancel
<1>4. ASSUME NEW o \in Orders, storeResolveCancelRequest(o)
      PROVE  PayFollowsTheGoods'
  BY <1>4 DEF storeResolveCancelRequest, Cancel, REQUESTABLE, ACCEPTABLE
<1>5. ASSUME NEW o \in Orders, rejectAmendment(o) PROVE  PayFollowsTheGoods'
  BY <1>5 DEF rejectAmendment, Cancel
<1>6. ASSUME NEW stale \in SUBSET Orders, cancelStalePendingOrders(stale)
      PROVE  PayFollowsTheGoods'
  BY <1>6 DEF cancelStalePendingOrders
<1>7. ASSUME NEW o \in Orders, withdrawDriverRequest(o)
      PROVE  PayFollowsTheGoods'
  BY <1>7 DEF withdrawDriverRequest, ClearRequest
<1>8. ASSUME NEW o \in Orders, NEW to \in STORE_ALLOWED, storeUpdateOrderStatus(o, to)
      PROVE  PayFollowsTheGoods'
  BY <1>8, TransitionRules
  DEF storeUpdateOrderStatus, recordOrderLedger, insertEntries
<1>9. ASSUME NEW o \in Orders, NEW to \in TARGETS, NEW d \in Drivers \cup {Null}, setDriverRequestTarget(o, to, d)
      PROVE  PayFollowsTheGoods'
  BY <1>9 DEF setDriverRequestTarget, REQUESTABLE_FOR_DRIVER, ACCEPTABLE
<1>10. ASSUME NEW d \in Drivers, NEW o \in Orders, collectDelivery(d, o)
       PROVE  PayFollowsTheGoods'
  BY <1>10 DEF collectDelivery, COLLECTIBLE
<1>11. ASSUME NEW o \in Orders, storeReleaseDriver(o)
       PROVE  PayFollowsTheGoods'
  BY <1>11
  DEF storeReleaseDriver, Unassign, ClearRequest, ACCEPTABLE, recordHalfFee,
      insertEntries
<1>12. ASSUME NEW d \in Drivers, NEW o \in Orders, completeDelivery(d, o)
       PROVE  PayFollowsTheGoods'
  BY <1>12 DEF completeDelivery, recordOrderLedger, insertEntries
<1>13. ASSUME NEW d \in Drivers, NEW o \in Orders, failDelivery(d, o)
       PROVE  PayFollowsTheGoods'
  BY <1>13 DEF failDelivery
<1>14. ASSUME NEW o \in Orders, confirmReturn(o) PROVE  PayFollowsTheGoods'
  BY <1>14 DEF confirmReturn, ReturnPending, recordReturnLedger, insertEntries
<1>15. ASSUME NEW d \in Drivers, NEW b \in Batches, collectBatch(d, b)
       PROVE  PayFollowsTheGoods'
  BY <1>15 DEF collectBatch, OrdersOf
<1>16. ASSUME NEW t \in holding, startShift(t) PROVE  PayFollowsTheGoods'
  BY <1>16 DEF startShift
<1>17. ASSUME NEW s \in Shifts, endShift(s) PROVE  PayFollowsTheGoods'
  BY <1>17 DEF endShift, Leave
<1>18. ASSUME NEW s \in Shifts, closeShift(s) PROVE  PayFollowsTheGoods'
  BY <1>18 DEF closeShift, Leave, recordShiftDaily, insertEntries
<1>19. ASSUME NEW s \in Shifts, NEW approve \in BOOLEAN, decideShiftDaily(s, approve)
       PROVE  PayFollowsTheGoods'
  BY <1>19 DEF decideShiftDaily, recordShiftDaily, insertEntries
<1>20. ASSUME NEW s \in Shifts, autoApproveStaleShiftDailies(s)
       PROVE  PayFollowsTheGoods'
  BY <1>20
  DEF autoApproveStaleShiftDailies, decideShiftDaily, recordShiftDaily,
      insertEntries
<1>21. ASSUME NEW s \in Shifts, offerShiftReactivation(s)
       PROVE  PayFollowsTheGoods'
  BY <1>21 DEF offerShiftReactivation
<1>22. ASSUME NEW s \in Shifts, reactivateShift(s) PROVE  PayFollowsTheGoods'
  BY <1>22 DEF reactivateShift
<1>23. ASSUME NEW d \in Drivers, NEW o \in Orders,
              acceptDeliveryReads(d, o) \/ releaseDelivery(d, o)
              \/ acceptShiftDelivery(d, o) \/ refuseDirectDelivery(d, o)
              \/ confirmArrival(d, o) \/ markDriverReturned(d, o)
       PROVE  PayFollowsTheGoods'
  BY <1>23
  DEF acceptDeliveryReads, releaseDelivery, acceptShiftDelivery,
      refuseDirectDelivery, confirmArrival, markDriverReturned, Unassign
<1>24. ASSUME NEW t \in holding,
              acceptDelivery(t)
       PROVE  PayFollowsTheGoods'
  BY <1>24 DEF acceptDelivery
<1>25. ASSUME NEW b \in Batches, NEW ids \in SUBSET Orders,
              createBatch(b, ids)
       PROVE  PayFollowsTheGoods'
  BY <1>25 DEF createBatch
<1>26. ASSUME NEW b \in Batches, NEW to \in TARGETS, NEW d \in Drivers \cup {Null},
              broadcastBatch(b, to, d)
       PROVE  PayFollowsTheGoods'
  BY <1>26 DEF broadcastBatch
<1>27. ASSUME NEW b \in Batches,
              cancelBatch(b)
       PROVE  PayFollowsTheGoods'
  BY <1>27 DEF cancelBatch, ClearRequest
<1>28. ASSUME NEW d \in Drivers, NEW b \in Batches,
              acceptBatch(d, b) \/ releaseBatch(d, b) \/ refuseBatch(d, b)
       PROVE  PayFollowsTheGoods'
  BY <1>28 DEF acceptBatch, releaseBatch, refuseBatch, AssignBatch
<1>29. ASSUME NEW d \in Drivers, NEW s \in Shifts,
              startShiftReads(d, s)
       PROVE  PayFollowsTheGoods'
  BY <1>29 DEF startShiftReads
<1>30. CASE UNCHANGED vars
  BY <1>30 DEF vars
<1>31. QED
  BY <1>1, <1>2, <1>3, <1>4, <1>5, <1>6, <1>7, <1>8, <1>9, <1>10, <1>11, <1>12,
     <1>13, <1>14, <1>15, <1>16, <1>17, <1>18, <1>19, <1>20, <1>21, <1>22,
     <1>23, <1>24, <1>25, <1>26, <1>27, <1>28, <1>29, <1>30
  DEF Next, OrderFlowNext, DispatchNext, BatchNext, ShiftNext

(* The one entry that pays for the delivery is written when the order is      *)
(* delivered or back, and then none is there yet.                              *)
LEMMA OneDeliveryPayStep == ASSUME IInv, [Next]_vars  PROVE OneDeliveryPay'
<1> USE DEF IInv, TypeOK, OneDeliveryPay, PayFollowsTheGoods, DeliveryPayKinds,
    ReturnPayKinds
<1>1. ASSUME NEW o \in Orders, NEW to \in STORE_ALLOWED, storeUpdateOrderStatus(o, to)
      PROVE  OneDeliveryPay'
  BY <1>1, TransitionRules
  DEF storeUpdateOrderStatus, recordOrderLedger, insertEntries
<1>2. ASSUME NEW o \in Orders, storeReleaseDriver(o) PROVE  OneDeliveryPay'
  BY <1>2
  DEF storeReleaseDriver, Unassign, ClearRequest, recordHalfFee, insertEntries
<1>3. ASSUME NEW d \in Drivers, NEW o \in Orders, completeDelivery(d, o)
      PROVE  OneDeliveryPay'
  BY <1>3 DEF completeDelivery, recordOrderLedger, insertEntries
<1>4. ASSUME NEW o \in Orders, confirmReturn(o) PROVE  OneDeliveryPay'
  BY <1>4 DEF confirmReturn, ReturnPending, recordReturnLedger, insertEntries
<1>5. ASSUME NEW s \in Shifts, closeShift(s) PROVE  OneDeliveryPay'
  BY <1>5 DEF closeShift, Leave, recordShiftDaily, insertEntries
<1>6. ASSUME NEW s \in Shifts, NEW approve \in BOOLEAN, decideShiftDaily(s, approve)
      PROVE  OneDeliveryPay'
  BY <1>6 DEF decideShiftDaily, recordShiftDaily, insertEntries
<1>7. ASSUME NEW s \in Shifts, autoApproveStaleShiftDailies(s)
      PROVE  OneDeliveryPay'
  BY <1>7
  DEF autoApproveStaleShiftDailies, decideShiftDaily, recordShiftDaily,
      insertEntries
<1>8. ASSUME NEW o \in Orders,
             PaymentReleasesOrder(o) \/ PaymentCancelsOrder(o)
             \/ customerCancelOrder(o) \/ storeResolveCancelRequest(o)
             \/ rejectAmendment(o) \/ withdrawDriverRequest(o)
      PROVE  OneDeliveryPay'
  BY <1>8
  DEF PaymentReleasesOrder, PaymentCancelsOrder, customerCancelOrder,
      storeResolveCancelRequest, rejectAmendment, withdrawDriverRequest,
      Cancel, ClearRequest
<1>9. ASSUME NEW stale \in SUBSET Orders,
             cancelStalePendingOrders(stale)
      PROVE  OneDeliveryPay'
  BY <1>9 DEF cancelStalePendingOrders
<1>10. ASSUME NEW o \in Orders, NEW to \in TARGETS, NEW d \in Drivers \cup {Null},
              setDriverRequestTarget(o, to, d)
       PROVE  OneDeliveryPay'
  BY <1>10 DEF setDriverRequestTarget
<1>11. ASSUME NEW d \in Drivers, NEW o \in Orders,
              acceptDeliveryReads(d, o) \/ releaseDelivery(d, o)
              \/ acceptShiftDelivery(d, o) \/ refuseDirectDelivery(d, o)
              \/ collectDelivery(d, o) \/ confirmArrival(d, o)
              \/ failDelivery(d, o) \/ markDriverReturned(d, o)
       PROVE  OneDeliveryPay'
  BY <1>11
  DEF acceptDeliveryReads, releaseDelivery, acceptShiftDelivery,
      refuseDirectDelivery, collectDelivery, confirmArrival, failDelivery,
      markDriverReturned, Unassign
<1>12. ASSUME NEW t \in holding,
              acceptDelivery(t) \/ startShift(t)
       PROVE  OneDeliveryPay'
  BY <1>12 DEF acceptDelivery, startShift
<1>13. ASSUME NEW b \in Batches, NEW ids \in SUBSET Orders,
              createBatch(b, ids)
       PROVE  OneDeliveryPay'
  BY <1>13 DEF createBatch
<1>14. ASSUME NEW b \in Batches, NEW to \in TARGETS, NEW d \in Drivers \cup {Null},
              broadcastBatch(b, to, d)
       PROVE  OneDeliveryPay'
  BY <1>14 DEF broadcastBatch
<1>15. ASSUME NEW b \in Batches,
              cancelBatch(b)
       PROVE  OneDeliveryPay'
  BY <1>15 DEF cancelBatch, ClearRequest
<1>16. ASSUME NEW d \in Drivers, NEW b \in Batches,
              acceptBatch(d, b) \/ releaseBatch(d, b) \/ refuseBatch(d, b)
              \/ collectBatch(d, b)
       PROVE  OneDeliveryPay'
  BY <1>16
  DEF acceptBatch, releaseBatch, refuseBatch, collectBatch, AssignBatch
<1>17. ASSUME NEW d \in Drivers, NEW s \in Shifts,
              startShiftReads(d, s)
       PROVE  OneDeliveryPay'
  BY <1>17 DEF startShiftReads
<1>18. ASSUME NEW s \in Shifts,
              endShift(s) \/ offerShiftReactivation(s) \/ reactivateShift(s)
       PROVE  OneDeliveryPay'
  BY <1>18 DEF endShift, offerShiftReactivation, reactivateShift, Leave
<1>19. CASE UNCHANGED vars
  BY <1>19 DEF vars
<1>20. QED
  BY <1>1, <1>2, <1>3, <1>4, <1>5, <1>6, <1>7, <1>8, <1>9, <1>10, <1>11, <1>12,
     <1>13, <1>14, <1>15, <1>16, <1>17, <1>18, <1>19
  DEF Next, OrderFlowNext, DispatchNext, BatchNext, ShiftNext

(* Nothing gets a driver or a package before the store accepted it.            *)
LEMMA OnlyAcceptedStep == ASSUME IInv, [Next]_vars  PROVE OnlyAcceptedOrdersMove'
<1> USE DEF IInv, TypeOK, OnlyAcceptedOrdersMove
<1>1. ASSUME NEW o \in Orders, PaymentReleasesOrder(o)
      PROVE  OnlyAcceptedOrdersMove'
  BY <1>1, NullIsNoRow DEF PaymentReleasesOrder
<1>2. ASSUME NEW o \in Orders, PaymentCancelsOrder(o)
      PROVE  OnlyAcceptedOrdersMove'
  BY <1>2, NullIsNoRow DEF PaymentCancelsOrder, Cancel
<1>3. ASSUME NEW o \in Orders, customerCancelOrder(o)
      PROVE  OnlyAcceptedOrdersMove'
  BY <1>3, NullIsNoRow DEF customerCancelOrder, Cancel
<1>4. ASSUME NEW o \in Orders, storeResolveCancelRequest(o)
      PROVE  OnlyAcceptedOrdersMove'
  BY <1>4, NullIsNoRow DEF storeResolveCancelRequest, Cancel
<1>5. ASSUME NEW o \in Orders, rejectAmendment(o)
      PROVE  OnlyAcceptedOrdersMove'
  BY <1>5, NullIsNoRow DEF rejectAmendment, Cancel
<1>6. ASSUME NEW stale \in SUBSET Orders, cancelStalePendingOrders(stale)
      PROVE  OnlyAcceptedOrdersMove'
  BY <1>6, NullIsNoRow DEF cancelStalePendingOrders
<1>7. ASSUME NEW o \in Orders, withdrawDriverRequest(o)
      PROVE  OnlyAcceptedOrdersMove'
  BY <1>7, NullIsNoRow DEF withdrawDriverRequest, ClearRequest
<1>8. ASSUME NEW o \in Orders, NEW to \in STORE_ALLOWED, storeUpdateOrderStatus(o, to)
      PROVE  OnlyAcceptedOrdersMove'
  BY <1>8, NullIsNoRow, TransitionRules DEF storeUpdateOrderStatus
<1>9. ASSUME NEW o \in Orders, NEW to \in TARGETS, NEW d \in Drivers \cup {Null}, setDriverRequestTarget(o, to, d)
      PROVE  OnlyAcceptedOrdersMove'
  BY <1>9, NullIsNoRow DEF setDriverRequestTarget
<1>10. ASSUME NEW t \in holding, acceptDelivery(t)
       PROVE  OnlyAcceptedOrdersMove'
  BY <1>10, NullIsNoRow DEF acceptDelivery, InGeneralPool, ACCEPTABLE
<1>11. ASSUME NEW d \in Drivers, NEW o \in Orders, releaseDelivery(d, o)
       PROVE  OnlyAcceptedOrdersMove'
  BY <1>11, NullIsNoRow DEF releaseDelivery, Unassign
<1>12. ASSUME NEW d \in Drivers, NEW o \in Orders, acceptShiftDelivery(d, o)
       PROVE  OnlyAcceptedOrdersMove'
  BY <1>12, NullIsNoRow DEF acceptShiftDelivery, ActiveShifts, ACCEPTABLE
<1>13. ASSUME NEW d \in Drivers, NEW o \in Orders, collectDelivery(d, o)
       PROVE  OnlyAcceptedOrdersMove'
  BY <1>13, NullIsNoRow DEF collectDelivery
<1>14. ASSUME NEW o \in Orders, storeReleaseDriver(o)
       PROVE  OnlyAcceptedOrdersMove'
  BY <1>14, NullIsNoRow DEF storeReleaseDriver, Unassign, ClearRequest
<1>15. ASSUME NEW d \in Drivers, NEW o \in Orders, completeDelivery(d, o)
       PROVE  OnlyAcceptedOrdersMove'
  BY <1>15, NullIsNoRow DEF completeDelivery
<1>16. ASSUME NEW d \in Drivers, NEW o \in Orders, failDelivery(d, o)
       PROVE  OnlyAcceptedOrdersMove'
  BY <1>16, NullIsNoRow DEF failDelivery
<1>17. ASSUME NEW b \in Batches, NEW ids \in SUBSET Orders, createBatch(b, ids)
       PROVE  OnlyAcceptedOrdersMove'
  BY <1>17, NullIsNoRow DEF createBatch, BATCHABLE_STATUSES
<1>18. ASSUME NEW b \in Batches, cancelBatch(b) PROVE  OnlyAcceptedOrdersMove'
  BY <1>18, NullIsNoRow DEF cancelBatch, ClearRequest, OrdersOf
<1>19. ASSUME NEW d \in Drivers, NEW b \in Batches, acceptBatch(d, b)
       PROVE  OnlyAcceptedOrdersMove'
  BY <1>19, NullIsNoRow DEF acceptBatch, AssignBatch
<1>20. ASSUME NEW d \in Drivers, NEW b \in Batches, releaseBatch(d, b)
       PROVE  OnlyAcceptedOrdersMove'
  BY <1>20, NullIsNoRow DEF releaseBatch
<1>21. ASSUME NEW d \in Drivers, NEW b \in Batches, collectBatch(d, b)
       PROVE  OnlyAcceptedOrdersMove'
  BY <1>21, NullIsNoRow DEF collectBatch, OrdersOf
<1>22. ASSUME NEW d \in Drivers, NEW o \in Orders,
              acceptDeliveryReads(d, o) \/ refuseDirectDelivery(d, o)
              \/ confirmArrival(d, o) \/ markDriverReturned(d, o)
       PROVE  OnlyAcceptedOrdersMove'
  BY <1>22
  DEF acceptDeliveryReads, refuseDirectDelivery, confirmArrival,
      markDriverReturned
<1>23. ASSUME NEW o \in Orders,
              confirmReturn(o)
       PROVE  OnlyAcceptedOrdersMove'
  BY <1>23 DEF confirmReturn
<1>24. ASSUME NEW b \in Batches, NEW to \in TARGETS, NEW d \in Drivers \cup {Null},
              broadcastBatch(b, to, d)
       PROVE  OnlyAcceptedOrdersMove'
  BY <1>24 DEF broadcastBatch
<1>25. ASSUME NEW d \in Drivers, NEW b \in Batches,
              refuseBatch(d, b)
       PROVE  OnlyAcceptedOrdersMove'
  BY <1>25 DEF refuseBatch
<1>26. ASSUME NEW d \in Drivers, NEW s \in Shifts,
              startShiftReads(d, s)
       PROVE  OnlyAcceptedOrdersMove'
  BY <1>26 DEF startShiftReads
<1>27. ASSUME NEW t \in holding,
              startShift(t)
       PROVE  OnlyAcceptedOrdersMove'
  BY <1>27 DEF startShift
<1>28. ASSUME NEW s \in Shifts,
              endShift(s) \/ closeShift(s) \/ autoApproveStaleShiftDailies(s)
              \/ offerShiftReactivation(s) \/ reactivateShift(s)
       PROVE  OnlyAcceptedOrdersMove'
  BY <1>28
  DEF endShift, closeShift, autoApproveStaleShiftDailies,
      offerShiftReactivation, reactivateShift, Leave, decideShiftDaily
<1>29. ASSUME NEW s \in Shifts, NEW approve \in BOOLEAN,
              decideShiftDaily(s, approve)
       PROVE  OnlyAcceptedOrdersMove'
  BY <1>29 DEF decideShiftDaily
<1>30. CASE UNCHANGED vars
  BY <1>30 DEF vars
<1>31. QED
  BY <1>1, <1>2, <1>3, <1>4, <1>5, <1>6, <1>7, <1>8, <1>9, <1>10, <1>11, <1>12,
     <1>13, <1>14, <1>15, <1>16, <1>17, <1>18, <1>19, <1>20, <1>21, <1>22,
     <1>23, <1>24, <1>25, <1>26, <1>27, <1>28, <1>29, <1>30
  DEF Next, OrderFlowNext, DispatchNext, BatchNext, ShiftNext

(* What a transaction read under the users lock stays true until its end.      *)
LEMMA HoldersStep == ASSUME IInv, [Next]_vars  PROVE HoldersAreRight'
<1> USE DEF IInv, TypeOK, HoldersAreRight, Txn, GeneralAssignments, InFlight,
    ACCEPTABLE, ActiveShifts
<1>1. ASSUME NEW o \in Orders, PaymentReleasesOrder(o) PROVE  HoldersAreRight'
  BY <1>1, NullIsNoRow DEF PaymentReleasesOrder
<1>2. ASSUME NEW o \in Orders, PaymentCancelsOrder(o) PROVE  HoldersAreRight'
  BY <1>2, NullIsNoRow DEF PaymentCancelsOrder, Cancel
<1>3. ASSUME NEW o \in Orders, customerCancelOrder(o) PROVE  HoldersAreRight'
  BY <1>3, NullIsNoRow DEF customerCancelOrder, Cancel
<1>4. ASSUME NEW o \in Orders, storeResolveCancelRequest(o)
      PROVE  HoldersAreRight'
  BY <1>4, NullIsNoRow DEF storeResolveCancelRequest, Cancel
<1>5. ASSUME NEW o \in Orders, rejectAmendment(o) PROVE  HoldersAreRight'
  BY <1>5, NullIsNoRow DEF rejectAmendment, Cancel
<1>6. ASSUME NEW stale \in SUBSET Orders, cancelStalePendingOrders(stale)
      PROVE  HoldersAreRight'
  BY <1>6, NullIsNoRow DEF cancelStalePendingOrders
<1>7. ASSUME NEW o \in Orders, withdrawDriverRequest(o)
      PROVE  HoldersAreRight'
  BY <1>7, NullIsNoRow DEF withdrawDriverRequest, ClearRequest
<1>8. ASSUME NEW o \in Orders, NEW to \in STORE_ALLOWED, storeUpdateOrderStatus(o, to)
      PROVE  HoldersAreRight'
  <2>1. status[o] \notin InFlight => driver[o] = Null
    BY <1>8, TransitionRules
    DEF storeUpdateOrderStatus, ORDER_STATUSES, OnlyAcceptedOrdersMove
  <2>2. \A p \in Orders :
          driver[p] # Null /\ status'[p] \in InFlight => status[p] \in InFlight
    BY <1>8, <2>1 DEF storeUpdateOrderStatus
  <2>3. QED
    BY <1>8, <2>2, NullIsNoRow DEF storeUpdateOrderStatus
<1>9. ASSUME NEW o \in Orders, NEW to \in TARGETS, NEW d \in Drivers \cup {Null}, setDriverRequestTarget(o, to, d)
      PROVE  HoldersAreRight'
  BY <1>9, NullIsNoRow
  DEF setDriverRequestTarget, REQUESTABLE_FOR_DRIVER, ACCEPTABLE
<1>10. ASSUME NEW d \in Drivers, NEW o \in Orders, acceptDeliveryReads(d, o)
       PROVE  HoldersAreRight'
  BY <1>10, NullIsNoRow DEF acceptDeliveryReads, UserRowFree
<1>11. ASSUME NEW t \in holding, acceptDelivery(t) PROVE  HoldersAreRight'
  BY <1>11, NullIsNoRow DEF acceptDelivery, InGeneralPool
<1>12. ASSUME NEW d \in Drivers, NEW o \in Orders, releaseDelivery(d, o)
       PROVE  HoldersAreRight'
  BY <1>12, NullIsNoRow DEF releaseDelivery, Unassign
<1>13. ASSUME NEW d \in Drivers, NEW o \in Orders, acceptShiftDelivery(d, o)
       PROVE  HoldersAreRight'
  BY <1>13, NullIsNoRow DEF acceptShiftDelivery, ActiveShifts, ACCEPTABLE
<1>14. ASSUME NEW d \in Drivers, NEW o \in Orders, collectDelivery(d, o)
       PROVE  HoldersAreRight'
  BY <1>14, NullIsNoRow DEF collectDelivery, COLLECTIBLE, ACCEPTABLE
<1>15. ASSUME NEW o \in Orders, storeReleaseDriver(o) PROVE  HoldersAreRight'
  BY <1>15, NullIsNoRow
  DEF storeReleaseDriver, Unassign, ClearRequest, ACCEPTABLE
<1>16. ASSUME NEW d \in Drivers, NEW o \in Orders, completeDelivery(d, o)
       PROVE  HoldersAreRight'
  BY <1>16, NullIsNoRow DEF completeDelivery
<1>17. ASSUME NEW d \in Drivers, NEW o \in Orders, failDelivery(d, o)
       PROVE  HoldersAreRight'
  BY <1>17, NullIsNoRow DEF failDelivery
<1>18. ASSUME NEW b \in Batches, cancelBatch(b) PROVE  HoldersAreRight'
  BY <1>18, NullIsNoRow
  DEF cancelBatch, ClearRequest, OrdersOf, BatchAgreesWithOrders
<1>19. ASSUME NEW d \in Drivers, NEW b \in Batches, acceptBatch(d, b)
       PROVE  HoldersAreRight'
  BY <1>19, NullIsNoRow DEF acceptBatch, AssignBatch, UserRowFree
<1>20. ASSUME NEW d \in Drivers, NEW b \in Batches, releaseBatch(d, b)
       PROVE  HoldersAreRight'
  BY <1>20, NullIsNoRow DEF releaseBatch
<1>21. ASSUME NEW d \in Drivers, NEW b \in Batches, collectBatch(d, b)
       PROVE  HoldersAreRight'
  BY <1>21, NullIsNoRow DEF collectBatch, OrdersOf
<1>22. ASSUME NEW d \in Drivers, NEW s \in Shifts, startShiftReads(d, s)
       PROVE  HoldersAreRight'
  BY <1>22, NullIsNoRow DEF startShiftReads, UserRowFree
<1>23. ASSUME NEW t \in holding, startShift(t) PROVE  HoldersAreRight'
  BY <1>23, NullIsNoRow DEF startShift
<1>24. ASSUME NEW s \in Shifts, endShift(s) PROVE  HoldersAreRight'
  BY <1>24, NullIsNoRow DEF endShift, Leave
<1>25. ASSUME NEW s \in Shifts, closeShift(s) PROVE  HoldersAreRight'
  BY <1>25, NullIsNoRow DEF closeShift, Leave
<1>26. ASSUME NEW s \in Shifts, NEW approve \in BOOLEAN, decideShiftDaily(s, approve)
       PROVE  HoldersAreRight'
  BY <1>26, NullIsNoRow DEF decideShiftDaily
<1>27. ASSUME NEW s \in Shifts, autoApproveStaleShiftDailies(s)
       PROVE  HoldersAreRight'
  BY <1>27, NullIsNoRow DEF autoApproveStaleShiftDailies, decideShiftDaily
<1>28. ASSUME NEW s \in Shifts, offerShiftReactivation(s)
       PROVE  HoldersAreRight'
  BY <1>28, NullIsNoRow DEF offerShiftReactivation
<1>29. ASSUME NEW s \in Shifts, reactivateShift(s) PROVE  HoldersAreRight'
  BY <1>29, NullIsNoRow DEF reactivateShift, UserRowFree
<1>30. ASSUME NEW d \in Drivers, NEW o \in Orders,
              refuseDirectDelivery(d, o) \/ confirmArrival(d, o)
              \/ markDriverReturned(d, o)
       PROVE  HoldersAreRight'
  BY <1>30 DEF refuseDirectDelivery, confirmArrival, markDriverReturned
<1>31. ASSUME NEW o \in Orders,
              confirmReturn(o)
       PROVE  HoldersAreRight'
  BY <1>31 DEF confirmReturn
<1>32. ASSUME NEW b \in Batches, NEW ids \in SUBSET Orders,
              createBatch(b, ids)
       PROVE  HoldersAreRight'
  BY <1>32 DEF createBatch
<1>33. ASSUME NEW b \in Batches, NEW to \in TARGETS, NEW d \in Drivers \cup {Null},
              broadcastBatch(b, to, d)
       PROVE  HoldersAreRight'
  BY <1>33 DEF broadcastBatch
<1>34. ASSUME NEW d \in Drivers, NEW b \in Batches,
              refuseBatch(d, b)
       PROVE  HoldersAreRight'
  BY <1>34 DEF refuseBatch
<1>35. CASE UNCHANGED vars
  BY <1>35 DEF vars
<1> HIDE DEF IInv, TypeOK, HoldersAreRight, Txn, GeneralAssignments, InFlight,
    ACCEPTABLE, ActiveShifts
<1>36. QED
  BY <1>1, <1>2, <1>3, <1>4, <1>5, <1>6, <1>7, <1>8, <1>9, <1>10, <1>11, <1>12,
     <1>13, <1>14, <1>15, <1>16, <1>17, <1>18, <1>19, <1>20, <1>21, <1>22,
     <1>23, <1>24, <1>25, <1>26, <1>27, <1>28, <1>29, <1>30, <1>31, <1>32,
     <1>33, <1>34, <1>35
  DEF Next, OrderFlowNext, DispatchNext, BatchNext, ShiftNext

(* A move of one order along the table is a step of the abstract lifecycle.    *)
LEMMA MoveOne ==
  ASSUME TypeOK, NEW o \in Orders, NEW to \in ORDER_STATUSES,
         Lifecycle!Visible(status[o], to),
         status' = [status EXCEPT ![o] = to]
  PROVE  Lifecycle!Next
<1>1. \A p \in {o} : Lifecycle!Visible(status[p], status'[p])
  BY DEF TypeOK
<1>2. status' \in [Orders -> Lifecycle!ORDER_STATUSES]
  BY DEF TypeOK, ORDER_STATUSES, Lifecycle!ORDER_STATUSES
<1>3. \A p \in Orders \ {o} : status'[p] = status[p]
  BY DEF TypeOK
<1>4. {o} \in SUBSET Orders /\ {o} # {}
  OBVIOUS
<1>5. QED
  BY <1>1, <1>2, <1>3, <1>4 DEF Lifecycle!Next

(* So is a move of several orders by the same edge.                            *)
LEMMA MoveAll ==
  ASSUME TypeOK, NEW moved \in SUBSET Orders, moved # {}, NEW to \in ORDER_STATUSES,
         \A o \in moved : Lifecycle!Visible(status[o], to),
         status' = [o \in Orders |-> IF o \in moved THEN to ELSE status[o]]
  PROVE  Lifecycle!Next
<1>1. \A p \in moved : Lifecycle!Visible(status[p], status'[p])
  OBVIOUS
<1>2. status' \in [Orders -> Lifecycle!ORDER_STATUSES]
  BY DEF TypeOK, ORDER_STATUSES, Lifecycle!ORDER_STATUSES
<1>3. \A p \in Orders \ moved : status'[p] = status[p]
  OBVIOUS
<1>4. QED
  BY <1>1, <1>2, <1>3 DEF Lifecycle!Next

(* The edges the actions take.                                                 *)
LEMMA Edges ==
  /\ \A from, to : canTransition(from, to) => Lifecycle!Visible(from, to)
  /\ \A from \in {"AWAITING_PAYMENT", "PENDING", "ACCEPTED", "PREPARING", "READY",
                   "AWAITING_DRIVER"} : Lifecycle!Visible(from, "CANCELLED")
  /\ Lifecycle!Visible("AWAITING_PAYMENT", "PENDING")
  /\ Lifecycle!Visible("PREPARING", "AWAITING_DRIVER")
  /\ Lifecycle!Visible("READY", "AWAITING_DRIVER")
  /\ Lifecycle!Visible("AWAITING_DRIVER", "READY")
  /\ Lifecycle!Visible("READY", "OUT_FOR_DELIVERY")
  /\ Lifecycle!Visible("AWAITING_DRIVER", "OUT_FOR_DELIVERY")
  /\ Lifecycle!Visible("OUT_FOR_DELIVERY", "DELIVERED")
  /\ Lifecycle!Visible("OUT_FOR_DELIVERY", "DELIVERY_FAILED")
  BY DEF canTransition, Lifecycle!Visible, Lifecycle!canTransition,
         Lifecycle!TRANSITIONS, Lifecycle!ORDER_STATUSES

(* Every step moves orders along the table, or moves none.                     *)
LEMMA LifecycleStep == ASSUME TypeOK, [Next]_vars
                       PROVE  Lifecycle!Next \/ UNCHANGED status
<1> USE DEF TypeOK, ORDER_STATUSES
<1>1. ASSUME NEW o \in Orders, PaymentReleasesOrder(o)
      PROVE  Lifecycle!Next \/ UNCHANGED status
  BY <1>1, MoveOne, Edges DEF PaymentReleasesOrder
<1>2. ASSUME NEW o \in Orders, PaymentCancelsOrder(o)
      PROVE  Lifecycle!Next \/ UNCHANGED status
  BY <1>2, MoveOne, Edges DEF PaymentCancelsOrder, Cancel
<1>3. ASSUME NEW o \in Orders, customerCancelOrder(o)
      PROVE  Lifecycle!Next \/ UNCHANGED status
  BY <1>3, MoveOne, Edges DEF customerCancelOrder, Cancel
<1>4. ASSUME NEW o \in Orders, storeResolveCancelRequest(o)
      PROVE  Lifecycle!Next \/ UNCHANGED status
  BY <1>4, MoveOne, Edges DEF storeResolveCancelRequest, Cancel
<1>5. ASSUME NEW o \in Orders, rejectAmendment(o)
      PROVE  Lifecycle!Next \/ UNCHANGED status
  BY <1>5, MoveOne, Edges DEF rejectAmendment, Cancel
<1>6. ASSUME NEW stale \in SUBSET Orders, cancelStalePendingOrders(stale)
      PROVE  Lifecycle!Next \/ UNCHANGED status
  BY <1>6, MoveAll, Edges DEF cancelStalePendingOrders
<1>7. ASSUME NEW o \in Orders, withdrawDriverRequest(o)
      PROVE  Lifecycle!Next \/ UNCHANGED status
  <2>1. CASE status[o] = "AWAITING_DRIVER"
    BY <1>7, <2>1, MoveOne, Edges DEF withdrawDriverRequest
  <2>2. CASE status[o] # "AWAITING_DRIVER"
    BY <1>7, <2>2 DEF withdrawDriverRequest
  <2>3. QED
    BY <2>1, <2>2
<1>8. ASSUME NEW o \in Orders, NEW to \in STORE_ALLOWED, storeUpdateOrderStatus(o, to)
      PROVE  Lifecycle!Next \/ UNCHANGED status
  <2>1. canTransition(status[o], to)
    BY <1>8 DEF storeUpdateOrderStatus
  <2>2. CASE status' = [status EXCEPT ![o] = to]
    <3>1. Lifecycle!Visible(status[o], to)
      BY <2>1, Edges
    <3>2. to \in ORDER_STATUSES
      BY DEF STORE_ALLOWED, ORDER_STATUSES
    <3>3. QED
      BY <2>2, <3>1, <3>2, MoveOne
  <2>3. CASE to = "READY" /\ status' = [status EXCEPT ![o] = "AWAITING_DRIVER"]
    <3>1. status[o] = "PREPARING"
      BY <2>1, <2>3, TransitionRules
    <3>2. QED
      BY <2>3, <3>1, MoveOne, Edges
  <2>4. QED
    BY <1>8, <2>2, <2>3 DEF storeUpdateOrderStatus
<1>9. ASSUME NEW o \in Orders, NEW to \in TARGETS, NEW d \in Drivers \cup {Null}, setDriverRequestTarget(o, to, d)
      PROVE  Lifecycle!Next \/ UNCHANGED status
  <2>1. CASE status[o] = "READY"
    BY <1>9, <2>1, MoveOne, Edges DEF setDriverRequestTarget
  <2>2. CASE status[o] # "READY"
    BY <1>9, <2>2 DEF setDriverRequestTarget
  <2>3. QED
    BY <2>1, <2>2
<1>10. ASSUME NEW d \in Drivers, NEW o \in Orders, collectDelivery(d, o)
       PROVE  Lifecycle!Next \/ UNCHANGED status
  BY <1>10, MoveOne, Edges DEF collectDelivery, COLLECTIBLE
<1>11. ASSUME NEW o \in Orders, storeReleaseDriver(o)
       PROVE  Lifecycle!Next \/ UNCHANGED status
  <2>1. CASE status[o] = "AWAITING_DRIVER"
    BY <1>11, <2>1, MoveOne, Edges DEF storeReleaseDriver
  <2>2. CASE status[o] # "AWAITING_DRIVER"
    BY <1>11, <2>2 DEF storeReleaseDriver
  <2>3. QED
    BY <2>1, <2>2
<1>12. ASSUME NEW d \in Drivers, NEW o \in Orders, completeDelivery(d, o)
       PROVE  Lifecycle!Next \/ UNCHANGED status
  BY <1>12, MoveOne, Edges DEF completeDelivery
<1>13. ASSUME NEW d \in Drivers, NEW o \in Orders, failDelivery(d, o)
       PROVE  Lifecycle!Next \/ UNCHANGED status
  BY <1>13, MoveOne, Edges DEF failDelivery
<1>14. ASSUME NEW d \in Drivers, NEW b \in Batches, collectBatch(d, b)
       PROVE  Lifecycle!Next \/ UNCHANGED status
  <2>1. OrdersOf(b) # {} /\ \A o \in OrdersOf(b) : status[o] = "READY"
    BY <1>14 DEF collectBatch
  <2>2. status' = [o \in Orders |-> IF o \in OrdersOf(b) THEN "OUT_FOR_DELIVERY"
                                                       ELSE status[o]]
    BY <1>14 DEF collectBatch, OrdersOf
  <2>3. OrdersOf(b) \in SUBSET Orders
    BY DEF OrdersOf
  <2>4. QED
    BY <2>1, <2>2, <2>3, MoveAll, Edges
<1>15. ASSUME NEW d \in Drivers, NEW o \in Orders,
              acceptDeliveryReads(d, o) \/ releaseDelivery(d, o)
              \/ acceptShiftDelivery(d, o) \/ refuseDirectDelivery(d, o)
              \/ confirmArrival(d, o) \/ markDriverReturned(d, o)
       PROVE  Lifecycle!Next \/ UNCHANGED status
  BY <1>15
  DEF acceptDeliveryReads, releaseDelivery, acceptShiftDelivery,
      refuseDirectDelivery, confirmArrival, markDriverReturned, Unassign
<1>16. ASSUME NEW t \in holding,
              acceptDelivery(t) \/ startShift(t)
       PROVE  Lifecycle!Next \/ UNCHANGED status
  BY <1>16 DEF acceptDelivery, startShift
<1>17. ASSUME NEW o \in Orders,
              confirmReturn(o)
       PROVE  Lifecycle!Next \/ UNCHANGED status
  BY <1>17 DEF confirmReturn
<1>18. ASSUME NEW b \in Batches, NEW ids \in SUBSET Orders,
              createBatch(b, ids)
       PROVE  Lifecycle!Next \/ UNCHANGED status
  BY <1>18 DEF createBatch
<1>19. ASSUME NEW b \in Batches, NEW to \in TARGETS, NEW d \in Drivers \cup {Null},
              broadcastBatch(b, to, d)
       PROVE  Lifecycle!Next \/ UNCHANGED status
  BY <1>19 DEF broadcastBatch
<1>20. ASSUME NEW b \in Batches,
              cancelBatch(b)
       PROVE  Lifecycle!Next \/ UNCHANGED status
  BY <1>20 DEF cancelBatch, ClearRequest
<1>21. ASSUME NEW d \in Drivers, NEW b \in Batches,
              acceptBatch(d, b) \/ releaseBatch(d, b) \/ refuseBatch(d, b)
       PROVE  Lifecycle!Next \/ UNCHANGED status
  BY <1>21 DEF acceptBatch, releaseBatch, refuseBatch, AssignBatch
<1>22. ASSUME NEW d \in Drivers, NEW s \in Shifts,
              startShiftReads(d, s)
       PROVE  Lifecycle!Next \/ UNCHANGED status
  BY <1>22 DEF startShiftReads
<1>23. ASSUME NEW s \in Shifts,
              endShift(s) \/ closeShift(s) \/ autoApproveStaleShiftDailies(s)
              \/ offerShiftReactivation(s) \/ reactivateShift(s)
       PROVE  Lifecycle!Next \/ UNCHANGED status
  BY <1>23
  DEF endShift, closeShift, autoApproveStaleShiftDailies,
      offerShiftReactivation, reactivateShift, Leave, decideShiftDaily
<1>24. ASSUME NEW s \in Shifts, NEW approve \in BOOLEAN,
              decideShiftDaily(s, approve)
       PROVE  Lifecycle!Next \/ UNCHANGED status
  BY <1>24 DEF decideShiftDaily
<1>25. CASE UNCHANGED vars
  BY <1>25 DEF vars
<1>26. QED
  BY <1>1, <1>2, <1>3, <1>4, <1>5, <1>6, <1>7, <1>8, <1>9, <1>10, <1>11, <1>12,
     <1>13, <1>14, <1>15, <1>16, <1>17, <1>18, <1>19, <1>20, <1>21, <1>22,
     <1>23, <1>24, <1>25
  DEF Next, OrderFlowNext, DispatchNext, BatchNext, ShiftNext

(* The initial state satisfies every part.                                     *)
LEMMA InitIInv == ASSUME Init  PROVE IInv
<1> USE DEF Init
<1>1. TypeOK
  BY DEF TypeOK, ORDER_STATUSES, TARGETS, BATCH_STATUSES, BatchCall, SHIFT_STATUSES,
         Entry, Txn
<1>2. BatchAgreesWithOrders /\ CollectedPackageIsOut /\ ShiftHoldsItsOrders
  BY DEF BatchAgreesWithOrders, CollectedPackageIsOut, ShiftHoldsItsOrders
<1>3. CallIsKept /\ OneActiveShift
  BY DEF CallIsKept, OneActiveShift
<1>4. PayFollowsTheGoods /\ OneDeliveryPay
  BY DEF PayFollowsTheGoods, OneDeliveryPay
<1>5. OnlyAcceptedOrdersMove /\ HoldersAreRight
  BY DEF OnlyAcceptedOrdersMove, HoldersAreRight
<1>6. QED
  BY <1>1, <1>2, <1>3, <1>4, <1>5 DEF IInv

(* IInv is inductive.                                                          *)
LEMMA NextIInv == ASSUME IInv, [Next]_vars  PROVE IInv'
<1>1. TypeOK
  BY DEF IInv
<1>2. QED
  BY <1>1, TypeStep, BatchStep, CollectedStep, CallStep, ShiftHoldsStep,
     OneActiveStep, PayFollowsStep, OneDeliveryPayStep, OnlyAcceptedStep, HoldersStep
  DEF IInv

(* Every reachable state satisfies the inductive invariant.                    *)
THEOREM Invariant == Spec => []IInv
  BY InitIInv, NextIInv, PTL DEF Spec

(* Every column keeps its type.                                               *)
THEOREM TypeCorrect == Spec => []TypeOK
<1>1. IInv => TypeOK
  BY DEF IInv
<1>2. QED
  BY <1>1, Invariant, PTL

(* A package and its orders never disagree about their driver.                *)
THEOREM PackagesAgree == Spec => []BatchAgreesWithOrders
<1>1. IInv => BatchAgreesWithOrders
  BY DEF IInv
<1>2. QED
  BY <1>1, Invariant, PTL

(* A collected package has no order left in the store.                        *)
THEOREM PackagesLeaveWhole == Spec => []CollectedPackageIsOut
<1>1. IInv => CollectedPackageIsOut
  BY DEF IInv
<1>2. QED
  BY <1>1, Invariant, PTL

(* No shift ends over an unfinished order.                                    *)
THEOREM ShiftsHoldTheirOrders == Spec => []ShiftHoldsItsOrders
<1>1. IInv => ShiftHoldsItsOrders
  BY DEF IInv
<1>2. QED
  BY <1>1, Invariant, PTL

(* A call that is whole is on the lists of those it is for.                   *)
LEMMA KeptIsSeen == ASSUME IInv  PROVE CalledDriversSeeTheOrder
<1> SUFFICES ASSUME NEW o \in Orders, status[o] = "AWAITING_DRIVER", driver[o] = Null
             PROVE  /\ target[o] # "NONE"
                    /\ target[o] = "SPECIFIC" => requestedDriver[o] \in Drivers
                    /\ \A d \in Drivers : Called(o, d) =>
                         o \in listAvailableDeliveries(d) \cup listShiftDeliveries(d)
  BY DEF CalledDriversSeeTheOrder
<1>1. /\ target[o] # "NONE" /\ batchId[o] = Null /\ Fulfillment[o] = "DELIVERY"
      /\ refused[o] => target[o] = "SPECIFIC"
      /\ target[o] = "SPECIFIC" => requestedDriver[o] \in Drivers
  BY DEF IInv, CallIsKept, TypeOK
<1>2. status[o] \in ACCEPTABLE
  BY DEF ACCEPTABLE
<1>3. ASSUME NEW d \in Drivers, Called(o, d)
      PROVE  o \in listAvailableDeliveries(d) \cup listShiftDeliveries(d)
  <2>1. CASE target[o] = "GENERAL" /\ ActiveShifts(d) = {}
    BY <1>1, <1>2, <2>1 DEF listAvailableDeliveries, InGeneralPool
  <2>2. ASSUME NEW s \in ActiveShifts(d), ShiftStore[s] = OrderStore[o], ~refused[o],
               target[o] = "OWN" \/ (target[o] = "SPECIFIC" /\ requestedDriver[o] = d)
        PROVE  o \in listShiftDeliveries(d)
    BY <1>1, <1>2, <2>2 DEF listShiftDeliveries, OfferedOnShift
  <2>3. ASSUME SpecificDriverOnShift(OrderStore[o], d), ~refused[o],
               target[o] = "OWN" \/ (target[o] = "SPECIFIC" /\ requestedDriver[o] = d)
        PROVE  o \in listAvailableDeliveries(d) \cup listShiftDeliveries(d)
    BY <2>2, <2>3 DEF SpecificDriverOnShift
  <2>4. target[o] = "OWN" => ~refused[o]
    BY <1>1
  <2>5. CASE target[o] = "OWN" /\ SpecificDriverOnShift(OrderStore[o], d)
    BY <2>3, <2>4, <2>5
  <2>6. CASE /\ target[o] = "SPECIFIC" /\ requestedDriver[o] = d /\ ~refused[o]
             /\ SpecificDriverOnShift(OrderStore[o], d)
    BY <2>3, <2>6
  <2>7. QED
    BY <1>3, <2>1, <2>5, <2>6 DEF Called
<1>4. QED
  BY <1>1, <1>3

(* No leftover of an earlier call hides an order from the drivers called for. *)
THEOREM CallsAreSeen == Spec => []CalledDriversSeeTheOrder
  BY Invariant, KeptIsSeen, PTL

(* No driver has two active shifts.                                           *)
THEOREM OneShiftAtATime == Spec => []OneActiveShift
<1>1. IInv => OneActiveShift
  BY DEF IInv
<1>2. QED
  BY <1>1, Invariant, PTL

(* No delivery is paid to drivers twice.                                      *)
THEOREM PaidOnce == Spec => []OneDeliveryPay
<1>1. IInv => OneDeliveryPay
  BY DEF IInv
<1>2. QED
  BY <1>1, Invariant, PTL

(* No driver is paid before the delivery or the shift ended.                  *)
THEOREM PaidForSomething == Spec => []PayFollowsTheGoods
<1>1. IInv => PayFollowsTheGoods
  BY DEF IInv
<1>2. QED
  BY <1>1, Invariant, PTL

(* A step that starts a shift or takes a delivery from the pool respects the    *)
(* other.                                                                      *)
LEMMA StartExcludesPoolStep ==
  ASSUME IInv, [Next]_vars
  PROVE  \A d \in Drivers :
           /\ (\E s \in Shifts : /\ ShiftDriver[s] = d
                                 /\ shift[s] = "NONE" /\ shift'[s] = "ACTIVE")
                => GeneralAssignments(d) = {}
           /\ (\E o \in Orders : /\ driver[o] # d /\ driver'[o] = d
                                 /\ shiftId'[o] = Null)
                => ActiveShifts(d) = {}
<1> DEFINE Goal == \A d \in Drivers :
           /\ (\E s \in Shifts : /\ ShiftDriver[s] = d
                                 /\ shift[s] = "NONE" /\ shift'[s] = "ACTIVE")
                => GeneralAssignments(d) = {}
           /\ (\E o \in Orders : /\ driver[o] # d /\ driver'[o] = d
                                 /\ shiftId'[o] = Null)
                => ActiveShifts(d) = {}
<1> USE DEF IInv, TypeOK
<1>1. ASSUME NEW t \in holding, acceptDelivery(t) PROVE  Goal
  BY <1>1, NullIsNoRow DEF acceptDelivery, InGeneralPool, HoldersAreRight, Txn
<1>2. ASSUME NEW d \in Drivers, NEW o \in Orders, releaseDelivery(d, o)
      PROVE  Goal
  BY <1>2, NullIsNoRow DEF releaseDelivery, Unassign
<1>3. ASSUME NEW d \in Drivers, NEW o \in Orders, acceptShiftDelivery(d, o)
      PROVE  Goal
  BY <1>3, NullIsNoRow DEF acceptShiftDelivery, ActiveShifts
<1>4. ASSUME NEW o \in Orders, storeReleaseDriver(o) PROVE  Goal
  BY <1>4, NullIsNoRow DEF storeReleaseDriver, Unassign, ClearRequest
<1>5. ASSUME NEW d \in Drivers, NEW b \in Batches, acceptBatch(d, b)
      PROVE  Goal
  BY <1>5, NullIsNoRow DEF acceptBatch, AssignBatch, ActiveShifts
<1>6. ASSUME NEW d \in Drivers, NEW b \in Batches, releaseBatch(d, b)
      PROVE  Goal
  BY <1>6, NullIsNoRow DEF releaseBatch
<1>7. ASSUME NEW t \in holding, startShift(t) PROVE  Goal
  <2>1. t.driver = ShiftDriver[t.on] /\ GeneralAssignments(t.driver) = {}
    BY <1>7 DEF startShift, HoldersAreRight
  <2>2. \A s \in Shifts : shift[s] = "NONE" /\ shift'[s] = "ACTIVE" => s = t.on
    BY <1>7 DEF startShift
  <2>3. UNCHANGED driver
    BY <1>7 DEF startShift
  <2>4. QED
    BY <2>1, <2>2, <2>3
<1>8. ASSUME NEW s \in Shifts, endShift(s) PROVE  Goal
  BY <1>8, NullIsNoRow DEF endShift, Leave
<1>9. ASSUME NEW s \in Shifts, closeShift(s) PROVE  Goal
  BY <1>9, NullIsNoRow DEF closeShift, Leave
<1>10. ASSUME NEW s \in Shifts, NEW approve \in BOOLEAN, decideShiftDaily(s, approve)
       PROVE  Goal
  BY <1>10, NullIsNoRow DEF decideShiftDaily
<1>11. ASSUME NEW s \in Shifts, autoApproveStaleShiftDailies(s) PROVE  Goal
  BY <1>11, NullIsNoRow DEF autoApproveStaleShiftDailies, decideShiftDaily
<1>12. ASSUME NEW s \in Shifts, offerShiftReactivation(s) PROVE  Goal
  BY <1>12, NullIsNoRow DEF offerShiftReactivation
<1>13. ASSUME NEW s \in Shifts, reactivateShift(s) PROVE  Goal
  BY <1>13, NullIsNoRow DEF reactivateShift
<1>14. ASSUME NEW o \in Orders,
              PaymentReleasesOrder(o) \/ PaymentCancelsOrder(o)
              \/ customerCancelOrder(o) \/ storeResolveCancelRequest(o)
              \/ rejectAmendment(o) \/ withdrawDriverRequest(o)
              \/ confirmReturn(o)
       PROVE  Goal
  BY <1>14
  DEF PaymentReleasesOrder, PaymentCancelsOrder, customerCancelOrder,
      storeResolveCancelRequest, rejectAmendment, withdrawDriverRequest,
      confirmReturn, Cancel, ClearRequest
<1>15. ASSUME NEW stale \in SUBSET Orders,
              cancelStalePendingOrders(stale)
       PROVE  Goal
  BY <1>15 DEF cancelStalePendingOrders
<1>16. ASSUME NEW o \in Orders, NEW to \in STORE_ALLOWED,
              storeUpdateOrderStatus(o, to)
       PROVE  Goal
  BY <1>16 DEF storeUpdateOrderStatus
<1>17. ASSUME NEW o \in Orders, NEW to \in TARGETS, NEW d \in Drivers \cup {Null},
              setDriverRequestTarget(o, to, d)
       PROVE  Goal
  BY <1>17 DEF setDriverRequestTarget
<1>18. ASSUME NEW d \in Drivers, NEW o \in Orders,
              acceptDeliveryReads(d, o) \/ refuseDirectDelivery(d, o)
              \/ collectDelivery(d, o) \/ confirmArrival(d, o)
              \/ completeDelivery(d, o) \/ failDelivery(d, o)
              \/ markDriverReturned(d, o)
       PROVE  Goal
  BY <1>18
  DEF acceptDeliveryReads, refuseDirectDelivery, collectDelivery,
      confirmArrival, completeDelivery, failDelivery, markDriverReturned
<1>19. ASSUME NEW b \in Batches, NEW ids \in SUBSET Orders,
              createBatch(b, ids)
       PROVE  Goal
  BY <1>19 DEF createBatch
<1>20. ASSUME NEW b \in Batches, NEW to \in TARGETS, NEW d \in Drivers \cup {Null},
              broadcastBatch(b, to, d)
       PROVE  Goal
  BY <1>20 DEF broadcastBatch
<1>21. ASSUME NEW b \in Batches,
              cancelBatch(b)
       PROVE  Goal
  BY <1>21 DEF cancelBatch, ClearRequest
<1>22. ASSUME NEW d \in Drivers, NEW b \in Batches,
              refuseBatch(d, b) \/ collectBatch(d, b)
       PROVE  Goal
  BY <1>22 DEF refuseBatch, collectBatch
<1>23. ASSUME NEW d \in Drivers, NEW s \in Shifts,
              startShiftReads(d, s)
       PROVE  Goal
  BY <1>23 DEF startShiftReads
<1>24. CASE UNCHANGED vars
  BY <1>24 DEF vars
<1>25. QED
  BY <1>1, <1>2, <1>3, <1>4, <1>5, <1>6, <1>7, <1>8, <1>9, <1>10, <1>11, <1>12,
     <1>13, <1>14, <1>15, <1>16, <1>17, <1>18, <1>19, <1>20, <1>21, <1>22,
     <1>23, <1>24
  DEF Next, OrderFlowNext, DispatchNext, BatchNext, ShiftNext

(* Neither the start of a shift nor a delivery from the pool happens over the  *)
(* other.                                                                      *)
THEOREM PoolOrShift == Spec => StartExcludesPool
  BY Invariant, StartExcludesPoolStep, PTL DEF Spec, StartExcludesPool

(* The rows of orders implement the abstract order lifecycle.                  *)
THEOREM Refinement == Spec => ImplementsLifecycle
<1>1. Init => Lifecycle!Init
  BY RowsHaveOwners DEF Init, Lifecycle!Init
<1>2. TypeOK /\ [Next]_vars => [Lifecycle!Next]_status
  BY LifecycleStep
<1>3. QED
  BY <1>1, <1>2, TypeCorrect, PTL DEF Spec, ImplementsLifecycle, Lifecycle!Spec

===============================================================================
