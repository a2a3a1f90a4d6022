------------------------------- MODULE OrderFlow ------------------------------
(* order-status.service.ts: the store moves an order along and calls for a     *)
(* driver; customer, store and cron cancel it.  Whether an amendment or an     *)
(* open cancellation request stands in the way is the business of the module   *)
(* Amendments: here those refusals are simply steps that do not happen.        *)
EXTENDS DeliveryState

canTransition(from, to) == Lifecycle!canTransition(from, to)

(* Every cancellation clears batch_id and leaves driver_id and shift_id.       *)
Cancel(o) ==
  /\ status' = [status EXCEPT ![o] = "CANCELLED"]
  /\ batchId' = [batchId EXCEPT ![o] = Null]
  /\ UNCHANGED <<assignment, request, return, batchRow, shift, ledger, holding>>

(* The provider's answer releases an unpaid order to the store or cancels it.  *)
PaymentReleasesOrder(o) ==
  /\ status[o] = "AWAITING_PAYMENT"
  /\ status' = [status EXCEPT ![o] = "PENDING"]
  /\ UNCHANGED <<batchId, assignment, request, return, batchRow, shift, ledger, holding>>

PaymentCancelsOrder(o) == status[o] = "AWAITING_PAYMENT" /\ Cancel(o)

customerCancelOrder(o) == status[o] = "PENDING" /\ Cancel(o)

(* The cron cancels up to a hundred stale orders in one transaction.           *)
cancelStalePendingOrders(stale) ==
  /\ stale # {}
  /\ \A o \in stale : status[o] = "PENDING"
  /\ status' = [o \in Orders |-> IF o \in stale THEN "CANCELLED" ELSE status[o]]
  /\ batchId' = [o \in Orders |-> IF o \in stale THEN Null ELSE batchId[o]]
  /\ UNCHANGED <<assignment, request, return, batchRow, shift, ledger, holding>>

REQUESTABLE == ACCEPTABLE

(* The store approves the customer's request: a compare-and-set on the status  *)
(* it read, while the row may have moved; the status is one that had a request.*)
storeResolveCancelRequest(o) ==
  /\ status[o] \in REQUESTABLE
  /\ canTransition(status[o], "CANCELLED")
  /\ Cancel(o)

rejectAmendment(o) == status[o] \in {"ACCEPTED", "PREPARING"} /\ Cancel(o)

STORE_ALLOWED ==
  {"ACCEPTED", "PREPARING", "READY", "OUT_FOR_DELIVERY", "DELIVERED", "CANCELLED"}

REQUESTABLE_FOR_DRIVER == ACCEPTABLE

SpecificDriverOnShift(st, d) ==
  \E s \in ActiveShifts(d) : ShiftStore[s] = st

callKeepsRefusal(o, to, d) ==           \* mutant: refused_at of the last call stays
  /\ Fulfillment[o] = "DELIVERY"
  /\ driver[o] = Null
  /\ batchId[o] = Null
  /\ status[o] \in REQUESTABLE_FOR_DRIVER
  /\ target[o] # "GENERAL"
  /\ IF to = "SPECIFIC" THEN d \in Drivers /\ SpecificDriverOnShift(OrderStore[o], d)
                        ELSE d = Null
  /\ target' = [target EXCEPT ![o] = to]
  /\ requestedDriver' = [requestedDriver EXCEPT ![o] = d]
  /\ UNCHANGED refused
  /\ status' = [status EXCEPT ![o] = IF @ = "READY" THEN "AWAITING_DRIVER" ELSE @]
  /\ UNCHANGED <<batchId, assignment, return, batchRow, shift, ledger, holding>>

setDriverRequestTarget(o, to, d) ==
  /\ Fulfillment[o] = "DELIVERY"
  /\ driver[o] = Null
  /\ batchId[o] = Null
  /\ status[o] \in REQUESTABLE_FOR_DRIVER
  /\ target[o] # "GENERAL"
  /\ IF to = "SPECIFIC" THEN d \in Drivers /\ SpecificDriverOnShift(OrderStore[o], d)
                        ELSE d = Null
  /\ target' = [target EXCEPT ![o] = to]
  /\ requestedDriver' = [requestedDriver EXCEPT ![o] = d]
  /\ refused' = [refused EXCEPT ![o] = FALSE]
  /\ status' = [status EXCEPT ![o] = IF @ = "READY" THEN "AWAITING_DRIVER" ELSE @]
  /\ UNCHANGED <<batchId, assignment, return, batchRow, shift, ledger, holding>>

ClearRequest(cleared) ==
  /\ target' = [o \in Orders |-> IF o \in cleared THEN "NONE" ELSE target[o]]
  /\ requestedDriver' = [o \in Orders |-> IF o \in cleared THEN Null ELSE requestedDriver[o]]
  /\ refused' = [o \in Orders |-> refused[o] /\ o \notin cleared]

(* No check of the status nor of the batch: any order nobody has accepted.     *)
withdrawDriverRequest(o) ==
  /\ driver[o] = Null
  /\ target[o] # "NONE"
  /\ ClearRequest({o})
  /\ status' = [status EXCEPT ![o] = IF @ = "AWAITING_DRIVER" THEN "READY" ELSE @]
  /\ UNCHANGED <<batchId, assignment, return, batchRow, shift, ledger, holding>>

(* recordOrderLedger's entries for the driver, read with the row as updated: a *)
(* shift counts when it is the order's store's and the order's driver's.       *)
ShiftCounts(o) ==
  /\ shiftId[o] # Null
  /\ ShiftStore[shiftId[o]] = OrderStore[o]
  /\ ShiftDriver[shiftId[o]] = driver[o]

recordOrderLedger(o) ==
  IF driver[o] = Null THEN {}
  ELSE {[kind |-> IF ShiftCounts(o) THEN "driver-per-delivery"
                                    ELSE "driver-delivery-credit",
         of |-> o, driver |-> driver[o]]}

(* A called order nobody took yet goes straight on to AWAITING_DRIVER.         *)
storeUpdateOrderStatus(o, to) ==
  /\ to \in STORE_ALLOWED
  /\ ~(Fulfillment[o] = "DELIVERY" /\ to = "DELIVERED")
  /\ ~(Fulfillment[o] = "DELIVERY" /\ driver[o] # Null /\ to = "OUT_FOR_DELIVERY")
  /\ canTransition(status[o], to)
  /\ LET called == /\ to = "READY" /\ target[o] # "NONE"
                   /\ driver[o] = Null /\ batchId[o] = Null
     IN status' = [status EXCEPT ![o] = IF called THEN "AWAITING_DRIVER" ELSE to]
  /\ batchId' = [batchId EXCEPT ![o] = IF to = "CANCELLED" THEN Null ELSE @]
  /\ ledger' = IF to = "DELIVERED" THEN insertEntries(recordOrderLedger(o)) ELSE ledger
  /\ UNCHANGED <<assignment, request, return, batchRow, shift, holding>>

OrderFlowNext ==
  \/ \E o \in Orders :
       \/ PaymentReleasesOrder(o)
       \/ PaymentCancelsOrder(o)
       \/ customerCancelOrder(o)
       \/ storeResolveCancelRequest(o)
       \/ rejectAmendment(o)
       \/ withdrawDriverRequest(o)
       \/ \E to \in STORE_ALLOWED : storeUpdateOrderStatus(o, to)
       \/ \E to \in TARGETS, d \in Drivers \cup {Null} : setDriverRequestTarget(o, to, d)
  \/ \E stale \in SUBSET Orders : cancelStalePendingOrders(stale)
===============================================================================
