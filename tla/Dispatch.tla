------------------------------- MODULE Dispatch -------------------------------
(* dispatch.service.ts and return.service.ts: a driver accepts, releases,      *)
(* collects, completes or fails one order; the store unlinks the driver and    *)
(* confirms a return.  Every action is one statement or one transaction.       *)
EXTENDS OrderFlow

CollectAnyAccepted == ACCEPTABLE         \* mutant: collected before it is ready

COLLECTIBLE == {"READY", "AWAITING_DRIVER"}

(* First half of the transaction: lock the users row, find no active shift.    *)
acceptDeliveryReads(d, o) ==
  /\ UserRowFree(d)
  /\ ActiveShifts(d) = {}
  /\ holding' = holding \cup {[op |-> "acceptDelivery", driver |-> d, on |-> o]}
  /\ UNCHANGED <<orderRow, batchRow, shift, ledger>>

(* Second half: the compare-and-set, which takes the order or takes nothing.   *)
InGeneralPool(o) ==
  /\ driver[o] = Null
  /\ batchId[o] = Null
  /\ target[o] = "GENERAL"
  /\ Fulfillment[o] = "DELIVERY"
  /\ status[o] \in ACCEPTABLE

acceptDelivery(t) ==
  /\ t \in holding /\ t.op = "acceptDelivery"
  /\ driver' = IF InGeneralPool(t.on) THEN [driver EXCEPT ![t.on] = t.driver] ELSE driver
  /\ holding' = holding \ {t}
  /\ UNCHANGED <<status, batchId, shiftId, arrived, request, return, batchRow, shift, ledger>>

Unassign(o) ==
  /\ driver' = [driver EXCEPT ![o] = Null]
  /\ shiftId' = [shiftId EXCEPT ![o] = Null]
  /\ arrived' = [arrived EXCEPT ![o] = FALSE]

releaseFromPackage(d, o) ==              \* mutant: no check of batch_id
  /\ driver[o] = d
  /\ status[o] \in ACCEPTABLE
  /\ Unassign(o)
  /\ UNCHANGED <<status, batchId, request, return, batchRow, shift, ledger, holding>>

releaseDelivery(d, o) ==
  /\ driver[o] = d
  /\ batchId[o] = Null
  /\ status[o] \in ACCEPTABLE
  /\ Unassign(o)
  /\ UNCHANGED <<status, batchId, request, return, batchRow, shift, ledger, holding>>

(* What a driver on shift is shown, and may take.                              *)
OfferedOnShift(o, d, s) ==
  /\ OrderStore[o] = ShiftStore[s]
  /\ \/ target[o] = "OWN"
     \/ target[o] = "SPECIFIC" /\ requestedDriver[o] = d
  /\ ~refused[o]
  /\ driver[o] = Null
  /\ batchId[o] = Null
  /\ Fulfillment[o] = "DELIVERY"
  /\ status[o] \in ACCEPTABLE

acceptShiftDelivery(d, o) ==
  \E s \in ActiveShifts(d) :
    /\ OfferedOnShift(o, d, s)
    /\ driver' = [driver EXCEPT ![o] = d]
    /\ shiftId' = [shiftId EXCEPT ![o] = s]
    /\ UNCHANGED <<status, batchId, arrived, request, return, batchRow, shift, ledger, holding>>

(* The two lists a driver polls; the newest fifty rows of each, which no small *)
(* instance reaches.                                                           *)
listAvailableDeliveries(d) ==
  IF ActiveShifts(d) = {} THEN {o \in Orders : InGeneralPool(o)} ELSE {}

listShiftDeliveries(d) ==
  {o \in Orders : \E s \in ActiveShifts(d) : OfferedOnShift(o, d, s)}

refuseDirectDelivery(d, o) ==
  /\ target[o] = "SPECIFIC"
  /\ requestedDriver[o] = d
  /\ driver[o] = Null
  /\ batchId[o] = Null
  /\ ~refused[o]
  /\ refused' = [refused EXCEPT ![o] = TRUE]
  /\ UNCHANGED <<status, batchId, assignment, target, requestedDriver, return,
                 batchRow, shift, ledger, holding>>

collectDelivery(d, o) ==
  /\ driver[o] = d
  /\ batchId[o] = Null
  /\ status[o] \in COLLECTIBLE
  /\ status' = [status EXCEPT ![o] = "OUT_FOR_DELIVERY"]
  /\ UNCHANGED <<batchId, assignment, request, return, batchRow, shift, ledger, holding>>

confirmArrival(d, o) ==
  /\ driver[o] = d
  /\ batchId[o] = Null
  /\ ~arrived[o]
  /\ status[o] \in ACCEPTABLE
  /\ arrived' = [arrived EXCEPT ![o] = TRUE]
  /\ UNCHANGED <<status, batchId, driver, shiftId, request, return, batchRow, shift,
                 ledger, holding>>

(* A pool driver who had arrived keeps half the fee.                           *)
recordHalfFee(o) ==
  IF shiftId[o] = Null /\ arrived[o]
    THEN {[kind |-> "half-fee", of |-> o, driver |-> driver[o]]} ELSE {}

storeReleaseDriver(o) ==
  /\ batchId[o] = Null
  /\ driver[o] # Null
  /\ status[o] \in ACCEPTABLE
  /\ status' = [status EXCEPT ![o] = IF @ = "AWAITING_DRIVER" THEN "READY" ELSE @]
  /\ Unassign(o)
  /\ ClearRequest({o})
  /\ ledger' = insertEntries(recordHalfFee(o))
  /\ UNCHANGED <<batchId, return, batchRow, shift, holding>>

completeDelivery(d, o) ==
  /\ driver[o] = d
  /\ status[o] = "OUT_FOR_DELIVERY"
  /\ status' = [status EXCEPT ![o] = "DELIVERED"]
  /\ ledger' = insertEntries(recordOrderLedger(o))
  /\ UNCHANGED <<batchId, assignment, request, return, batchRow, shift, holding>>

failAfterDelivery(d, o) ==               \* mutant: the status is not checked again
  /\ driver[o] = d
  /\ status[o] \in {"OUT_FOR_DELIVERY", "DELIVERED"}
  /\ status' = [status EXCEPT ![o] = "DELIVERY_FAILED"]
  /\ returnPay' = [returnPay EXCEPT ![o] = IF ShiftCounts(o) THEN "extra" ELSE "fee"]
  /\ UNCHANGED <<batchId, assignment, request, declared, returned, batchRow, shift,
                 ledger, holding>>

(* The pay a return will earn is frozen now; a repeated call changes nothing.  *)
failDelivery(d, o) ==
  /\ driver[o] = d
  /\ status[o] = "OUT_FOR_DELIVERY"
  /\ status' = [status EXCEPT ![o] = "DELIVERY_FAILED"]
  /\ returnPay' = [returnPay EXCEPT ![o] = IF ShiftCounts(o) THEN "extra" ELSE "fee"]
  /\ UNCHANGED <<batchId, assignment, request, declared, returned, batchRow, shift,
                 ledger, holding>>

ReturnPending(o) == status[o] = "DELIVERY_FAILED" /\ ~returned[o]

markDriverReturned(d, o) ==
  /\ driver[o] = d
  /\ ReturnPending(o)
  /\ ~declared[o]
  /\ declared' = [declared EXCEPT ![o] = TRUE]
  /\ UNCHANGED <<status, batchId, assignment, request, returnPay, returned, batchRow,
                 shift, ledger, holding>>

(* Which entry is written depends on the row as it is now, not as it failed.   *)
recordReturnLedger(o) ==
  IF driver[o] = Null \/ returnPay[o] = "none" THEN {}
  ELSE {[kind |-> IF ShiftCounts(o) THEN "driver-per-delivery-on-return"
                                    ELSE "driver-delivery-credit-on-return",
         of |-> o, driver |-> driver[o]]}

confirmWithoutDate(o) ==                 \* mutant: returned_at is not written
  /\ ReturnPending(o)
  /\ ledger' = insertEntries(recordReturnLedger(o))
  /\ UNCHANGED <<status, batchId, assignment, request, return, batchRow, shift, holding>>

(* By the order's store or by the platform's support; the driver's declaration *)
(* is not required.                                                            *)
confirmReturn(o) ==
  /\ ReturnPending(o)
  /\ returned' = [returned EXCEPT ![o] = TRUE]
  /\ ledger' = insertEntries(recordReturnLedger(o))
  /\ UNCHANGED <<status, batchId, assignment, request, returnPay, declared, batchRow,
                 shift, holding>>

DispatchNext ==
  \/ \E t \in holding : acceptDelivery(t)
  \/ \E o \in Orders : storeReleaseDriver(o) \/ confirmReturn(o)
  \/ \E d \in Drivers, o \in Orders :
       \/ acceptDeliveryReads(d, o)
       \/ releaseDelivery(d, o)
       \/ acceptShiftDelivery(d, o)
       \/ refuseDirectDelivery(d, o)
       \/ collectDelivery(d, o)
       \/ confirmArrival(d, o)
       \/ completeDelivery(d, o)
       \/ failDelivery(d, o)
       \/ markDriverReturned(d, o)
===============================================================================
