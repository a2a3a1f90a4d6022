---------------------------- MODULE DeliveryBatches ---------------------------
(* batch.service.ts: the store groups orders into a package, offers it to the  *)
(* pool or to its own drivers, and a driver takes the package as a whole.      *)
EXTENDS Dispatch

BATCHABLE_STATUSES == {"ACCEPTED", "PREPARING", "READY"}

(* The orders are locked in id order before any of them is looked at.          *)
createBatch(b, ids) ==
  /\ batchStatus[b] = "NONE"
  /\ \E o, p \in ids : o # p
  /\ \A o \in ids : /\ OrderStore[o] = BatchStore[b]
                    /\ Fulfillment[o] = "DELIVERY"
                    /\ driver[o] = Null
                    /\ batchId[o] = Null
                    /\ status[o] \in BATCHABLE_STATUSES
  /\ batchStatus' = [batchStatus EXCEPT ![b] = "OPEN"]
  /\ batchId' = [o \in Orders |-> IF o \in ids THEN b ELSE batchId[o]]
  /\ UNCHANGED <<status, assignment, request, return, batchDriver, batchCall, shift,
                 ledger, holding>>

(* A package in the general pool cannot be narrowed again.                     *)
broadcastBatch(b, to, d) ==
  /\ batchStatus[b] \in {"OPEN", "PENDING"}
  /\ batchStatus[b] = "PENDING" /\ batchCall[b].target = "GENERAL" => to = "GENERAL"
  /\ IF to = "SPECIFIC" THEN d \in Drivers /\ SpecificDriverOnShift(BatchStore[b], d)
                        ELSE d = Null
  /\ \E o, p \in OrdersOf(b) : o # p
  /\ batchDriver[b] = Null
  /\ batchStatus' = [batchStatus EXCEPT ![b] = "PENDING"]
  /\ batchCall' = [batchCall EXCEPT ![b] = [target |-> to, specific |-> d, refused |-> FALSE]]
  /\ target' = [o \in Orders |-> IF batchId[o] = b THEN to ELSE target[o]]
  /\ requestedDriver' = [o \in Orders |-> IF batchId[o] = b THEN Null ELSE requestedDriver[o]]
  /\ refused' = [o \in Orders |-> refused[o] /\ batchId[o] # b]
  /\ UNCHANGED <<status, batchId, assignment, return, batchDriver, shift, ledger, holding>>

cancelBatch(b) ==
  /\ batchStatus[b] \in {"OPEN", "PENDING"}
  /\ batchStatus' = [batchStatus EXCEPT ![b] = "CANCELLED"]
  /\ batchId' = [o \in Orders |-> IF batchId[o] = b THEN Null ELSE batchId[o]]
  /\ shiftId' = [o \in Orders |-> IF batchId[o] = b THEN Null ELSE shiftId[o]]
  /\ ClearRequest(OrdersOf(b))
  /\ UNCHANGED <<status, driver, arrived, return, batchDriver, batchCall, shift, ledger,
                 holding>>

(* The whole package goes to one driver, in the shift the driver is in, and    *)
(* every order of the package does, whatever its status.                       *)
OfferedToShift(b, d, s) ==
  /\ BatchStore[b] = ShiftStore[s]
  /\ ~batchCall[b].refused
  /\ \/ batchCall[b].target = "OWN"
     \/ batchCall[b].target = "SPECIFIC" /\ batchCall[b].specific = d

AssignBatch(b, d, s) ==
  /\ batchStatus' = [batchStatus EXCEPT ![b] = "ACCEPTED"]
  /\ batchDriver' = [batchDriver EXCEPT ![b] = d]
  /\ driver' = [o \in Orders |-> IF batchId[o] = b THEN d ELSE driver[o]]
  /\ shiftId' = [o \in Orders |-> IF batchId[o] = b THEN s ELSE shiftId[o]]

acceptBatch(d, b) ==
  /\ UserRowFree(d)
  /\ batchDriver[b] = Null
  /\ batchStatus[b] = "PENDING"
  /\ OrdersOf(b) # {}
  /\ \/ \E s \in ActiveShifts(d) : OfferedToShift(b, d, s) /\ AssignBatch(b, d, s)
     \/ /\ ActiveShifts(d) = {}
        /\ batchCall[b].target = "GENERAL"
        /\ AssignBatch(b, d, Null)
  /\ UNCHANGED <<status, batchId, arrived, request, return, batchCall, shift, ledger,
                 holding>>

(* Clears driver and shift of every order of the package, whatever its status. *)
releaseBatch(d, b) ==
  /\ batchDriver[b] = d
  /\ batchStatus[b] = "ACCEPTED"
  /\ batchStatus' = [batchStatus EXCEPT ![b] = "PENDING"]
  /\ batchDriver' = [batchDriver EXCEPT ![b] = Null]
  /\ driver' = [o \in Orders |-> IF batchId[o] = b THEN Null ELSE driver[o]]
  /\ shiftId' = [o \in Orders |-> IF batchId[o] = b THEN Null ELSE shiftId[o]]
  /\ UNCHANGED <<status, batchId, arrived, request, return, batchCall, shift, ledger,
                 holding>>

refuseBatch(d, b) ==
  /\ batchStatus[b] = "PENDING"
  /\ batchCall[b].target = "SPECIFIC"
  /\ batchCall[b].specific = d
  /\ batchDriver[b] = Null
  /\ ~batchCall[b].refused
  /\ batchCall' = [batchCall EXCEPT ![b] =
                     [target |-> @.target, specific |-> @.specific, refused |-> TRUE]]
  /\ UNCHANGED <<orderRow, batchStatus, batchDriver, shift, ledger, holding>>

collectReadyOnes(d, b) ==                \* mutant: leaves with the orders that are ready
  /\ batchDriver[b] = d
  /\ batchStatus[b] = "ACCEPTED"
  /\ \E o \in OrdersOf(b) : status[o] = "READY"
  /\ status' = [o \in Orders |-> IF batchId[o] = b /\ status[o] = "READY"
                                   THEN "OUT_FOR_DELIVERY" ELSE status[o]]
  /\ batchStatus' = [batchStatus EXCEPT ![b] = "COLLECTED"]
  /\ UNCHANGED <<batchId, assignment, request, return, batchDriver, batchCall, shift,
                 ledger, holding>>

(* The package leaves the store together or not at all.                        *)
collectBatch(d, b) ==
  /\ batchDriver[b] = d
  /\ batchStatus[b] = "ACCEPTED"
  /\ OrdersOf(b) # {}
  /\ \A o \in OrdersOf(b) : status[o] = "READY"
  /\ status' = [o \in Orders |-> IF batchId[o] = b THEN "OUT_FOR_DELIVERY" ELSE status[o]]
  /\ batchStatus' = [batchStatus EXCEPT ![b] = "COLLECTED"]
  /\ UNCHANGED <<batchId, assignment, request, return, batchDriver, batchCall, shift,
                 ledger, holding>>

BatchNext ==
  \E b \in Batches :
    \/ \E ids \in SUBSET Orders : createBatch(b, ids)
    \/ \E to \in TARGETS, d \in Drivers \cup {Null} : broadcastBatch(b, to, d)
    \/ cancelBatch(b)
    \/ \E d \in Drivers :
         acceptBatch(d, b) \/ releaseBatch(d, b) \/ refuseBatch(d, b) \/ collectBatch(d, b)
===============================================================================
