-------------------------------- MODULE Shifts --------------------------------
(* shift.service.ts: a driver works for one store at a time, and leaves only   *)
(* when nothing of the store's is still in the driver's hands.  Clock and      *)
(* agenda decide when a step may happen and are left to chance.                *)
EXTENDS DeliveryBatches

(* First half: lock the users row, find no delivery from the general pool.     *)
GeneralAssignments(d) ==
  {o \in Orders : driver[o] = d /\ shiftId[o] = Null /\ status[o] \in InFlight}

startShiftReads(d, s) ==
  /\ UserRowFree(d)
  /\ ShiftDriver[s] = d
  /\ shift[s] = "NONE"
  /\ GeneralAssignments(d) = {}
  /\ holding' = holding \cup {[op |-> "startShift", driver |-> d, on |-> s]}
  /\ UNCHANGED <<orderRow, batchRow, shift, ledger>>

(* Second half: the insert, refused by either unique index: one shift per link *)
(* and day, one active shift per driver.                                       *)
startShift(t) ==
  /\ t \in holding /\ t.op = "startShift"
  /\ shift' = IF shift[t.on] = "NONE" /\ ActiveShifts(t.driver) = {}
                THEN [shift EXCEPT ![t.on] = "ACTIVE"] ELSE shift
  /\ holding' = holding \ {t}
  /\ UNCHANGED <<orderRow, batchRow, ledger>>

forgetsReturns(rows) ==                  \* mutant: a failed delivery counts as finished
  \E o \in rows : status[o] \notin {"DELIVERED", "CANCELLED", "DELIVERY_FAILED"}

hasUnfinishedOrder(rows) ==
  \E o \in rows : /\ status[o] \notin {"DELIVERED", "CANCELLED"}
                  /\ ~(status[o] = "DELIVERY_FAILED" /\ returned[o])

Leave(s, to) ==
  /\ shift[s] = "ACTIVE"
  /\ ~hasUnfinishedOrder({o \in Orders : shiftId[o] = s})
  /\ shift' = [shift EXCEPT ![s] = to]
  /\ UNCHANGED <<orderRow, batchRow, holding>>

recordShiftDaily(s) ==
  insertEntries({[kind |-> "driver-daily", of |-> s, driver |-> ShiftDriver[s]]})

(* The driver ends the shift: the daily rate waits for the store.              *)
endShift(s) == Leave(s, "PENDING_DAILY") /\ UNCHANGED ledger

(* The store lets the driver go and owes the daily rate at once.               *)
closeShift(s) == Leave(s, "CLOSED") /\ ledger' = recordShiftDaily(s)

decisionAsStatus(s, approve) ==          \* mutant: daily_decision written to status
  /\ shift[s] \in {"PENDING_DAILY", "REOPEN_ALLOWED"}
  /\ shift' = [shift EXCEPT ![s] = IF approve THEN "APPROVED" ELSE "REJECTED"]
  /\ ledger' = IF approve THEN recordShiftDaily(s) ELSE ledger
  /\ UNCHANGED <<orderRow, batchRow, holding>>

(* decideShiftDaily and, after 24 hours, autoApproveStaleShiftDailies.         *)
decideShiftDaily(s, approve) ==
  /\ shift[s] \in {"PENDING_DAILY", "REOPEN_ALLOWED"}
  /\ shift' = [shift EXCEPT ![s] = "CLOSED"]
  /\ ledger' = IF approve THEN recordShiftDaily(s) ELSE ledger
  /\ UNCHANGED <<orderRow, batchRow, holding>>

autoApproveStaleShiftDailies(s) == decideShiftDaily(s, TRUE)

offerShiftReactivation(s) ==
  /\ shift[s] = "PENDING_DAILY"
  /\ shift' = [shift EXCEPT ![s] = "REOPEN_ALLOWED"]
  /\ UNCHANGED <<orderRow, batchRow, ledger, holding>>

reactivateWithoutIndex(s) ==             \* mutant: no one_active_per_driver index
  /\ UserRowFree(ShiftDriver[s])
  /\ shift[s] = "REOPEN_ALLOWED"
  /\ shift' = [shift EXCEPT ![s] = "ACTIVE"]
  /\ UNCHANGED <<orderRow, batchRow, ledger, holding>>

(* Under the users lock; unlike startShift it does not look at the deliveries  *)
(* from the general pool that the driver took in the meantime.                 *)
reactivateShift(s) ==
  /\ UserRowFree(ShiftDriver[s])
  /\ shift[s] = "REOPEN_ALLOWED"
  /\ \/ shift' = [shift EXCEPT ![s] = "PENDING_DAILY"]      \* the offer expired
     \/ /\ ActiveShifts(ShiftDriver[s]) = {}
        /\ shift' = [shift EXCEPT ![s] = "ACTIVE"]
  /\ UNCHANGED <<orderRow, batchRow, ledger, holding>>

ShiftNext ==
  \/ \E d \in Drivers, s \in Shifts : startShiftReads(d, s)
  \/ \E t \in holding : startShift(t)
  \/ \E s \in Shifts :
       \/ endShift(s) \/ closeShift(s)
       \/ \E approve \in BOOLEAN : decideShiftDaily(s, approve)
       \/ autoApproveStaleShiftDailies(s)
       \/ offerShiftReactivation(s)
       \/ reactivateShift(s)
===============================================================================
