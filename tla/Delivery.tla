------------------------------- MODULE Delivery -------------------------------
(* Orders, packages and shifts together, and what must hold between them.      *)
EXTENDS Shifts

Next == OrderFlowNext \/ DispatchNext \/ BatchNext \/ ShiftNext

Spec == Init /\ [][Next]_vars

-------------------------------------------------------------------------------
(* A package and its orders tell the same story: nobody has an order of a      *)
(* package still on offer, the package's driver has every order of a package   *)
(* taken, and no order points at a package that was undone.  Single-order and  *)
(* package paths (dispatch.service.ts, batch.service.ts) write the same        *)
(* orders.driver_id.                                                           *)
BatchAgreesWithOrders ==
  /\ \A b \in Batches :
       batchDriver[b] # Null <=> batchStatus[b] \in {"ACCEPTED", "COLLECTED"}
  /\ \A o \in Orders : batchId[o] # Null =>
       /\ batchStatus[batchId[o]] \notin {"NONE", "CANCELLED"}
       /\ driver[o] = batchDriver[batchId[o]]

(* A package that was collected has no order left behind in the store, and no  *)
(* cancellation can pull one out (collectBatch, batch.service.ts).             *)
CollectedPackageIsOut ==
  \A o \in Orders : batchId[o] # Null =>
    (batchStatus[batchId[o]] = "COLLECTED" =>
       status[o] \in {"OUT_FOR_DELIVERY", "DELIVERED", "DELIVERY_FAILED"})

Finished(o) ==
  \/ status[o] \in {"DELIVERED", "CANCELLED"}
  \/ status[o] = "DELIVERY_FAILED" /\ returned[o]

(* An order bound to a shift is in the hands of that shift's driver, of that   *)
(* shift's store; and while it is unfinished the shift is still active: no     *)
(* shift ends over a delivery or a pending return (shift.service.ts,           *)
(* hasUnfinishedOrder, against every accept path).                             *)
ShiftHoldsItsOrders ==
  \A o \in Orders : shiftId[o] # Null =>
    LET s == shiftId[o] IN
    /\ driver[o] = ShiftDriver[s]
    /\ OrderStore[o] = ShiftStore[s]
    /\ Finished(o) \/ shift[s] = "ACTIVE"

(* A driver has at most one active shift, through starts, reopenings and ends  *)
(* in any order (index driver_shifts_one_active_per_driver).                   *)
OneActiveShift ==
  \A s, t \in Shifts :
    shift[s] = "ACTIVE" /\ shift[t] = "ACTIVE" /\ ShiftDriver[s] = ShiftDriver[t] => s = t

(* The drivers at work that the store's call is for.                           *)
Called(o, d) ==
  \/ target[o] = "GENERAL" /\ ActiveShifts(d) = {}
  \/ target[o] = "OWN" /\ SpecificDriverOnShift(OrderStore[o], d)
  \/ /\ target[o] = "SPECIFIC" /\ requestedDriver[o] = d /\ ~refused[o]
     /\ SpecificDriverOnShift(OrderStore[o], d)

(* An order that waits for a driver has a call standing, and every driver that *)
(* call is for, who is at work and has not refused it, finds the order on the  *)
(* list he polls: no package, no leftover of an earlier call and no change of  *)
(* status hides it (storeUpdateOrderStatus, setDriverRequestTarget, withdraw,  *)
(* broadcastBatch, cancelBatch against listAvailableDeliveries and             *)
(* listShiftDeliveries).  It may still be on nobody's list: see                *)
(* AwaitingDriverIsSeen.                                                       *)
CalledDriversSeeTheOrder ==
  \A o \in Orders : status[o] = "AWAITING_DRIVER" /\ driver[o] = Null =>
    /\ target[o] # "NONE"
    /\ target[o] = "SPECIFIC" => requestedDriver[o] \in Drivers
    /\ \A d \in Drivers : Called(o, d) =>
         o \in listAvailableDeliveries(d) \cup listShiftDeliveries(d)

(* The driver's users row serializes taking a delivery from the pool and       *)
(* starting a shift: neither happens over the other (acceptDelivery,           *)
(* startShift; the comment at shift.service.ts:31-32).                         *)
StartExcludesPool ==
  [][ \A d \in Drivers :
        /\ (\E s \in Shifts : /\ ShiftDriver[s] = d
                              /\ shift[s] = "NONE" /\ shift'[s] = "ACTIVE")
             => GeneralAssignments(d) = {}
        /\ (\E o \in Orders : /\ driver[o] # d /\ driver'[o] = d
                              /\ shiftId'[o] = Null)
             => ActiveShifts(d) = {} ]_vars

(* Whatever the order goes through, at most one entry ever pays a driver for   *)
(* carrying it: delivered or returned, by the pool's fee or the shift's extra  *)
(* (recordOrderLedger, recordReturnLedger).                                    *)
OneDeliveryPay ==
  \A e, f \in ledger :
    e.kind \in DeliveryPayKinds /\ f.kind \in DeliveryPayKinds /\ e.of = f.of => e = f

(* A driver is paid for a delivery only when it ended: a delivery entry needs  *)
(* a delivered order, a return entry one the store has back.                   *)
PayFollowsTheGoods ==
  \A e \in ledger :
    /\ e.kind \in {"driver-delivery-credit", "driver-per-delivery"}
         => status[e.of] = "DELIVERED"
    /\ e.kind \in ReturnPayKinds => status[e.of] = "DELIVERY_FAILED" /\ returned[e.of]
    /\ e.kind = "driver-daily" => shift[e.of] = "CLOSED"

(* What the two-step transactions rely on while they hold a users row.         *)
HoldersAreRight ==
  /\ \A t, u \in holding : t.driver = u.driver => t = u
  /\ \A t \in holding :
       /\ t.op = "acceptDelivery" => ActiveShifts(t.driver) = {}
       /\ t.op = "startShift" => /\ ShiftDriver[t.on] = t.driver
                                 /\ GeneralAssignments(t.driver) = {}

(* An order enters a package, or gets a driver, only after the store accepted  *)
(* it; and the package is its own store's.                                     *)
OnlyAcceptedOrdersMove ==
  \A o \in Orders :
    /\ driver[o] # Null \/ batchId[o] # Null => status[o] \notin {"AWAITING_PAYMENT", "PENDING"}
    /\ batchId[o] # Null => OrderStore[o] = BatchStore[batchId[o]]

(* What keeps a call whole: only a delivery is called or packed, only a call   *)
(* to one driver can be refused, and outside a package it names the driver (a  *)
(* cancelled order keeps what its package left in the row).                    *)
CallIsKept ==
  \A o \in Orders :
    /\ status[o] = "AWAITING_DRIVER" => target[o] # "NONE" /\ batchId[o] = Null
    /\ target[o] # "NONE" \/ batchId[o] # Null => Fulfillment[o] = "DELIVERY"
    /\ refused[o] => target[o] = "SPECIFIC"
    /\ target[o] = "SPECIFIC" /\ batchId[o] = Null /\ status[o] # "CANCELLED"
         => requestedDriver[o] # Null

(* The inductive invariant behind the theorems of DeliveryProofs.              *)
IInv ==
  /\ TypeOK
  /\ BatchAgreesWithOrders
  /\ CollectedPackageIsOut
  /\ ShiftHoldsItsOrders
  /\ CallIsKept
  /\ OneActiveShift
  /\ PayFollowsTheGoods
  /\ OneDeliveryPay
  /\ OnlyAcceptedOrdersMove
  /\ HoldersAreRight

(* The rows implement the abstract order lifecycle.                            *)
ImplementsLifecycle == Lifecycle!Spec

-------------------------------------------------------------------------------
(* order-status.ts:22 says READY -> OUT_FOR_DELIVERY is for an assigned driver;*)
(* so a delivery on its way is always in somebody's hands.                     *)
OutForDeliveryHasDriver ==
  \A o \in Orders :
    status[o] = "OUT_FOR_DELIVERY" /\ Fulfillment[o] = "DELIVERY" => driver[o] # Null

(* db/schema/orders.ts:71 says the pay frozen at the failure is released on    *)
(* the return: a confirmed return has paid the driver who brought it back.     *)
ConfirmedReturnIsPaid ==
  \A o \in Orders : returned[o] =>
    \E e \in ledger : e.kind \in ReturnPayKinds /\ e.of = o

(* shift.service.ts:31-32 and docs/superpowers/plans (entregadores proprios)   *)
(* say a driver on shift has no delivery from the general pool.                *)
ShiftExcludesPool ==
  \A d \in Drivers : ActiveShifts(d) # {} => GeneralAssignments(d) = {}

(* What the store would expect of AWAITING_DRIVER, and the code does not give: *)
(* that some driver sees the order.  A driver who refuses the call, or whose   *)
(* shift ends, and a call nobody at work is meant by, leave it on no list      *)
(* until the store calls again (dispatch.service.ts:165 and 185; only the      *)
(* refusal is shown to the store).                                             *)
AwaitingDriverIsSeen ==
  \A o \in Orders : status[o] = "AWAITING_DRIVER" /\ driver[o] = Null =>
    \E d \in Drivers : o \in listAvailableDeliveries(d) \cup listShiftDeliveries(d)
===============================================================================
