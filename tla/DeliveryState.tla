---------------------------- MODULE DeliveryState -----------------------------
(* The rows that dispatch works on: orders, delivery_batches, driver_shifts    *)
(* and the drivers' entries of the ledger, one variable per column (or per     *)
(* pair of columns that always change together).  A database transaction that  *)
(* locks every row it reads is one step of the modules that EXTEND this one;   *)
(* the two that read rows they do not lock are two steps, and hold the lock on *)
(* the driver's users row in between.                                          *)
EXTENDS FiniteSets

CONSTANTS
  Orders, Drivers, Stores, Shifts, Batches,
  Null,          \* SQL null
  OrderStore,    \* orders.store_id
  Fulfillment,   \* orders.fulfillment
  PaidOnline,    \* orders.payment_method is PIX_ONLINE or CARD_ONLINE
  ShiftStore,    \* driver_shifts.store_id
  ShiftDriver,   \* driver_shifts.driver_user_id
  BatchStore     \* delivery_batches.store_id

ASSUME NullIsNoRow == Null \notin Orders \cup Drivers \cup Shifts \cup Batches

ASSUME RowsHaveOwners ==
  /\ OrderStore \in [Orders -> Stores]
  /\ Fulfillment \in [Orders -> {"DELIVERY", "PICKUP"}]
  /\ PaidOnline \in [Orders -> BOOLEAN]
  /\ ShiftStore \in [Shifts -> Stores]
  /\ ShiftDriver \in [Shifts -> Drivers]
  /\ BatchStore \in [Batches -> Stores]

VARIABLES
  status,           \* orders.status
  driver,           \* orders.driver_id
  shiftId,          \* orders.shift_id
  batchId,          \* orders.batch_id
  target,           \* orders.driver_request_target; "NONE" iff driver_requested_at is null
  requestedDriver,  \* orders.requested_driver_id
  refused,          \* orders.driver_request_refused_at is set
  arrived,          \* orders.driver_arrived_at is set
  returnPay,        \* orders.return_driver_pay_cents: the fee or the shift's extra
  declared,         \* orders.driver_returned_at is set
  returned,         \* orders.returned_at is set
  batchStatus,      \* delivery_batches.status; "NONE" before the row exists
  batchDriver,      \* delivery_batches.driver_id
  batchCall,        \* delivery_batches: target, requested_driver_id, refused_at is set
  shift,            \* driver_shifts.status; "NONE" before the row exists
  ledger,           \* ledger_entries of party DRIVER
  holding           \* open transactions that hold a driver's users row

assignment == <<driver, shiftId, arrived>>
request    == <<target, requestedDriver, refused>>
return     == <<returnPay, declared, returned>>
orderRow   == <<status, batchId, assignment, request, return>>
batchRow   == <<batchStatus, batchDriver, batchCall>>
vars       == <<orderRow, batchRow, shift, ledger, holding>>

ORDER_STATUSES ==
  {"AWAITING_PAYMENT", "PENDING", "ACCEPTED", "PREPARING", "READY",
   "AWAITING_DRIVER", "OUT_FOR_DELIVERY", "DELIVERED", "DELIVERY_FAILED",
   "CANCELLED"}
Lifecycle == INSTANCE OrderLifecycle WITH Orders <- Orders, status <- status

TARGETS == {"GENERAL", "OWN", "SPECIFIC"}
BATCH_STATUSES == {"NONE", "OPEN", "PENDING", "ACCEPTED", "COLLECTED", "CANCELLED"}
BatchCall == [target : TARGETS, specific : Drivers \cup {Null}, refused : BOOLEAN]
SHIFT_STATUSES == {"NONE", "ACTIVE", "PENDING_DAILY", "REOPEN_ALLOWED", "CLOSED"}

ReturnPayKinds == {"driver-delivery-credit-on-return", "driver-per-delivery-on-return"}
DeliveryPayKinds ==
  {"driver-delivery-credit", "driver-per-delivery"} \cup ReturnPayKinds
Entry == [kind : DeliveryPayKinds \cup {"half-fee"}, of : Orders, driver : Drivers]
           \cup [kind : {"driver-daily"}, of : Shifts, driver : Drivers]

Txn == [op : {"acceptDelivery"}, driver : Drivers, on : Orders]
         \cup [op : {"startShift"}, driver : Drivers, on : Shifts]

TypeOK ==
  /\ status \in [Orders -> ORDER_STATUSES]
  /\ driver \in [Orders -> Drivers \cup {Null}]
  /\ shiftId \in [Orders -> Shifts \cup {Null}]
  /\ batchId \in [Orders -> Batches \cup {Null}]
  /\ target \in [Orders -> TARGETS \cup {"NONE"}]
  /\ requestedDriver \in [Orders -> Drivers \cup {Null}]
  /\ refused \in [Orders -> BOOLEAN]
  /\ arrived \in [Orders -> BOOLEAN]
  /\ returnPay \in [Orders -> {"none", "fee", "extra"}]
  /\ declared \in [Orders -> BOOLEAN]
  /\ returned \in [Orders -> BOOLEAN]
  /\ batchStatus \in [Batches -> BATCH_STATUSES]
  /\ batchDriver \in [Batches -> Drivers \cup {Null}]
  /\ batchCall \in [Batches -> BatchCall]
  /\ shift \in [Shifts -> SHIFT_STATUSES]
  /\ ledger \subseteq Entry
  /\ holding \subseteq Txn

(* createOrder: paid online it waits for the payment, else for the store.      *)
Init ==
  /\ status = [o \in Orders |-> IF PaidOnline[o] THEN "AWAITING_PAYMENT" ELSE "PENDING"]
  /\ driver = [o \in Orders |-> Null]
  /\ shiftId = [o \in Orders |-> Null]
  /\ batchId = [o \in Orders |-> Null]
  /\ target = [o \in Orders |-> "NONE"]
  /\ requestedDriver = [o \in Orders |-> Null]
  /\ refused = [o \in Orders |-> FALSE]
  /\ arrived = [o \in Orders |-> FALSE]
  /\ returnPay = [o \in Orders |-> "none"]
  /\ declared = [o \in Orders |-> FALSE]
  /\ returned = [o \in Orders |-> FALSE]
  /\ batchStatus = [b \in Batches |-> "NONE"]
  /\ batchDriver = [b \in Batches |-> Null]
  /\ batchCall = [b \in Batches |->
                    [target |-> "GENERAL", specific |-> Null, refused |-> FALSE]]
  /\ shift = [s \in Shifts |-> "NONE"]
  /\ ledger = {}
  /\ holding = {}

ACCEPTABLE == {"ACCEPTED", "PREPARING", "READY", "AWAITING_DRIVER"}

InFlight == ACCEPTABLE \cup {"OUT_FOR_DELIVERY"}

(* driver_shifts_one_active_per_driver makes this at most one.                 *)
ActiveShifts(d) == {s \in Shifts : shift[s] = "ACTIVE" /\ ShiftDriver[s] = d}

OrdersOf(b) == {o \in Orders : batchId[o] = b}

UserRowUnlocked(d) == d \in Drivers      \* mutant: nobody takes the row lock

UserRowFree(d) == \A t \in holding : t.driver # d

(* insertEntries: an entry whose unique_key is taken is dropped silently; the  *)
(* half fee's key names the driver, the others only the order or the shift.    *)
KeyTaken(e) ==
  \E f \in ledger : /\ f.kind = e.kind /\ f.of = e.of
                    /\ e.kind = "half-fee" => f.driver = e.driver

insertEntries(entries) == ledger \cup {e \in entries : ~KeyTaken(e)}
===============================================================================
