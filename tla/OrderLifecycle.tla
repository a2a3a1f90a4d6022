---------------------------- MODULE OrderLifecycle ----------------------------
(* What an order's status promises to everyone who reads it: the table         *)
(* TRANSITIONS of packages/shared/src/order-status.ts, the one edge the        *)
(* services add to it (a withdrawn call returns the order to READY), and the   *)
(* finality of the three terminal statuses.  The detailed modules implement    *)
(* this one.                                                                   *)
EXTENDS Naturals

CONSTANT Orders

VARIABLE status

ORDER_STATUSES ==
  {"AWAITING_PAYMENT", "PENDING", "ACCEPTED", "PREPARING", "READY",
   "AWAITING_DRIVER", "OUT_FOR_DELIVERY", "DELIVERED", "DELIVERY_FAILED",
   "CANCELLED"}

TRANSITIONS ==
  [s \in ORDER_STATUSES |->
     CASE s = "AWAITING_PAYMENT" -> {"PENDING", "CANCELLED"}
       [] s = "PENDING"          -> {"ACCEPTED", "CANCELLED"}
       [] s = "ACCEPTED"         -> {"PREPARING", "CANCELLED"}
       [] s = "PREPARING"        -> {"READY", "CANCELLED"}
       [] s = "READY"            -> {"AWAITING_DRIVER", "OUT_FOR_DELIVERY",
                                     "DELIVERED", "CANCELLED"}
       [] s = "AWAITING_DRIVER"  -> {"OUT_FOR_DELIVERY", "CANCELLED"}
       [] s = "OUT_FOR_DELIVERY" -> {"DELIVERED", "DELIVERY_FAILED"}
       [] OTHER                  -> {}]

canTransition(from, to) == to \in TRANSITIONS[from]

(* One transaction may take READY and AWAITING_DRIVER in a row (the store      *)
(* marks a called order ready), and a withdrawn call goes back to READY.       *)
Visible(from, to) ==
  \/ canTransition(from, to)
  \/ from = "PREPARING" /\ to = "AWAITING_DRIVER"
  \/ from = "AWAITING_DRIVER" /\ to = "READY"

Init == status \in [Orders -> {"AWAITING_PAYMENT", "PENDING"}]

(* A transaction may move several orders at once (a collected package).        *)
Next ==
  \E moved \in SUBSET Orders :
    /\ moved # {}
    /\ \A o \in moved : Visible(status[o], status'[o])
    /\ status' \in [Orders -> ORDER_STATUSES]
    /\ \A o \in Orders \ moved : status'[o] = status[o]

Spec == Init /\ [][Next]_status
===============================================================================
