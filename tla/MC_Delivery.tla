------------------------------ MODULE MC_Delivery -----------------------------
(* Small instances of Delivery.                                                *)
EXTENDS Delivery, TLC

CONSTANTS o1, o2, d1, d2, s1, s2, b1, storeA

OneStore == [o \in Orders |-> storeA]
AllDeliveries == [o \in Orders |-> "DELIVERY"]
SecondIsPickup == [o \in Orders |-> IF o = o1 THEN "DELIVERY" ELSE "PICKUP"]
FirstIsOnline == [o \in Orders |-> o = o1]
AllOffline == [o \in Orders |-> FALSE]
AllOnline == [o \in Orders |-> TRUE]
ShiftsOfOneStore == [s \in Shifts |-> storeA]
BatchesOfOneStore == [b \in Batches |-> storeA]
OneShiftEach == [s \in Shifts |-> IF s = s1 THEN d1 ELSE d2]
TwoShiftsOfOne == [s \in Shifts |-> d1]
OrdersAlike == Permutations(Orders)
===============================================================================
