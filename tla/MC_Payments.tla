------------------------------ MODULE MC_Payments ------------------------------
(* Small instances of Payments.                                                *)
EXTENDS Payments

CONSTANTS a1, a2, w1, w2

OneCentEach == [a \in Amendments |-> 1]
===============================================================================
