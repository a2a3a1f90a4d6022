----------------------------- MODULE MC_Finance -----------------------------
(* A delivery in the driver's shift and one from the pool, paid or not through *)
(* the platform; two days, a period of the first and one of both.              *)
EXTENDS Finance

CONSTANTS o1, o2, c1, c2

CarrierOf == o1 :> "fixed" @@ o2 :> "pool"
StartTerms == [daily |-> 4, extra |-> 2]
LowerTerms == {StartTerms, [daily |-> 4, extra |-> 1]}
HigherTerms == {StartTerms, [daily |-> 4, extra |-> 3]}
OverlappingPeriods == {{1}, {1, 2}}
=============================================================================
