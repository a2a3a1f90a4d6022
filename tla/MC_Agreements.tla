--------------------------- MODULE MC_Agreements ---------------------------
(* Days of three units, from a Saturday's morning to the Sunday's.  One agenda *)
(* is dated and may be extended to where the other begins, which crosses       *)
(* midnight and the week's end into the Sunday mornings the offer is for.      *)
EXTENDS Agreements, TLC

CONSTANTS d1, d2, l1, l2, f1, x1

Daytime == {Item(FALSE, 6, 0, 2)}
Tonight == {Item(FALSE, 6, 2, 1)}
Invited == d1 :> {Daytime} @@ d2 :> {}
Changed == d1 :> {Tonight} @@ d2 :> {}
OfferedMornings == f1 :> {Item(TRUE, 0, 0, 2)}
OneSlot == f1 :> 1
SameLinks == Permutations(Links)
=============================================================================
