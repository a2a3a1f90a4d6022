------------------------------ MODULE Amendments ------------------------------
(* amendment.service.ts: the store proposes fewer items, the customer agrees   *)
(* or the order is cancelled.  proposeAmendment reads the order, the proposals *)
(* and the items one after the other and locks none of them.                   *)
EXTENDS Checkout

PROPOSABLE == {"ACCEPTED", "PREPARING"}
notAmended == UNCHANGED <<bucket, signing, menu, browser, request, now>>

Pending(o) == {a \in Amendments : amendment[a] # None /\ amendment[a].order = o
                                    /\ amendment[a].status = "PROPOSED"}
FreshAmendment(a) == amendment[a] = None /\ \A n \in 1..(a - 1) : amendment[n] # None
Settled(as, status) ==
  [a \in Amendments |-> IF a \in as THEN [amendment[a] EXCEPT !.status = status] ELSE amendment[a]]

proposeAmendment(t, o) ==
  /\ tablet[t] = NoProposal
  /\ order[o].status \in PROPOSABLE
  /\ Takes("amend")
  /\ tablet' = [tablet EXCEPT ![t] = [at |-> "PENDING", order |-> o, total |-> order[o].total,
                                      fee |-> order[o].fee, row |-> None]]
  /\ UNCHANGED <<order, amendment>> /\ notAmended

looksForPending(t) ==
  /\ tablet[t].at = "PENDING"
  /\ tablet' = [tablet EXCEPT ![t] = IF Pending(tablet[t].order) = {} THEN [@ EXCEPT !.at = "ITEMS"]
                                     ELSE NoProposal]
  /\ UNCHANGED <<order, amendment, left>> /\ notAmended

SubtotalOf(items) == SumOver(DOMAIN items, LAMBDA i : items[i].unit * items[i].quantity)
Amended(items, changes) ==
  [i \in {j \in DOMAIN items : j \in DOMAIN changes => changes[j] > 0} |->
     IF i \in DOMAIN changes THEN [items[i] EXCEPT !.quantity = changes[i]] ELSE items[i]]

Proposal(t, items, changes) ==
  LET subtotal == SubtotalOf(Amended(items, changes))
  IN [order |-> tablet[t].order, status |-> "PROPOSED", changes |-> changes,
      total |-> subtotal + tablet[t].fee,
      refund |-> tablet[t].total - (subtotal + tablet[t].fee)]

readsItems(t) ==
  /\ tablet[t].at = "ITEMS"
  /\ LET items == order[tablet[t].order].items
         reduces(changes) == \A i \in DOMAIN changes : changes[i] < items[i].quantity
     IN \E S \in SUBSET DOMAIN items : \E changes \in [S -> 0..1] :
          /\ changes # <<>> /\ reduces(changes) /\ Amended(items, changes) # <<>>
          /\ tablet' = [tablet EXCEPT ![t] = [@ EXCEPT !.at = "INSERTS",
                                                       !.row = Proposal(t, items, changes)]]
  /\ UNCHANGED <<order, amendment, left>> /\ notAmended

(* A change to an item that is gone by now is refused by its foreign key.      *)
insertsProposal(t, a) ==
  LET row == tablet[t].row
  IN /\ tablet[t].at = "INSERTS" /\ FreshAmendment(a)
     /\ amendment' = IF DOMAIN row.changes \subseteq DOMAIN order[row.order].items
                       THEN [amendment EXCEPT ![a] = row] ELSE amendment
     /\ tablet' = [tablet EXCEPT ![t] = NoProposal]
     /\ UNCHANGED <<order, left>> /\ notAmended

withdrawAmendment(o) ==
  /\ Pending(o) # {}
  /\ Takes("amend")
  /\ amendment' = Settled(Pending(o), "EXPIRED")
  /\ UNCHANGED <<order, tablet>> /\ notAmended

(* What a deleted item takes with it from the other proposals.                 *)
WithoutDeleted(a, items) ==
  IF amendment[a] = None THEN None
  ELSE LET kept == DOMAIN amendment[a].changes \cap items
       IN [amendment[a] EXCEPT !.changes = [i \in kept |-> amendment[a].changes[i]]]

approvesLate(a) ==
  LET o == amendment[a].order
      items == Amended(order[o].items, amendment[a].changes)
  IN /\ amendment[a] # None /\ a \in Pending(o)
     /\ Takes("amend")
     /\ amendment' = Settled({a}, "APPROVED")
     /\ order' = [order EXCEPT ![o] = [@ EXCEPT !.items = items, !.total = amendment[a].total]]
     /\ UNCHANGED tablet /\ notAmended

approveAmendment(a) ==
  LET o == amendment[a].order
      items == Amended(order[o].items, amendment[a].changes)
      paidBack == IF amendment[a].refund > 0 /\ order[o].payment.status = "APPROVED"
                    THEN amendment[a].refund ELSE 0
      refund == order[o].refund + paidBack
  IN /\ amendment[a] # None /\ a \in Pending(o)
     /\ order[o].status \in PROPOSABLE
     /\ Takes("amend")
     /\ amendment' = [b \in Amendments |->
          IF b = a THEN [amendment[a] EXCEPT !.status = "APPROVED"]
          ELSE IF amendment[b] # None THEN
            IF amendment[b].order = o THEN WithoutDeleted(b, DOMAIN items) ELSE amendment[b]
          ELSE None]
     /\ order' = [order EXCEPT ![o] = [@ EXCEPT !.items = items, !.total = amendment[a].total,
                                                !.refund = refund]]
     /\ UNCHANGED tablet /\ notAmended

Cancelled(o) == [order EXCEPT ![o] = [@ EXCEPT !.status = "CANCELLED"]]

rejectAmendment(a) ==
  LET o == amendment[a].order
  IN /\ amendment[a] # None /\ a \in Pending(o)
     /\ order[o].status \in PROPOSABLE
     /\ Takes("amend")
     /\ amendment' = Settled({a}, "REJECTED")
     /\ order' = Cancelled(o)
     /\ UNCHANGED tablet /\ notAmended

(* The handlers of the order's own life that a proposal meets.                 *)
storeUpdateOrderStatus(o) ==
  /\ Pending(o) = {}
  /\ Takes("shop")
  /\ \E step \in {<<"PENDING", "ACCEPTED">>, <<"ACCEPTED", "PREPARING">>, <<"PREPARING", "READY">>} :
       /\ order[o].status = step[1]
       /\ order' = [order EXCEPT ![o] = [@ EXCEPT !.status = step[2]]]
  /\ UNCHANGED <<amendment, tablet>> /\ notAmended

cancelsOrder(o) ==
  /\ order[o].status \in {"AWAITING_PAYMENT", "PENDING", "ACCEPTED", "PREPARING", "READY"}
  /\ Takes("shop")
  /\ order' = Cancelled(o)
  /\ amendment' = Settled(Pending(o), "EXPIRED")
  /\ UNCHANGED tablet /\ notAmended

Amending ==
  \/ \E t \in Tablets, o \in Orders : proposeAmendment(t, o)
  \/ \E t \in Tablets : looksForPending(t) \/ readsItems(t)
  \/ \E t \in Tablets, a \in Amendments : insertsProposal(t, a)
  \/ \E o \in Orders : withdrawAmendment(o) \/ storeUpdateOrderStatus(o) \/ cancelsOrder(o)
  \/ \E a \in Amendments : approveAmendment(a) \/ rejectAmendment(a)
=============================================================================
