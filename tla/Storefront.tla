------------------------------ MODULE Storefront ------------------------------
(* The limits, the menu, the checkout and the changes to orders, as time       *)
(* passes.                                                                     *)
EXTENDS Amendments

TimePasses ==
  /\ Takes("wait")
  /\ now' \in {i \in Instants : i > now}
  /\ UNCHANGED <<bucket, signing, menu, browser, request, order, amendment, tablet>>

Next == Limiting \/ Selling \/ Buying \/ Amending \/ TimePasses

Spec == Init /\ [][Next]_vars

TypeOK ==
  /\ \A k \in DOMAIN bucket : k[1] \in DOMAIN Policies /\ bucket[k].count > 0
                                /\ bucket[k].expires >= bucket[k].blocked
  /\ \A p \in Products : IsRow(product[p]) => product[p].category \in category
  /\ \A t \in Trees : live(t) => IsRow(product[tree[t].product])
  /\ \A r \in replacing : IsRow(product[r.product])
  /\ \A r \in Requests : Waiting(r) =>
       request[r].at \in {"ARRIVES", "GROUPS", "OPTIONS", "MATRIX", "INSERTS", "PAYS"}
  /\ \A c \in Customers : page[c].waits # None => request[page[c].waits].kind = "ORDER"
  /\ \A o \in Orders : Placed(o) =>
       /\ order[o].status \in {"AWAITING_PAYMENT", "PENDING", "ACCEPTED", "PREPARING", "READY", "CANCELLED"}
       /\ order[o].total \in Nat /\ order[o].refund \in Nat
       /\ order[o].status = "AWAITING_PAYMENT" => order[o].payment.status = "PENDING"
  /\ \A a \in Amendments : amendment[a] # None =>
       amendment[a].status \in {"PROPOSED", "APPROVED", "REJECTED", "EXPIRED"}
  /\ now \in Instants

(* replaceProductOptions, whose lock is there so that two replacements do not  *)
(* merge: the options of a product were all written by the same call.          *)
MenuIsOneTree == \A p \in Products : Cardinality(TreesOf(p)) <= 1

(* placeOrder and createOrder, with answers lost and payments refused or left  *)
(* in doubt: whoever keeps trying on one checkout page gets one order.         *)
Lives(o) == order[o].status \notin {"NONE", "CANCELLED"}
OneOrderPerVisit ==
  \A n, o \in {x \in Orders : Lives(x)} :
    order[n].who = order[o].who /\ order[n].visit = order[o].visit => n = o

(* approveAmendment against the kitchen: what an order consists of does not    *)
(* change once it is ready or cancelled.                                       *)
ReadyOrdersStay ==
  [][\A o \in Orders : Placed(o) /\ order'[o].items # order[o].items
       => order[o].status \in PROPOSABLE]_vars

(* consume, over the hour and under attempts that overlap: a block ends when   *)
(* it was to end, unless a login succeeds before.                              *)
BlockEndsOnTime ==
  [][\A c \in Customers, s \in DOMAIN Policies :
       BlockEnd(bucket, s, c) > now'
         => BlockEnd(bucket, s, c)' = BlockEnd(bucket, s, c) \/ clearLoginFailures(c)]_vars

(* src/apps/api/src/db/schema/amendments.ts:17 of refundCents: the difference  *)
(* that the customer is paid back.                                             *)
RefundIsTheReduction ==
  [][\A a \in Amendments :
       amendment[a] # None /\ amendment[a].status # amendment'[a].status
         /\ amendment'[a].status = "APPROVED"
         => amendment[a].refund = order[amendment[a].order].total - order'[amendment[a].order].total]_vars
=============================================================================
