------------------------------ MODULE ShopState -------------------------------
(* The rows and pages of the shop that a customer buys from: the limits on     *)
(* requests, the menu, the checkout page, orders and the changes proposed to   *)
(* them.  Time is in minutes since a Sunday began; money in cents, distance    *)
(* in tenths of a kilometre.  A request's reads are steps of their own, its    *)
(* transactions are one step unless another can come between.                  *)
EXTENDS Integers, Sequences, FiniteSets, FiniteSetsExt

CONSTANTS
  Customers,                 \* each with one browser page
  Products, Categories,
  LastTree, LastOrder, LastAmendment,  \* rows that can be created
  Requests, Tablets,         \* requests to the server; the store's open sessions
  Policies,                  \* the rate limits, by scope
  Instants,
  Scenarios,                 \* initial states, and calls of each kind to come
  Picks, Methods,          \* <<group, option>>s of an item; ways to pay
  Menus,                     \* trees of options that the store may write
  None, Gone                 \* SQL null or no row yet; a row that was deleted

(* A scenario has one tree of options for a product, and each of its orders a  *)
(* key of its own, used at the first attempt, and no payment in the balance.   *)
ASSUME ScenarioAssumption ==
  \A s \in Scenarios :
    /\ \A t \in DOMAIN s.tree : DOMAIN s.tree[t] = {"product", "live", "groups"}
    /\ \A t, u \in DOMAIN s.tree : s.tree[t].product = s.tree[u].product => t = u
    /\ \A o \in DOMAIN s.order :
         /\ DOMAIN s.order[o] = {"who", "visit", "key", "method", "status", "items", "fee",
                                 "total", "refund", "payment"}
         /\ s.order[o].key = <<s.order[o].who, s.order[o].visit, 1>>
         /\ DOMAIN s.order[o].payment = {"status", "made", "review"}
         /\ s.order[o].payment.status \notin {"PENDING", "REJECTED", "CANCELLED", "EXPIRED"}
    /\ \A n, o \in DOMAIN s.order : s.order[n].key = s.order[o].key => n = o

(* Rows that the store writes, with the columns that a quote reads.            *)
Price == Nat \cup {None}
StoreRows ==
  [paused : BOOLEAN, minOrder : Price,
   hours : SUBSET [dow : 0..6, open : Nat, close : Nat],
   fee : [mode : {"FIXED", "DISTANCE"}, fixed : Price, minFee : Price, perKm : Price, maxKm : Price]]
ProductRows == [category : Categories, base : Nat, available : BOOLEAN]
GroupRows ==
  [type : {"VARIATION", "FLAVOR", "ADDON"}, min : Nat, max : Nat,
   options : Seq([price : Price, available : BOOLEAN, matrix : Seq(Price)])]
TreeRows == [product : Products, live : BOOLEAN, groups : Seq(GroupRows)]
OrderItems == [unit : Nat, quantity : Nat]

(* A scenario's menu and orders are such as the handlers write.                *)
ASSUME StartAssumption ==
  /\ \A choice \in Picks : IsFiniteSet(choice)
  /\ Menus \subseteq Seq(GroupRows)
  /\ \A s \in Scenarios :
       /\ s.store \in StoreRows /\ s.category \subseteq Categories
       /\ s.product \in [Products -> ProductRows \cup {None}]
       /\ \A p \in Products : s.product[p] # None => s.product[p].category \in s.category
       /\ \A t \in DOMAIN s.tree : s.tree[t] \in TreeRows /\ s.product[s.tree[t].product] # None
       /\ \A o \in DOMAIN s.order :
            /\ s.order[o].status \in {"PENDING", "ACCEPTED", "PREPARING", "READY", "CANCELLED"}
            /\ s.order[o].items \in Seq(OrderItems)
            /\ s.order[o].fee \in Nat /\ s.order[o].total \in Nat /\ s.order[o].refund \in Nat

ASSUME NoneAssumption ==
  /\ None \notin Requests \cup {"PENDING", "REJECTED", "CANCELLED", "EXPIRED"}
  /\ None \notin ProductRows \cup TreeRows /\ Gone \notin ProductRows

VARIABLES
  bucket,     \* rate_limit_buckets
  signing,    \* logins that passed the limits and wait for their password check
  store,      \* the columns of stores that a quote reads
  category, product,
  tree,       \* option groups, options and price matrix, by the call that wrote them
  replacing,  \* replacements of a tree that hold the lock of their product
  address,    \* the customers' saved addresses
  page,       \* cart and checkout page
  request,    \* what the server holds of a quote or an order on its way
  order,      \* with its items and its payment
  amendment,  \* order_amendments with their items
  tablet,     \* what proposeAmendment holds in its local variables
  left,       \* calls still to come, by kind
  now

menu == <<store, category, product, tree, replacing>>
browser == <<page, address>>
vars == <<bucket, signing, menu, browser, request, order, amendment, tablet, left, now>>

Trees == 1..LastTree
Orders == 1..LastOrder
Amendments == 1..LastAmendment

HOUR == 60
DAY == 1440
WEEK == 7

(* A key is new in each visit to the page and after a payment is refused.      *)
NewVisit(n) == [visit |-> n, attempt |-> 1, items |-> <<>>, method |-> "CASH", quote |-> None,
                waits |-> None]
KeyOf(c) == <<c, page[c].visit, page[c].attempt>>

IsRow(x) == x \notin {None, Gone}

NoRequest == [at |-> "NONE"]
NoProposal == [at |-> "NONE"]
NoOrder == [status |-> "NONE"]

Init ==
  /\ bucket = <<>>
  /\ signing = [c \in Customers |-> 0]
  /\ \E s \in Scenarios :
       /\ store = s.store /\ category = s.category /\ product = s.product
       /\ tree = [t \in Trees |-> IF t \in DOMAIN s.tree THEN s.tree[t] ELSE None]
       /\ order = [o \in Orders |-> IF o \in DOMAIN s.order THEN s.order[o] ELSE NoOrder]
       /\ left = s.left
  /\ replacing = {}
  /\ address = [c \in Customers |-> 6]
  /\ page = [c \in Customers |-> NewVisit(1)]
  /\ request = [r \in Requests |-> NoRequest]
  /\ amendment = [a \in Amendments |-> None]
  /\ tablet = [t \in Tablets |-> NoProposal]
  /\ now = 0

Placed(o) == order[o].status # "NONE"
Waiting(r) == request[r].at # "NONE"

Takes(call) == left[call] > 0 /\ left' = [left EXCEPT ![call] = @ - 1]

SumOver(S, f(_)) == MapThenSumSet(f, S)
=============================================================================
