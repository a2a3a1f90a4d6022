--------------------------- MODULE StorefrontProofs ---------------------------
(* Theorems of Storefront for any customers, products, menus, requests, limits *)
(* and scenarios: the menu, the orders of one visit to the checkout page, the  *)
(* limits on requests, and the types of rows, requests and proposals.          *)
EXTENDS Storefront, Sums, SequenceTheorems

-----------------------------------------------------------------------------
(* The menu.                                                                   *)

TreeFields == {"product", "live", "groups"}

(* A product has one tree, one replacement at a time, and that replacement     *)
(* deletes whatever tree there is.                                             *)
MenuInv ==
  /\ tree = [t \in Trees |-> tree[t]]
  /\ \A t \in Trees : tree[t] # None => DOMAIN tree[t] = TreeFields
  /\ \A t, u \in Trees : live(t) /\ live(u) /\ tree[t].product = tree[u].product => t = u
  /\ \A r, s \in replacing : r.product = s.product => r = s
  /\ \A r \in replacing : /\ TreesOf(r.product) \subseteq r.deletes
                          /\ r.deletes \subseteq Trees
                          /\ \A u \in r.deletes : DOMAIN tree[u] = TreeFields

LEMMA MenuInit == Init => MenuInv
<1> SUFFICES ASSUME Init  PROVE MenuInv
  OBVIOUS
<1>1. PICK s \in Scenarios :
        tree = [t \in Trees |-> IF t \in DOMAIN s.tree THEN s.tree[t] ELSE None]
  BY DEF Init
<1>2. \A t \in Trees : tree[t] # None => t \in DOMAIN s.tree /\ tree[t] = s.tree[t]
  BY <1>1
<1>3. \A t \in Trees : tree[t] # None => DOMAIN tree[t] = TreeFields
  BY <1>2, ScenarioAssumption DEF TreeFields
<1>4. \A t, u \in Trees : live(t) /\ live(u) /\ tree[t].product = tree[u].product => t = u
  BY <1>2, ScenarioAssumption DEF live
<1>5. replacing = {}
  BY DEF Init
<1>6. QED
  BY <1>1, <1>3, <1>4, <1>5 DEF MenuInv

(* Where trees only fade, the menu stays right.                                *)
Fades(t) ==
  \/ tree'[t] = tree[t]
  \/ /\ tree[t] # None /\ DOMAIN tree'[t] = TreeFields
     /\ tree'[t].product = tree[t].product /\ (tree'[t].live => tree[t].live)

LEMMA TreesFade ==
  ASSUME MenuInv, replacing' = replacing,
         tree' = [t \in Trees |-> tree'[t]], \A t \in Trees : Fades(t)
  PROVE  MenuInv'
<1>1. \A t \in Trees : live(t)' => live(t) /\ tree'[t].product = tree[t].product
  BY DEF live, Fades
<1>2. \A t \in Trees : tree'[t] # None => DOMAIN tree'[t] = TreeFields
  BY DEF MenuInv, Fades
<1>3. \A t, u \in Trees : (live(t) /\ live(u) /\ tree[t].product = tree[u].product => t = u)'
  BY <1>1 DEF MenuInv
<1>4. \A r \in replacing : TreesOf(r.product)' \subseteq r.deletes
  BY <1>1 DEF MenuInv, TreesOf
<1>5. \A r \in replacing : \A u \in r.deletes : DOMAIN tree'[u] = TreeFields
  BY DEF MenuInv, Fades
<1>6. QED
  BY <1>2, <1>3, <1>4, <1>5 DEF MenuInv

LEMMA MenuSame == ASSUME MenuInv, tree' = tree, replacing' = replacing  PROVE MenuInv'
BY DEF MenuInv, live, TreesOf

LEMMA ReplaceStep ==
  ASSUME MenuInv, NEW t \in Tablets, NEW p \in Products, replaceProductOptions(t, p)
  PROVE  MenuInv'
<1> DEFINE new == [by |-> t, product |-> p, deletes |-> TreesOf(p)]
<1>1. /\ replacing' = replacing \cup {new} /\ tree' = tree
      /\ \A r \in replacing : r.product # p
  BY DEF replaceProductOptions, NotReplacing
<1>2. new.product = p /\ new.deletes = TreesOf(p)
  OBVIOUS
<1> HIDE DEF new
<1>3. \A u \in TreesOf(p) : u \in Trees /\ DOMAIN tree[u] = TreeFields
  BY DEF TreesOf, live, MenuInv
<1>4. \A q : TreesOf(q)' = TreesOf(q)
  BY <1>1 DEF TreesOf, live
<1>5. \A r, s \in replacing' : r.product = s.product => r = s
  BY <1>1, <1>2 DEF MenuInv
<1>6. \A r \in replacing' : /\ TreesOf(r.product)' \subseteq r.deletes
                            /\ r.deletes \subseteq Trees
                            /\ \A u \in r.deletes : DOMAIN tree'[u] = TreeFields
  BY <1>1, <1>2, <1>3, <1>4 DEF MenuInv
<1>7. QED
  BY <1>1, <1>5, <1>6 DEF MenuInv, live

(* The old trees are deleted and the new one comes in one step.                *)
LEMMA CommitStep ==
  ASSUME MenuInv, NEW r \in replacing, NEW t \in Trees, NEW groups,
         commitProductOptions(r, t, groups)
  PROVE  MenuInv'
<1> DEFINE new == [product |-> r.product, live |-> TRUE, groups |-> groups]
<1>1. /\ replacing' = replacing \ {r} /\ tree[t] = None
      /\ tree' = [u \in Trees |-> IF u = t THEN new
                                   ELSE IF u \in r.deletes THEN [tree[u] EXCEPT !.live = FALSE]
                                   ELSE tree[u]]
  BY DEF commitProductOptions, FreshTree
<1>2. DOMAIN new = TreeFields /\ new.product = r.product
  BY DEF TreeFields
<1>3. \A u \in Trees \ {t} : u \in r.deletes =>
        DOMAIN tree'[u] = TreeFields /\ ~tree'[u].live
  BY <1>1 DEF MenuInv, TreeFields
<1> HIDE DEF new
<1>4. tree' = [u \in Trees |-> tree'[u]]
  BY <1>1
<1>5. tree'[t] = new /\ \A u \in Trees \ {t} : u \notin r.deletes => tree'[u] = tree[u]
  BY <1>1
<1>6. \A u \in Trees : tree'[u] # None => DOMAIN tree'[u] = TreeFields
  BY <1>2, <1>3, <1>5 DEF MenuInv
<1>7. \A u \in Trees \ {t} : live(u)' => live(u) /\ tree'[u] = tree[u] /\ tree[u].product # r.product
  BY <1>3, <1>5 DEF live, MenuInv, TreesOf
<1>8. \A u, v \in Trees : (live(u) /\ live(v) /\ tree[u].product = tree[v].product => u = v)'
  BY <1>2, <1>5, <1>7 DEF MenuInv
<1>9. \A s \in replacing' : s \in replacing /\ s.product # r.product
  BY <1>1 DEF MenuInv
<1>10. \A s \in replacing' : TreesOf(s.product)' \subseteq s.deletes
  BY <1>2, <1>5, <1>7, <1>9 DEF MenuInv, TreesOf
<1>11. \A s \in replacing' : s.deletes \subseteq Trees /\ \A u \in s.deletes : DOMAIN tree'[u] = TreeFields
  BY <1>2, <1>3, <1>5, <1>9 DEF MenuInv
<1>12. \A q, s \in replacing' : q.product = s.product => q = s
  BY <1>9 DEF MenuInv
<1>13. QED
  BY <1>4, <1>6, <1>8, <1>10, <1>11, <1>12 DEF MenuInv

LEMMA DeleteProductStep ==
  ASSUME MenuInv, NEW p \in Products, deleteProduct(p)  PROVE MenuInv'
<1>1. /\ replacing' = replacing
      /\ tree' = [t \in Trees |-> IF t \in TreesOf(p) THEN [tree[t] EXCEPT !.live = FALSE]
                                   ELSE tree[t]]
  BY DEF deleteProduct
<1>2. ASSUME NEW t \in Trees  PROVE Fades(t)
  <2>1. CASE t \in TreesOf(p)
    <3>1. tree[t] # None /\ DOMAIN tree[t] = TreeFields
      BY <2>1 DEF TreesOf, live, MenuInv
    <3>2. tree'[t] = [tree[t] EXCEPT !.live = FALSE]
      BY <1>1, <2>1
    <3>3. DOMAIN tree'[t] = TreeFields /\ tree'[t].product = tree[t].product /\ ~tree'[t].live
      BY <3>1, <3>2 DEF TreeFields
    <3>4. QED
      BY <3>1, <3>3 DEF Fades
  <2>2. CASE t \notin TreesOf(p)
    BY <1>1, <2>2 DEF Fades
  <2>3. QED
    BY <2>1, <2>2
<1>3. tree' = [t \in Trees |-> tree'[t]]
  BY <1>1
<1>4. QED
  BY <1>1, <1>2, <1>3, TreesFade

LEMMA UpdateOptionStep ==
  ASSUME MenuInv, NEW t \in Trees, NEW g, NEW o, updateOption(t, g, o)  PROVE MenuInv'
<1>1. PICK new : tree' = [tree EXCEPT ![t] = WithOption(tree[t], g, o, new)]
  BY DEF updateOption
<1>2. replacing' = replacing /\ tree[t] # None
  BY DEF updateOption, live
<1>3. DOMAIN tree[t] = TreeFields
  BY <1>2 DEF MenuInv
<1> DEFINE groups == [tree[t].groups EXCEPT ![g].options[o] = new]
           row == [tree[t] EXCEPT !.groups = groups]
<1>4. tree' = [tree EXCEPT ![t] = row]
  BY <1>1 DEF WithOption
<1> HIDE DEF groups
<1>5. DOMAIN row = TreeFields /\ row.product = tree[t].product /\ row.live = tree[t].live
  BY <1>3 DEF TreeFields
<1> HIDE DEF row
<1>6. \A u \in Trees : tree'[u] = IF u = t THEN row ELSE tree[u]
  BY <1>4 DEF MenuInv
<1>7. tree' = [u \in Trees |-> tree'[u]]
  BY <1>4 DEF MenuInv
<1>8. \A u \in Trees : Fades(u)
  BY <1>2, <1>5, <1>6 DEF Fades
<1>9. QED
  BY <1>2, <1>7, <1>8, TreesFade

LEMMA SellingStep == ASSUME MenuInv, Selling  PROVE MenuInv'
<1>1. ASSUME \/ updateStore \/ \E k \in Categories : createCategory(k) \/ deleteCategory(k)
             \/ \E p \in Products, k \in Categories : createProduct(p, k) \/ importCsvCatalog(p, k)
             \/ \E p \in Products : updateProduct(p)
      PROVE MenuInv'
  BY <1>1, MenuSame
  DEF updateStore, createCategory, deleteCategory, createProduct, importCsvCatalog, updateProduct
<1>2. ASSUME NEW p \in Products, deleteProduct(p)  PROVE MenuInv'
  BY <1>2, DeleteProductStep
<1>3. ASSUME NEW t \in Tablets, NEW p \in Products, replaceProductOptions(t, p)  PROVE MenuInv'
  BY <1>3, ReplaceStep
<1>4. ASSUME NEW t \in Trees, NEW g \in 1..2, NEW o \in 1..2, updateOption(t, g, o)  PROVE MenuInv'
  BY <1>4, UpdateOptionStep
<1>5. ASSUME NEW r \in replacing, NEW t \in Trees, NEW groups \in Menus,
             commitProductOptions(r, t, groups)
      PROVE MenuInv'
  BY <1>5, CommitStep
<1>6. QED
  BY <1>1, <1>2, <1>3, <1>4, <1>5 DEF Selling

(* Whatever is not the store's menu editor leaves the menu alone.              *)
LEMMA MenuKept ==
  ASSUME Limiting \/ Buying \/ Amending \/ TimePasses  PROVE UNCHANGED menu
<1>1. CASE Limiting
  BY <1>1
  DEF Limiting, protectLogin, recordLoginFailure, clearLoginFailures,
      deleteExpiredRateLimitBuckets, notShop
<1>2. CASE Buying
  BY <1>2
  DEF Buying, addItem, updateQty, removeItem, choosesMethod, reopens, losesAnswer,
      deleteAddress, createAddress, refreshQuote, placeOrder, arrives, readsGroups,
      readsOptions, readsMatrix, createOnlinePayment, dies, createOrder, paymentEnds,
      notServer, notOrders
<1>3. CASE Amending
  BY <1>3
  DEF Amending, proposeAmendment, looksForPending, readsItems, insertsProposal,
      withdrawAmendment, storeUpdateOrderStatus, cancelsOrder, approveAmendment,
      rejectAmendment, notAmended
<1>4. CASE TimePasses
  BY <1>4 DEF TimePasses
<1>5. QED
  BY <1>1, <1>2, <1>3, <1>4

LEMMA MenuStep == ASSUME MenuInv, [Next]_vars  PROVE MenuInv'
<1>1. CASE Selling
  BY <1>1, SellingStep
<1>2. CASE Limiting \/ Buying \/ Amending \/ TimePasses
  BY <1>2, MenuKept, MenuSame DEF menu
<1>3. CASE UNCHANGED vars
  BY <1>3, MenuSame DEF vars, menu
<1>4. QED
  BY <1>1, <1>2, <1>3 DEF Next

(* At most one of something that is all the same.                              *)
LEMMA OneOfASet ==
  ASSUME NEW S, \A x, y \in S : x = y  PROVE Cardinality(S) <= 1
<1>1. CASE S = {}
  BY <1>1, FS_EmptySet
<1>2. CASE S # {}
  <2>1. PICK x \in S : S = {x}
    BY <1>2
  <2>2. QED
    BY <2>1, FS_Singleton
<1>3. QED
  BY <1>1, <1>2

(* However many sessions replace the options of a product at once, what it has *)
(* was written by one of them.                                                 *)
THEOREM OneTree == Spec => []MenuIsOneTree
<1>1. Init => MenuInv
  BY MenuInit
<1>2. MenuInv /\ [Next]_vars => MenuInv'
  BY MenuStep
<1>3. MenuInv => MenuIsOneTree
  <2> SUFFICES ASSUME MenuInv, NEW p \in Products  PROVE Cardinality(TreesOf(p)) <= 1
    BY DEF MenuIsOneTree
  <2>1. \A t, u \in TreesOf(p) : t = u
    BY DEF MenuInv, TreesOf
  <2>2. QED
    BY <2>1, OneOfASet
<1>4. QED
  BY <1>1, <1>2, <1>3, PTL DEF Spec
-----------------------------------------------------------------------------
(* Orders, requests and pages.                                                 *)

OrderFields ==
  {"who", "visit", "key", "method", "status", "items", "fee", "total", "refund", "payment"}
PaymentFields == {"status", "made", "review"}
PageFields == {"visit", "attempt", "items", "method", "quote", "waits"}
RequestFields ==
  {"at", "kind", "who", "visit", "key", "method", "items", "store", "rows", "groups", "quote",
   "order"}

GoodKey(who, visit, key) == key[3] \in Nat \ {0} /\ key = <<who, visit, key[3]>>

(* Every earlier attempt of a visit left an order that is cancelled.           *)
GivenUp(rows, who, visit, attempt) ==
  \A b \in 1..(attempt - 1) :
    \E n \in Orders : rows[n].status = "CANCELLED" /\ rows[n].key = <<who, visit, b>>

OrderRight(rows, row) ==
  /\ DOMAIN row = OrderFields /\ DOMAIN row.payment = PaymentFields
  /\ GoodKey(row.who, row.visit, row.key) /\ GivenUp(rows, row.who, row.visit, row.key[3])
  /\ row.payment.status \in Dead => row.status = "CANCELLED"
  /\ row.payment.status = "PENDING" => row.status \in {"AWAITING_PAYMENT", "CANCELLED"}

OrdersRight ==
  /\ order = [o \in Orders |-> order[o]]
  /\ \A o \in Orders : Placed(o) => OrderRight(order, order[o])
  /\ \A n, o \in Orders : Placed(n) /\ Placed(o) /\ order[n].key = order[o].key => n = o

PageRight(rows, c, p) ==
  DOMAIN p = PageFields /\ p.attempt \in Nat \ {0} /\ GivenUp(rows, c, p.visit, p.attempt)

PagesRight ==
  /\ page = [c \in Customers |-> page[c]]
  /\ \A c \in Customers : PageRight(order, c, page[c])

RequestRight(rows, q) ==
  /\ DOMAIN q = RequestFields
  /\ GoodKey(q.who, q.visit, q.key) /\ GivenUp(rows, q.who, q.visit, q.key[3])
  /\ q.at = "PAYS" => q.order \in Orders /\ rows[q.order].status # "NONE"
                                         /\ rows[q.order].key = q.key

RequestsRight ==
  /\ request = [r \in Requests |-> request[r]]
  /\ \A r \in Requests : Waiting(r) => RequestRight(order, request[r])

(* The answer that a page waits for is the one to its own key.                 *)
WaitsFor(c, r) ==
  /\ r \in Requests /\ Waiting(r)
  /\ request[r].kind = "ORDER" /\ request[r].who = c /\ request[r].key = KeyOf(c)

WaitsRight == \A c \in Customers : page[c].waits # None => WaitsFor(c, page[c].waits)

VisitInv == OrdersRight /\ PagesRight /\ RequestsRight /\ WaitsRight

LEMMA VisitInit == Init => VisitInv
<1> SUFFICES ASSUME Init  PROVE VisitInv
  OBVIOUS
<1>1. PICK s \in Scenarios :
        order = [o \in Orders |-> IF o \in DOMAIN s.order THEN s.order[o] ELSE NoOrder]
  BY DEF Init
<1>2. /\ page = [c \in Customers |-> NewVisit(1)]
      /\ request = [r \in Requests |-> NoRequest]
  BY DEF Init
<1>3. \A o \in Orders : Placed(o) => o \in DOMAIN s.order /\ order[o] = s.order[o]
  BY <1>1 DEF Placed, NoOrder
<1>4. \A o \in Orders : Placed(o) => OrderRight(order, order[o])
  <2> SUFFICES ASSUME NEW o \in Orders, Placed(o)  PROVE OrderRight(order, order[o])
    OBVIOUS
  <2>1. /\ DOMAIN order[o] = OrderFields /\ DOMAIN order[o].payment = PaymentFields
        /\ order[o].key = <<order[o].who, order[o].visit, 1>>
        /\ order[o].payment.status \notin Dead \cup {"PENDING"}
    BY <1>3, ScenarioAssumption DEF OrderFields, PaymentFields, Dead
  <2>2. order[o].key[3] = 1
    BY <2>1
  <2>3. GoodKey(order[o].who, order[o].visit, order[o].key)
    BY <2>1, <2>2 DEF GoodKey
  <2>4. GivenUp(order, order[o].who, order[o].visit, order[o].key[3])
    BY <2>2 DEF GivenUp
  <2>5. QED
    BY <2>1, <2>3, <2>4 DEF OrderRight
<1>5. OrdersRight
  <2>1. \A n, o \in Orders : Placed(n) /\ Placed(o) /\ order[n].key = order[o].key => n = o
    BY <1>3, ScenarioAssumption
  <2>2. QED
    BY <1>1, <1>4, <2>1 DEF OrdersRight
<1>6. PagesRight
  <2>1. \A c \in Customers : page[c] = NewVisit(1)
    BY <1>2
  <2>2. DOMAIN NewVisit(1) = PageFields /\ NewVisit(1).attempt = 1
    BY DEF NewVisit, PageFields
  <2>3. \A c \in Customers : PageRight(order, c, page[c])
    BY <2>1, <2>2 DEF PageRight, GivenUp
  <2>4. QED
    BY <1>2, <2>3 DEF PagesRight
<1>7. RequestsRight
  BY <1>2 DEF RequestsRight, Waiting, NoRequest
<1>8. WaitsRight
  BY <1>2 DEF WaitsRight, NewVisit
<1>9. QED
  BY <1>5, <1>6, <1>7, <1>8 DEF VisitInv

(* Orders keep their keys, their items once they are ready, and a cancelled    *)
(* one stays so.                                                               *)
OrdersGoOn ==
  \A o \in Orders : Placed(o) =>
    /\ Placed(o)' /\ order'[o].key = order[o].key
    /\ order[o].status = "CANCELLED" => order'[o].status = "CANCELLED"
    /\ order'[o].items # order[o].items => order[o].status \in PROPOSABLE

LEMMA GivenUpStays ==
  ASSUME OrdersGoOn, NEW who, NEW visit, NEW attempt, GivenUp(order, who, visit, attempt)
  PROVE  GivenUp(order', who, visit, attempt)
<1> SUFFICES ASSUME NEW b \in 1..(attempt - 1)
             PROVE  \E n \in Orders : order'[n].status = "CANCELLED"
                                         /\ order'[n].key = <<who, visit, b>>
  BY DEF GivenUp
<1>1. PICK n \in Orders : order[n].status = "CANCELLED" /\ order[n].key = <<who, visit, b>>
  BY DEF GivenUp
<1>2. QED
  BY <1>1 DEF OrdersGoOn, Placed

LEMMA RequestRightStays ==
  ASSUME OrdersGoOn, NEW q, RequestRight(order, q)  PROVE RequestRight(order', q)
<1>1. GivenUp(order', q.who, q.visit, q.key[3])
  BY GivenUpStays DEF RequestRight
<1>2. q.at = "PAYS" => order'[q.order].status # "NONE" /\ order'[q.order].key = q.key
  BY DEF RequestRight, OrdersGoOn, Placed
<1>3. QED
  BY <1>1, <1>2 DEF RequestRight

LEMMA PageRightStays ==
  ASSUME OrdersGoOn, NEW c, NEW p, PageRight(order, c, p)  PROVE PageRight(order', c, p)
<1>1. GivenUp(order', c, p.visit, p.attempt)
  BY GivenUpStays DEF PageRight
<1>2. QED
  BY <1>1 DEF PageRight

(* A step that only changes orders.                                            *)
LEMMA OnlyOrders ==
  ASSUME VisitInv, OrdersRight', OrdersGoOn, page' = page, request' = request
  PROVE  VisitInv'
<1> USE DEF VisitInv
<1>1. PagesRight'
  BY PageRightStays DEF PagesRight
<1>2. RequestsRight'
  BY RequestRightStays DEF RequestsRight, Waiting
<1>3. WaitsRight'
  BY DEF WaitsRight, WaitsFor, Waiting, KeyOf
<1>4. QED
  BY <1>1, <1>2, <1>3

(* The fields of pages as the checkout changes them.                           *)
LEMMA PageWith ==
  ASSUME NEW p, DOMAIN p = PageFields, NEW x
  PROVE  /\ DOMAIN [p EXCEPT !.items = x] = PageFields
         /\ [p EXCEPT !.items = x].visit = p.visit
         /\ [p EXCEPT !.items = x].attempt = p.attempt
         /\ [p EXCEPT !.items = x].waits = p.waits
         /\ DOMAIN [p EXCEPT !.method = x] = PageFields
         /\ [p EXCEPT !.method = x].visit = p.visit
         /\ [p EXCEPT !.method = x].attempt = p.attempt
         /\ [p EXCEPT !.method = x].waits = p.waits
         /\ DOMAIN [p EXCEPT !.quote = x] = PageFields
         /\ [p EXCEPT !.quote = x].visit = p.visit
         /\ [p EXCEPT !.quote = x].attempt = p.attempt
         /\ [p EXCEPT !.quote = x].waits = p.waits
         /\ DOMAIN [p EXCEPT !.waits = x] = PageFields
         /\ [p EXCEPT !.waits = x].visit = p.visit
         /\ [p EXCEPT !.waits = x].attempt = p.attempt
         /\ [p EXCEPT !.waits = x].waits = x
BY DEF PageFields

LEMMA NewVisitFields ==
  ASSUME NEW n
  PROVE  /\ DOMAIN NewVisit(n) = PageFields
         /\ NewVisit(n).attempt = 1 /\ NewVisit(n).waits = None
BY DEF NewVisit, PageFields

(* What a page looks like after an answer: as before, a new visit, or the next *)
(* attempt after a payment that was refused.                                   *)
LEMMA AnsweredPage ==
  ASSUME NEW c, NEW r, NEW result, DOMAIN page[c] = PageFields
  PROVE  LET q == Answered(c, r, result)
         IN \/ page[c].waits # r /\ q = page[c]
            \/ DOMAIN q = PageFields /\ q.waits = None /\ q.attempt = 1
            \/ /\ DOMAIN q = PageFields /\ q.waits = None
               /\ q.visit = page[c].visit /\ q.attempt = page[c].attempt
            \/ /\ page[c].waits = r /\ result = "PAYMENT_REJECTED"
               /\ DOMAIN q = PageFields /\ q.waits = None
               /\ q.visit = page[c].visit /\ q.attempt = page[c].attempt + 1
<1> DEFINE p == page[c]
           q == Answered(c, r, result)
           retry == [p EXCEPT !.waits = None, !.attempt = @ + 1]
           stay == [p EXCEPT !.waits = None]
<1>1. /\ DOMAIN retry = PageFields /\ retry.waits = None
      /\ retry.visit = p.visit /\ retry.attempt = p.attempt + 1
  BY DEF PageFields
<1>2. /\ DOMAIN stay = PageFields /\ stay.waits = None
      /\ stay.visit = p.visit /\ stay.attempt = p.attempt
  BY DEF PageFields
<1>3. q = IF p.waits # r THEN p
          ELSE IF result = "OK" THEN NewVisit(p.visit + 1)
          ELSE IF result = "PAYMENT_REJECTED" /\ p.method = "CARD_ONLINE" THEN retry
          ELSE stay
  BY DEF Answered
<1> HIDE DEF retry, stay, q
<1>4. CASE p.waits # r
  BY <1>3, <1>4 DEF q
<1>5. CASE p.waits = r /\ result = "OK"
  BY <1>3, <1>5, NewVisitFields DEF q
<1>6. CASE p.waits = r /\ result = "PAYMENT_REJECTED" /\ p.method = "CARD_ONLINE"
  BY <1>1, <1>3, <1>6 DEF q
<1>7. CASE p.waits = r /\ result # "OK" /\ ~(result = "PAYMENT_REJECTED" /\ p.method = "CARD_ONLINE")
  BY <1>2, <1>3, <1>7 DEF q
<1>8. QED
  BY <1>4, <1>5, <1>6, <1>7

(* The answer that asks for another attempt comes with a cancelled order.      *)
Excuse(r, result) ==
  result = "PAYMENT_REJECTED" =>
    \E n \in Orders : order'[n].status = "CANCELLED" /\ order'[n].key = request[r].key

LEMMA NextAttempt ==
  ASSUME NEW rows, NEW who, NEW visit, NEW attempt \in Nat \ {0},
         GivenUp(rows, who, visit, attempt),
         \E n \in Orders : rows[n].status = "CANCELLED" /\ rows[n].key = <<who, visit, attempt>>
  PROVE  GivenUp(rows, who, visit, attempt + 1)
<1> SUFFICES ASSUME NEW b \in 1..((attempt + 1) - 1)
             PROVE  \E n \in Orders : rows[n].status = "CANCELLED"
                                         /\ rows[n].key = <<who, visit, b>>
  BY Zenon DEF GivenUp
<1>1. CASE b = attempt
  BY <1>1
<1>2. CASE b # attempt
  <2>1. b \in 1..(attempt - 1)
    BY <1>2
  <2>2. QED
    BY <2>1 DEF GivenUp
<1>3. QED
  BY <1>1, <1>2

LEMMA AnswerStep ==
  ASSUME VisitInv, OrdersRight', OrdersGoOn,
         NEW r \in Requests, Waiting(r), NEW result, Answer(r, result), Excuse(r, result)
  PROVE  VisitInv'
<1> USE DEF VisitInv
<1> DEFINE who == request[r].who
<1>1. /\ request' = [request EXCEPT ![r] = NoRequest]
      /\ page' = [page EXCEPT ![who] = Answered(who, r, result)]
  BY DEF Answer
<1>2. /\ \A k \in Requests : k # r => request'[k] = request[k]
      /\ request'[r].at = "NONE"
      /\ request' = [k \in Requests |-> request'[k]]
  BY <1>1 DEF RequestsRight, NoRequest
<1>3. /\ \A c \in Customers : page'[c] = IF c = who THEN Answered(c, r, result) ELSE page[c]
      /\ page' = [c \in Customers |-> page'[c]]
  BY <1>1 DEF PagesRight
<1>4. RequestsRight'
  BY <1>2, RequestRightStays DEF RequestsRight, Waiting
<1>5. ASSUME NEW c \in Customers
      PROVE  /\ PageRight(order', c, page'[c])
             /\ page'[c].waits # None => page'[c] = page[c] /\ page[c].waits # r
  <2>1. PageRight(order, c, page[c]) /\ PageRight(order', c, page[c])
    BY PageRightStays DEF PagesRight
  <2>2. CASE c # who
    <3>1. page'[c] = page[c]
      BY <1>3, <2>2
    <3>2. page[c].waits = r => r = None
      BY <2>2 DEF WaitsRight, WaitsFor
    <3>3. QED
      BY <2>1, <3>1, <3>2
  <2>3. CASE c = who
    <3> DEFINE q == Answered(c, r, result)
    <3>1. page'[c] = q
      BY <1>3, <2>3
    <3> HIDE DEF q
    <3>2. \/ page[c].waits # r /\ q = page[c]
          \/ DOMAIN q = PageFields /\ q.waits = None /\ q.attempt = 1
          \/ /\ DOMAIN q = PageFields /\ q.waits = None
             /\ q.visit = page[c].visit /\ q.attempt = page[c].attempt
          \/ /\ page[c].waits = r /\ result = "PAYMENT_REJECTED"
             /\ DOMAIN q = PageFields /\ q.waits = None
             /\ q.visit = page[c].visit /\ q.attempt = page[c].attempt + 1
      BY <2>1, AnsweredPage DEF PageRight, q
    <3>3. CASE page[c].waits # r /\ q = page[c]
      BY <2>1, <3>1, <3>3
    <3>4. CASE DOMAIN q = PageFields /\ q.waits = None /\ q.attempt = 1
      BY <3>1, <3>4 DEF PageRight, GivenUp
    <3>5. CASE /\ DOMAIN q = PageFields /\ q.waits = None
               /\ q.visit = page[c].visit /\ q.attempt = page[c].attempt
      BY <2>1, <3>1, <3>5 DEF PageRight
    <3>6. CASE /\ page[c].waits = r /\ result = "PAYMENT_REJECTED"
               /\ DOMAIN q = PageFields /\ q.waits = None
               /\ q.visit = page[c].visit /\ q.attempt = page[c].attempt + 1
      <4>1. request[r].key = KeyOf(c)
        BY <3>6, NoneAssumption DEF WaitsRight, WaitsFor
      <4> DEFINE v == page[c].visit
                 a == page[c].attempt
      <4>2. \E n \in Orders : order'[n].status = "CANCELLED" /\ order'[n].key = <<c, v, a>>
        BY <3>6, <4>1 DEF Excuse, KeyOf
      <4>3. a \in Nat \ {0} /\ GivenUp(order', c, v, a)
        BY <2>1 DEF PageRight
      <4> HIDE DEF v, a
      <4>4. GivenUp(order', c, v, a + 1)
        BY <4>2, <4>3, NextAttempt
      <4>5. QED
        BY <3>1, <3>6, <4>3, <4>4 DEF PageRight, v, a
    <3>7. QED
      BY <3>2, <3>3, <3>4, <3>5, <3>6
  <2>4. QED
    BY <2>2, <2>3
<1>6. PagesRight'
  BY <1>3, <1>5 DEF PagesRight
<1>7. WaitsRight'
  BY <1>2, <1>5 DEF WaitsRight, WaitsFor, Waiting, KeyOf
<1>8. QED
  BY <1>4, <1>6, <1>7

(* An order as a step may leave it.                                            *)
Follows(old, row) ==
  /\ DOMAIN row = OrderFields /\ DOMAIN row.payment = PaymentFields
  /\ row.who = old.who /\ row.visit = old.visit /\ row.key = old.key
  /\ row.items # old.items => old.status \in PROPOSABLE
  /\ row.status # "NONE" /\ (old.status = "CANCELLED" => row.status = "CANCELLED")
  /\ row.payment.status \in Dead => row.status = "CANCELLED"
  /\ row.payment.status = "PENDING" => row.status \in {"AWAITING_PAYMENT", "CANCELLED"}

LEMMA OneOrderChanges ==
  ASSUME OrdersRight, NEW o \in Orders, Placed(o), NEW row, Follows(order[o], row),
         order' = [order EXCEPT ![o] = row]
  PROVE  OrdersRight' /\ OrdersGoOn
<1>1. /\ \A n \in Orders : order'[n] = IF n = o THEN row ELSE order[n]
      /\ order' = [n \in Orders |-> order'[n]]
  BY DEF OrdersRight
<1>2. OrdersGoOn
  BY <1>1 DEF OrdersGoOn, Placed, Follows
<1>3. \A n \in Orders : Placed(n)' => Placed(n) /\ order'[n].key = order[n].key
  BY <1>1 DEF Placed, Follows
<1>4. \A m, n \in Orders : Placed(m)' /\ Placed(n)' /\ order'[m].key = order'[n].key => m = n
  BY <1>3 DEF OrdersRight
<1>5. ASSUME NEW n \in Orders, Placed(n)'  PROVE OrderRight(order', order'[n])
  <2>1. OrderRight(order, order[n])
    BY <1>3, <1>5 DEF OrdersRight
  <2>2. /\ order'[n].who = order[n].who /\ order'[n].visit = order[n].visit
        /\ order'[n].key = order[n].key
    BY <1>1 DEF Follows
  <2>3. GivenUp(order', order'[n].who, order'[n].visit, order'[n].key[3])
    BY <1>2, <2>1, <2>2, GivenUpStays DEF OrderRight
  <2>4. GoodKey(order'[n].who, order'[n].visit, order'[n].key)
    BY <2>1, <2>2 DEF OrderRight, GoodKey
  <2>5. QED
    BY <1>1, <2>1, <2>3, <2>4 DEF OrderRight, Follows
<1>6. QED
  BY <1>1, <1>2, <1>4, <1>5 DEF OrdersRight

LEMMA OrdersSame == ASSUME OrdersRight, order' = order  PROVE OrdersRight' /\ OrdersGoOn
BY DEF OrdersRight, OrdersGoOn, Placed

(* A status that is set, and a payment that is reported or put under review.   *)
LEMMA StatusFollows ==
  ASSUME NEW row, OrderRight(order, row), NEW status,
         status \notin {"NONE", "AWAITING_PAYMENT"},
         \/ status = "CANCELLED"
         \/ row.status \notin {"AWAITING_PAYMENT", "CANCELLED"}
  PROVE  Follows(row, [row EXCEPT !.status = status])
<1> DEFINE new == [row EXCEPT !.status = status]
<1>1. /\ DOMAIN new = OrderFields /\ new.payment = row.payment /\ new.status = status
      /\ new.who = row.who /\ new.visit = row.visit /\ new.key = row.key
      /\ new.items = row.items
  BY DEF OrderRight, OrderFields
<1> HIDE DEF new
<1>2. Follows(row, new)
  BY <1>1 DEF Follows, OrderRight
<1>3. QED
  BY <1>2 DEF new

LEMMA PaymentFollows ==
  ASSUME NEW row, OrderRight(order, row), row.status # "NONE", NEW payment,
         DOMAIN payment = PaymentFields,
         payment.status \in Dead => row.status = "CANCELLED",
         payment.status = "PENDING" => row.status \in {"AWAITING_PAYMENT", "CANCELLED"}
  PROVE  Follows(row, [row EXCEPT !.payment = payment])
<1> DEFINE new == [row EXCEPT !.payment = payment]
<1>1. /\ DOMAIN new = OrderFields /\ new.payment = payment /\ new.status = row.status
      /\ new.who = row.who /\ new.visit = row.visit /\ new.key = row.key
      /\ new.items = row.items
  BY DEF OrderRight, OrderFields
<1> HIDE DEF new
<1>2. Follows(row, new)
  BY <1>1 DEF Follows
<1>3. QED
  BY <1>2 DEF new

REPORTS == {"PENDING", "APPROVED", "REJECTED", "EXPIRED"}

LEMMA ReportFollows ==
  ASSUME NEW o, OrderRight(order, order[o]), Placed(o), order[o].payment.status = "PENDING",
         NEW status \in REPORTS
  PROVE  /\ Follows(order[o], Reported(o, status))
         /\ status = "REJECTED" => Reported(o, status).status = "CANCELLED"
<1> DEFINE old == order[o]
           payment == Reports(old.payment, status)
           paid == [old EXCEPT !.payment = payment]
           to == IF status = "APPROVED" THEN "PENDING" ELSE "CANCELLED"
           moved == [paid EXCEPT !.status = to]
<1>1. DOMAIN payment = PaymentFields /\ payment.status = status
  BY DEF OrderRight, PaymentFields, Reports
<1>2. old.status \in {"AWAITING_PAYMENT", "CANCELLED"}
  BY DEF OrderRight
<1> HIDE DEF payment
<1>3. /\ DOMAIN paid = OrderFields /\ paid.payment = payment /\ paid.status = old.status
      /\ paid.who = old.who /\ paid.visit = old.visit /\ paid.key = old.key
      /\ paid.items = old.items
  BY DEF OrderRight, OrderFields
<1>4. Reported(o, status) = IF old.status # "AWAITING_PAYMENT" \/ status = "PENDING" THEN paid
                            ELSE moved
  BY DEF Reported, payment
<1> HIDE DEF paid, old
<1>5. /\ DOMAIN moved = OrderFields /\ moved.payment = payment /\ moved.status = to
      /\ moved.who = old.who /\ moved.visit = old.visit /\ moved.key = old.key
      /\ moved.items = old.items
  BY <1>3 DEF OrderFields
<1> HIDE DEF moved
<1>6. CASE old.status # "AWAITING_PAYMENT" \/ status = "PENDING"
  <2>1. Reported(o, status) = paid
    BY <1>4, <1>6
  <2>2. Follows(old, paid)
    BY <1>1, <1>2, <1>3, <1>6 DEF Follows, Dead
  <2>3. status = "REJECTED" => paid.status = "CANCELLED"
    BY <1>2, <1>3, <1>6
  <2>4. QED
    BY <2>1, <2>2, <2>3 DEF old
<1>7. CASE ~(old.status # "AWAITING_PAYMENT" \/ status = "PENDING")
  <2>1. Reported(o, status) = moved
    BY <1>4, <1>7
  <2>2. Follows(old, moved)
    BY <1>1, <1>5, <1>7 DEF Follows, Dead
  <2>3. status = "REJECTED" => moved.status = "CANCELLED"
    BY <1>5
  <2>4. QED
    BY <2>1, <2>2, <2>3 DEF old
<1>8. QED
  BY <1>6, <1>7

(* The order that createOrder inserts, whose key no other has.                 *)
LEMMA NewOrderRight ==
  ASSUME NEW rows, NEW q, RequestRight(rows, q)
  PROVE  /\ OrderRight(rows, NewOrder(q)) /\ NewOrder(q).status # "NONE"
         /\ NewOrder(q).key = q.key
<1> DEFINE payment == IF q.method \in ONLINE THEN [NoPayment EXCEPT !.status = "PENDING"]
                      ELSE NoPayment
           new == NewOrder(q)
<1>1. /\ DOMAIN payment = PaymentFields
      /\ payment.status = IF q.method \in ONLINE THEN "PENDING" ELSE None
  BY DEF NoPayment, PaymentFields
<1>2. payment.status \notin Dead
  BY <1>1, NoneAssumption DEF Dead
<1>3. payment.status = "PENDING" => q.method \in ONLINE
  BY <1>1, NoneAssumption
<1> HIDE DEF payment
<1>4. /\ DOMAIN new = OrderFields /\ new.payment = payment
      /\ new.who = q.who /\ new.visit = q.visit /\ new.key = q.key
      /\ new.status = IF q.method \in ONLINE THEN "AWAITING_PAYMENT" ELSE "PENDING"
  BY DEF NewOrder, OrderFields, payment
<1> HIDE DEF new
<1>5. OrderRight(rows, new) /\ new.status # "NONE"
  BY <1>1, <1>2, <1>3, <1>4 DEF OrderRight, RequestRight
<1>6. QED
  BY <1>4, <1>5 DEF new

LEMMA OneOrderMore ==
  ASSUME OrdersRight, NEW o \in Orders, ~Placed(o), NEW row, row.status # "NONE",
         OrderRight(order, row), OrdersWith(row.key) = {},
         order' = [order EXCEPT ![o] = row]
  PROVE  OrdersRight' /\ OrdersGoOn
<1>1. /\ \A n \in Orders : order'[n] = IF n = o THEN row ELSE order[n]
      /\ order' = [n \in Orders |-> order'[n]]
  BY DEF OrdersRight
<1>2. OrdersGoOn
  BY <1>1 DEF OrdersGoOn, Placed
<1>3. \A m, n \in Orders : Placed(m)' /\ Placed(n)' /\ order'[m].key = order'[n].key => m = n
  BY <1>1 DEF OrdersRight, OrdersWith, Placed
<1>4. ASSUME NEW n \in Orders, Placed(n)'  PROVE OrderRight(order', order'[n])
  <2>1. OrderRight(order, order'[n])
    BY <1>1, <1>4 DEF OrdersRight, Placed
  <2>2. QED
    BY <1>2, <2>1, GivenUpStays DEF OrderRight
<1>5. QED
  BY <1>1, <1>2, <1>3, <1>4 DEF OrdersRight

(* A request goes on to its next step.                                         *)
LEMMA GoesStep ==
  ASSUME VisitInv, OrdersRight', OrdersGoOn,
         NEW r \in Requests, Waiting(r), NEW held, Goes(r, held), RequestRight(order', held),
         held.at # "NONE", held.kind = request[r].kind, held.who = request[r].who,
         held.key = request[r].key
  PROVE  VisitInv'
<1> USE DEF VisitInv
<1>1. /\ \A k \in Requests : request'[k] = IF k = r THEN held ELSE request[k]
      /\ request' = [k \in Requests |-> request'[k]] /\ page' = page
  BY DEF Goes, RequestsRight
<1>2. PagesRight'
  BY <1>1, PageRightStays DEF PagesRight
<1>3. RequestsRight'
  BY <1>1, RequestRightStays DEF RequestsRight, Waiting
<1>4. WaitsRight'
  BY <1>1 DEF WaitsRight, WaitsFor, Waiting, KeyOf
<1>5. QED
  BY <1>2, <1>3, <1>4

(* A page changes at the customer's hand, the key only with a new visit.       *)
Turns(p, new) ==
  /\ DOMAIN new = PageFields
  /\ \/ new.visit = p.visit /\ new.attempt = p.attempt /\ new.waits \in {p.waits, None}
     \/ new.attempt = 1 /\ new.waits = None

LEMMA PageStep ==
  ASSUME VisitInv, order' = order, request' = request,
         NEW c \in Customers, NEW new, Shows(c, new), Turns(page[c], new)
  PROVE  VisitInv' /\ OrdersGoOn
<1> USE DEF VisitInv
<1>1. OrdersRight' /\ OrdersGoOn
  BY OrdersSame
<1>2. /\ \A k \in Customers : page'[k] = IF k = c THEN new ELSE page[k]
      /\ page' = [k \in Customers |-> page'[k]]
  BY DEF Shows, PagesRight
<1>3. PageRight(order, c, new)
  <2>1. PageRight(order, c, page[c])
    BY DEF PagesRight
  <2>2. CASE new.visit = page[c].visit /\ new.attempt = page[c].attempt
    BY <2>1, <2>2 DEF PageRight, Turns
  <2>3. CASE new.attempt = 1
    BY <2>3 DEF PageRight, Turns, GivenUp
  <2>4. QED
    BY <2>2, <2>3 DEF Turns
<1>4. PagesRight'
  BY <1>2, <1>3 DEF PagesRight
<1>5. RequestsRight'
  BY DEF RequestsRight, Waiting
<1>6. ASSUME NEW k \in Customers, page'[k].waits # None  PROVE WaitsFor(k, page[k].waits)'
  <2>1. /\ page'[k].visit = page[k].visit /\ page'[k].attempt = page[k].attempt
        /\ page'[k].waits = page[k].waits
    BY <1>2, <1>6 DEF Turns
  <2>2. WaitsFor(k, page[k].waits)
    BY <1>6, <2>1 DEF WaitsRight
  <2>3. QED
    BY <2>1, <2>2 DEF WaitsFor, Waiting, KeyOf
<1>7. WaitsRight'
  BY <1>6 DEF WaitsRight
<1>8. QED
  BY <1>1, <1>4, <1>5, <1>7

(* A request that the page sends carries the page's key.                       *)
LEMMA SentRight ==
  ASSUME VisitInv, NEW c \in Customers, NEW kind
  PROVE  LET q == Sent(c, kind)
         IN /\ RequestRight(order, q) /\ q.at = "ARRIVES" /\ q.kind = kind /\ q.who = c
            /\ q.key = KeyOf(c)
<1> DEFINE q == Sent(c, kind)
<1>1. /\ DOMAIN q = RequestFields /\ q.at = "ARRIVES" /\ q.kind = kind /\ q.who = c
      /\ q.key = KeyOf(c) /\ q.visit = page[c].visit
  BY DEF Sent, RequestFields
<1> HIDE DEF q
<1>2. PageRight(order, c, page[c])
  BY DEF VisitInv, PagesRight
<1>3. q.key[3] = page[c].attempt
  BY <1>1 DEF KeyOf
<1>4. GoodKey(q.who, q.visit, q.key)
  BY <1>1, <1>2, <1>3 DEF GoodKey, KeyOf, PageRight
<1>5. RequestRight(order, q)
  BY <1>1, <1>2, <1>3, <1>4 DEF RequestRight, PageRight
<1>6. QED
  BY <1>1, <1>5 DEF q

LEMMA SendStep ==
  ASSUME VisitInv, order' = order, NEW c \in Customers, NEW r \in Requests, ~Waiting(r),
         NEW kind, request' = [request EXCEPT ![r] = Sent(c, kind)], NEW new, Shows(c, new),
         DOMAIN new = PageFields, new.visit = page[c].visit, new.attempt = page[c].attempt,
         \/ new.waits = page[c].waits
         \/ new.waits = r /\ kind = "ORDER"
  PROVE  VisitInv' /\ OrdersGoOn
<1> USE DEF VisitInv
<1>1. OrdersRight' /\ OrdersGoOn
  BY OrdersSame
<1>2. /\ \A k \in Customers : page'[k] = IF k = c THEN new ELSE page[k]
      /\ page' = [k \in Customers |-> page'[k]]
  BY DEF Shows, PagesRight
<1> DEFINE q == Sent(c, kind)
<1>3. /\ \A k \in Requests : request'[k] = IF k = r THEN q ELSE request[k]
      /\ request' = [k \in Requests |-> request'[k]]
  BY DEF RequestsRight
<1>4. /\ RequestRight(order, q) /\ q.at = "ARRIVES" /\ q.kind = kind /\ q.who = c
      /\ q.key = KeyOf(c)
  BY SentRight
<1> HIDE DEF q
<1>5. PagesRight'
  BY <1>2 DEF PagesRight, PageRight
<1>6. RequestsRight'
  BY <1>3, <1>4 DEF RequestsRight, Waiting
<1>7. \A k \in Customers : KeyOf(k)' = KeyOf(k)
  BY <1>2 DEF KeyOf
<1>8. ASSUME NEW k \in Customers, page'[k].waits # None  PROVE WaitsFor(k, page[k].waits)'
  <2>1. CASE page'[k].waits = page[k].waits
    <3>1. WaitsFor(k, page[k].waits) /\ page[k].waits # r
      BY <1>8, <2>1 DEF WaitsRight, WaitsFor
    <3>2. QED
      BY <1>3, <1>7, <2>1, <3>1 DEF WaitsFor, Waiting
  <2>2. CASE page'[k].waits # page[k].waits
    <3>1. k = c /\ page'[k].waits = r /\ kind = "ORDER"
      BY <1>2, <2>2
    <3>2. QED
      BY <1>3, <1>4, <1>7, <3>1 DEF WaitsFor, Waiting
  <2>3. QED
    BY <2>1, <2>2
<1>9. WaitsRight'
  BY <1>8 DEF WaitsRight
<1>10. QED
  BY <1>1, <1>5, <1>6, <1>9

(* A request that ends unanswered, or with a quote that its page may show.     *)
LEMMA QuoteStep ==
  ASSUME VisitInv, order' = order, NEW r \in Requests, Waiting(r),
         request[r].kind # "ORDER", request' = [request EXCEPT ![r] = NoRequest],
         NEW shown,
         \/ page' = page
         \/ page' = [page EXCEPT ![request[r].who] =
                       [page[request[r].who] EXCEPT !.quote = shown]]
  PROVE  VisitInv' /\ OrdersGoOn
<1> USE DEF VisitInv
<1>1. OrdersRight' /\ OrdersGoOn
  BY OrdersSame
<1>2. /\ \A k \in Requests : k # r => request'[k] = request[k]
      /\ request'[r].at = "NONE"
      /\ request' = [k \in Requests |-> request'[k]]
  BY DEF RequestsRight, NoRequest
<1>3. /\ page' = [c \in Customers |-> page'[c]]
      /\ \A c \in Customers : page'[c] = page[c] \/ page'[c] = [page[c] EXCEPT !.quote = shown]
  BY DEF PagesRight
<1>4. ASSUME NEW c \in Customers
      PROVE  /\ DOMAIN page'[c] = PageFields /\ page'[c].visit = page[c].visit
             /\ page'[c].attempt = page[c].attempt /\ page'[c].waits = page[c].waits
             /\ PageRight(order, c, page[c])
  <2>1. PageRight(order, c, page[c])
    BY DEF PagesRight
  <2>2. CASE page'[c] = page[c]
    BY <2>1, <2>2 DEF PageRight
  <2>3. CASE page'[c] = [page[c] EXCEPT !.quote = shown]
    <3> DEFINE p == page[c]
               turned == [p EXCEPT !.quote = shown]
    <3>1. DOMAIN p = PageFields
      BY <2>1 DEF PageRight
    <3> HIDE DEF p
    <3>2. /\ DOMAIN turned = PageFields /\ turned.visit = p.visit
          /\ turned.attempt = p.attempt /\ turned.waits = p.waits
      BY <3>1, PageWith
    <3> HIDE DEF turned
    <3>3. QED
      BY <2>1, <2>3, <3>2 DEF p, turned
  <2>4. QED
    BY <1>3, <2>2, <2>3
<1>5. PagesRight'
  BY <1>3, <1>4 DEF PagesRight, PageRight
<1>6. RequestsRight'
  BY <1>2 DEF RequestsRight, Waiting
<1>7. \A k \in Customers : KeyOf(k)' = KeyOf(k)
  BY <1>4 DEF KeyOf
<1>8. ASSUME NEW c \in Customers, page'[c].waits # None  PROVE WaitsFor(c, page[c].waits)'
  <2>1. WaitsFor(c, page[c].waits) /\ page[c].waits # r
    BY <1>4, <1>8 DEF WaitsRight, WaitsFor
  <2>2. QED
    BY <1>2, <1>4, <1>7, <2>1 DEF WaitsFor, Waiting
<1>9. WaitsRight'
  BY <1>8 DEF WaitsRight
<1>10. QED
  BY <1>1, <1>5, <1>6, <1>9

LEMMA SameOrders == ASSUME VisitInv, order' = order, page' = page, request' = request
                    PROVE  VisitInv' /\ OrdersGoOn
BY OrdersSame, OnlyOrders DEF VisitInv

(* What the customer does on the page.                                         *)
LEMMA PageStepsRight ==
  ASSUME VisitInv, NEW c \in Customers,
         \/ \E p \in Products : \E chosen : addItem(c, p, chosen)
         \/ \E i \in 1..2 : updateQty(c, i) \/ removeItem(c, i)
         \/ \E method \in Methods : choosesMethod(c, method)
         \/ reopens(c) \/ losesAnswer(c)
  PROVE  VisitInv' /\ OrdersGoOn
<1> DEFINE old == page[c]
<1>1. DOMAIN old = PageFields
  BY DEF VisitInv, PagesRight, PageRight
<1>2. ASSUME NEW x, \/ Shows(c, [old EXCEPT !.items = x])
                    \/ Shows(c, [old EXCEPT !.method = x])
                    \/ Shows(c, [old EXCEPT !.waits = None])
                    \/ Shows(c, [NewVisit(old.visit + 1) EXCEPT !.items = x]),
             order' = order, request' = request
      PROVE  VisitInv' /\ OrdersGoOn
  <2>1. /\ Turns(old, [old EXCEPT !.items = x])
        /\ Turns(old, [old EXCEPT !.method = x])
        /\ Turns(old, [old EXCEPT !.waits = None])
    BY <1>1, PageWith DEF Turns
  <2>2. Turns(old, [NewVisit(old.visit + 1) EXCEPT !.items = x])
    <3> DEFINE fresh == NewVisit(old.visit + 1)
    <3>1. DOMAIN fresh = PageFields /\ fresh.attempt = 1 /\ fresh.waits = None
      BY NewVisitFields
    <3> HIDE DEF fresh
    <3>2. Turns(old, [fresh EXCEPT !.items = x])
      BY <3>1, PageWith DEF Turns
    <3>3. QED
      BY <3>2 DEF fresh
  <2>3. QED
    BY <1>2, <2>1, <2>2, PageStep
<1>3. CASE \E p \in Products : \E chosen : addItem(c, p, chosen)
  <2>1. PICK x : Shows(c, [old EXCEPT !.items = x]) /\ order' = order /\ request' = request
    BY <1>3 DEF addItem, notServer
  <2>2. QED
    BY <1>2, <2>1
<1>4. CASE \E i \in 1..2 : updateQty(c, i)
  <2>1. PICK x : Shows(c, [old EXCEPT !.items = x]) /\ order' = order /\ request' = request
    BY <1>4 DEF updateQty, notServer
  <2>2. QED
    BY <1>2, <2>1
<1>5. CASE \E i \in 1..2 : removeItem(c, i)
  <2>1. PICK x : Shows(c, [old EXCEPT !.items = x]) /\ order' = order /\ request' = request
    BY <1>5 DEF removeItem, notServer
  <2>2. QED
    BY <1>2, <2>1
<1>6. CASE \E method \in Methods : choosesMethod(c, method)
  BY <1>2, <1>6 DEF choosesMethod, notServer
<1>7. CASE reopens(c)
  BY <1>2, <1>7 DEF reopens, notServer
<1>8. CASE losesAnswer(c)
  BY <1>2, <1>8 DEF losesAnswer, notServer
<1>9. QED
  BY <1>3, <1>4, <1>5, <1>6, <1>7, <1>8

LEMMA SendsRight ==
  ASSUME VisitInv, NEW c \in Customers, NEW r \in Requests,
         refreshQuote(c, r) \/ placeOrder(c, r)
  PROVE  VisitInv' /\ OrdersGoOn
<1> DEFINE old == page[c]
           unquoted == [old EXCEPT !.quote = None]
           waiting == [old EXCEPT !.waits = r]
<1>1. DOMAIN old = PageFields
  BY DEF VisitInv, PagesRight, PageRight
<1>2. /\ DOMAIN unquoted = PageFields /\ unquoted.visit = old.visit
      /\ unquoted.attempt = old.attempt /\ unquoted.waits = old.waits
      /\ DOMAIN waiting = PageFields /\ waiting.visit = old.visit
      /\ waiting.attempt = old.attempt /\ waiting.waits = r
  BY <1>1, PageWith
<1>3. CASE refreshQuote(c, r)
  <2>1. /\ ~Waiting(r) /\ order' = order /\ Shows(c, unquoted)
        /\ request' = [request EXCEPT ![r] = Sent(c, "QUOTE")]
    BY <1>3 DEF refreshQuote, notServer
  <2> HIDE DEF unquoted, waiting
  <2>2. QED
    BY <1>2, <2>1, SendStep
<1>4. CASE placeOrder(c, r)
  <2>1. /\ ~Waiting(r) /\ order' = order /\ Shows(c, waiting)
        /\ request' = [request EXCEPT ![r] = Sent(c, "ORDER")]
    BY <1>4 DEF placeOrder, notServer
  <2> HIDE DEF unquoted, waiting
  <2>2. QED
    BY <1>2, <2>1, SendStep
<1>5. QED
  BY <1>3, <1>4

(* What the server does for a request that changes no order.                   *)
LEMMA AnswersOnly ==
  ASSUME VisitInv, order' = order, NEW r \in Requests, Waiting(r),
         NEW result, Answer(r, result), Excuse(r, result)
  PROVE  VisitInv' /\ OrdersGoOn
BY OrdersSame, AnswerStep DEF VisitInv

LEMMA MovesOn ==
  ASSUME VisitInv, order' = order, NEW r \in Requests, Waiting(r), NEW held, Goes(r, held),
         DOMAIN held = RequestFields, held.at \notin {"NONE", "PAYS"},
         held.kind = request[r].kind, held.who = request[r].who,
         held.visit = request[r].visit, held.key = request[r].key
  PROVE  VisitInv' /\ OrdersGoOn
<1>1. OrdersRight' /\ OrdersGoOn
  BY OrdersSame DEF VisitInv
<1>2. RequestRight(order, request[r])
  BY DEF VisitInv, RequestsRight
<1>3. RequestRight(order', held)
  BY <1>2 DEF RequestRight
<1>4. QED
  BY <1>1, <1>3, GoesStep

(* An order that is known already may have been refused, and is then cancelled.*)
LEMMA KnownExcuse ==
  ASSUME VisitInv, order' = order, NEW r, NEW o \in Orders, Placed(o),
         order[o].key = request[r].key
  PROVE  Excuse(r, resultFromExisting(o))
<1>1. resultFromExisting(o) = "PAYMENT_REJECTED" => order[o].payment.status \in Dead
  BY DEF resultFromExisting
<1>2. OrderRight(order, order[o])
  BY DEF VisitInv, OrdersRight
<1>3. QED
  BY <1>1, <1>2 DEF OrderRight, Excuse

LEMMA ArrivesRight ==
  ASSUME VisitInv, NEW r \in Requests, arrives(r)  PROVE VisitInv' /\ OrdersGoOn
<1> DEFINE q == request[r]
           mine == IF q.kind = "QUOTE" THEN QuoteUser ELSE CreateUser
           shared == IF q.kind = "QUOTE" THEN QuoteIp ELSE CreateIp
           known == IF q.kind = "QUOTE" THEN {} ELSE OrdersWith(q.key)
           rows == [i \in DOMAIN q.items |-> product[q.items[i].product]]
           held == [q EXCEPT !.at = "GROUPS", !.store = store, !.rows = rows]
<1>1. /\ Waiting(r) /\ order' = order
      /\ \/ Answer(r, "UNAVAILABLE")
         \/ \E o \in known : Answer(r, resultFromExisting(o))
         \/ Goes(r, held)
  <2>1. At(r, "ARRIVES") /\ order' = order
    BY DEF arrives
  <2>2. IF ~GrantAll(mine \cup shared, q.who) THEN Answer(r, "UNAVAILABLE")
        ELSE IF known # {} THEN \E o \in known : Answer(r, resultFromExisting(o))
        ELSE Goes(r, held)
    BY Zenon DEF arrives
  <2> HIDE DEF mine, shared, known, held
  <2>3. QED
    BY <2>1, <2>2 DEF At, Waiting
<1>2. RequestRight(order, q)
  BY <1>1 DEF VisitInv, RequestsRight
<1>3. CASE Answer(r, "UNAVAILABLE")
  BY <1>1, <1>3, AnswersOnly DEF Excuse
<1>4. CASE \E o \in known : Answer(r, resultFromExisting(o))
  <2>1. PICK o \in known : Answer(r, resultFromExisting(o))
    BY <1>4
  <2>2. o \in Orders /\ Placed(o) /\ order[o].key = q.key
    BY <2>1 DEF OrdersWith
  <2>3. QED
    BY <1>1, <2>1, <2>2, KnownExcuse, AnswersOnly
<1>5. CASE Goes(r, held)
  <2> HIDE DEF rows
  <2>1. /\ DOMAIN held = RequestFields /\ held.at = "GROUPS" /\ held.kind = q.kind
        /\ held.who = q.who /\ held.visit = q.visit /\ held.key = q.key
    BY <1>2 DEF RequestRight, RequestFields
  <2> HIDE DEF held
  <2>2. QED
    BY <1>1, <1>5, <2>1, MovesOn
<1>6. QED
  BY <1>1, <1>3, <1>4, <1>5

LEMMA ReadsRight ==
  ASSUME VisitInv, NEW r \in Requests, readsGroups(r) \/ readsOptions(r)
  PROVE  VisitInv' /\ OrdersGoOn
<1>1. ASSUME NEW groups, NEW at \in {"OPTIONS", "MATRIX"}, Waiting(r), order' = order,
             Goes(r, [request[r] EXCEPT !.at = at, !.groups = groups])
      PROVE  VisitInv' /\ OrdersGoOn
  <2> DEFINE q == request[r]
             held == [q EXCEPT !.at = at, !.groups = groups]
  <2>1. RequestRight(order, q)
    BY <1>1 DEF VisitInv, RequestsRight
  <2>2. /\ DOMAIN held = RequestFields /\ held.at = at /\ held.kind = q.kind
        /\ held.who = q.who /\ held.visit = q.visit /\ held.key = q.key
    BY <2>1 DEF RequestRight, RequestFields
  <2>3. Goes(r, held)
    BY <1>1
  <2> HIDE DEF held
  <2>4. QED
    BY <1>1, <2>2, <2>3, MovesOn
<1>2. CASE readsGroups(r)
  <2>1. Waiting(r) /\ order' = order
    BY <1>2 DEF readsGroups, At, Waiting
  <2>2. PICK groups : Goes(r, [request[r] EXCEPT !.at = "OPTIONS", !.groups = groups])
    BY <1>2 DEF readsGroups
  <2>3. QED
    BY <1>1, <2>1, <2>2
<1>3. CASE readsOptions(r)
  <2>1. Waiting(r) /\ order' = order
    BY <1>3 DEF readsOptions, At, Waiting
  <2>2. PICK groups : Goes(r, [request[r] EXCEPT !.at = "MATRIX", !.groups = groups])
    BY <1>3 DEF readsOptions
  <2>3. QED
    BY <1>1, <2>1, <2>2
<1>4. QED
  BY <1>2, <1>3

LEMMA ReadsMatrixRight ==
  ASSUME VisitInv, NEW r \in Requests, readsMatrix(r)  PROVE VisitInv' /\ OrdersGoOn
<1> DEFINE q == request[r]
           quote == quoteOrder(q, [i \in DOMAIN q.groups |-> WithMatrixNow(q.groups[i])])
           shown == [problems |-> quote.problems, total |-> quote.subtotal + quote.fee]
           held == [q EXCEPT !.at = "INSERTS", !.quote = quote]
<1>1. Waiting(r) /\ order' = order
  BY DEF readsMatrix, At, Waiting
<1>2. IF q.kind = "QUOTE"
        THEN /\ request' = [request EXCEPT ![r] = NoRequest]
             /\ page' = IF page[q.who].visit # q.visit THEN page
                        ELSE [page EXCEPT ![q.who] = [page[q.who] EXCEPT !.quote = shown]]
      ELSE IF quote.problems THEN Answer(r, "UNAVAILABLE")
      ELSE Goes(r, held)
  BY DEF readsMatrix
<1>3. RequestRight(order, q)
  BY <1>1 DEF VisitInv, RequestsRight
<1> HIDE DEF quote, shown
<1>4. CASE q.kind = "QUOTE"
  <2>1. /\ request' = [request EXCEPT ![r] = NoRequest]
        /\ \/ page' = page
           \/ page' = [page EXCEPT ![q.who] = [page[q.who] EXCEPT !.quote = shown]]
    BY <1>2, <1>4
  <2>2. QED
    BY <1>1, <1>4, <2>1, QuoteStep
<1>5. CASE q.kind # "QUOTE" /\ Answer(r, "UNAVAILABLE")
  BY <1>1, <1>5, AnswersOnly DEF Excuse
<1>6. CASE q.kind # "QUOTE" /\ Goes(r, held)
  <2>1. /\ DOMAIN held = RequestFields /\ held.at = "INSERTS" /\ held.kind = q.kind
        /\ held.who = q.who /\ held.visit = q.visit /\ held.key = q.key
    BY <1>3 DEF RequestRight, RequestFields
  <2> HIDE DEF held
  <2>2. QED
    BY <1>1, <1>6, <2>1, MovesOn
<1>7. QED
  BY <1>2, <1>4, <1>5, <1>6

LEMMA CreateOrderRight ==
  ASSUME VisitInv, NEW r \in Requests, NEW o \in Orders, createOrder(r, o)
  PROVE  VisitInv' /\ OrdersGoOn
<1> DEFINE q == request[r]
           known == OrdersWith(q.key)
           held == [q EXCEPT !.at = "PAYS", !.order = o]
<1>1. Waiting(r) /\ ~Placed(o)
  BY DEF createOrder, At, Waiting, FreshOrder
<1>2. RequestRight(order, q)
  BY <1>1 DEF VisitInv, RequestsRight
<1>3. CASE known # {}
  <2>1. PICK n \in known : Answer(r, resultFromExisting(n)) /\ order' = order
    BY <1>3 DEF createOrder
  <2>2. n \in Orders /\ Placed(n) /\ order[n].key = q.key
    BY <2>1 DEF OrdersWith
  <2>3. QED
    BY <1>1, <2>1, <2>2, KnownExcuse, AnswersOnly
<1>4. CASE known = {}
  <2> DEFINE row == NewOrder(q)
  <2>1. /\ order' = [order EXCEPT ![o] = row]
        /\ Goes(r, held) \/ Answer(r, "OK")
    BY <1>4 DEF createOrder
  <2>2. OrderRight(order, row) /\ row.status # "NONE" /\ row.key = q.key
    BY <1>2, NewOrderRight
  <2> HIDE DEF row
  <2>3. OrdersRight' /\ OrdersGoOn
    BY <1>1, <1>4, <2>1, <2>2, OneOrderMore DEF VisitInv
  <2>4. CASE Answer(r, "OK")
    BY <1>1, <2>3, <2>4, AnswerStep DEF Excuse
  <2>5. CASE Goes(r, held)
    <3>1. /\ DOMAIN held = RequestFields /\ held.at = "PAYS" /\ held.order = o
          /\ held.kind = q.kind /\ held.who = q.who /\ held.visit = q.visit /\ held.key = q.key
      BY <1>2 DEF RequestRight, RequestFields
    <3> HIDE DEF held
    <3>2. order'[o] = row
      BY <2>1 DEF VisitInv, OrdersRight
    <3>3. RequestRight(order', q)
      BY <1>2, <2>3, RequestRightStays
    <3>4. RequestRight(order', held)
      BY <2>2, <3>1, <3>2, <3>3 DEF RequestRight
    <3>5. QED
      BY <1>1, <2>3, <2>5, <3>1, <3>4, GoesStep
  <2>6. QED
    BY <2>1, <2>4, <2>5
<1>5. QED
  BY <1>3, <1>4

LEMMA PaysRight ==
  ASSUME VisitInv, NEW r \in Requests, createOnlinePayment(r)
  PROVE  VisitInv' /\ OrdersGoOn
<1> DEFINE o == request[r].order
           payment == order[o].payment
           reviewed == [payment EXCEPT !.review = TRUE]
           row == [order[o] EXCEPT !.payment = reviewed]
<1>1. At(r, "PAYS") /\ Waiting(r)
  BY DEF createOnlinePayment, At, Waiting
<1>2. o \in Orders /\ Placed(o) /\ order[o].key = request[r].key
  BY <1>1 DEF VisitInv, RequestsRight, RequestRight, At, Placed
<1>3. OrderRight(order, order[o])
  BY <1>2 DEF VisitInv, OrdersRight
<1>4. \/ Answer(r, "UNAVAILABLE") /\ order' = order
      \/ Answer(r, resultFromExisting(o)) /\ order' = order
      \/ /\ payment.status = "PENDING"
         /\ \E status \in REPORTS :
              /\ order' = [order EXCEPT ![o] = Reported(o, status)]
              /\ Answer(r, IF status = "REJECTED" THEN "PAYMENT_REJECTED" ELSE "OK")
      \/ /\ payment.status = "PENDING" /\ order' = [order EXCEPT ![o] = row]
         /\ Answer(r, "UNAVAILABLE")
  BY DEF createOnlinePayment, REPORTS
<1>5. CASE Answer(r, "UNAVAILABLE") /\ order' = order
  BY <1>1, <1>5, AnswersOnly DEF Excuse
<1>6. CASE Answer(r, resultFromExisting(o)) /\ order' = order
  BY <1>1, <1>2, <1>6, KnownExcuse, AnswersOnly
<1>7. ASSUME payment.status = "PENDING", NEW status \in REPORTS,
             order' = [order EXCEPT ![o] = Reported(o, status)],
             Answer(r, IF status = "REJECTED" THEN "PAYMENT_REJECTED" ELSE "OK")
      PROVE  VisitInv' /\ OrdersGoOn
  <2>1. /\ Follows(order[o], Reported(o, status))
        /\ status = "REJECTED" => Reported(o, status).status = "CANCELLED"
    BY <1>2, <1>3, <1>7, ReportFollows
  <2>2. OrdersRight' /\ OrdersGoOn
    BY <1>2, <1>7, <2>1, OneOrderChanges DEF VisitInv
  <2>3. order'[o] = Reported(o, status)
    BY <1>2, <1>7 DEF VisitInv, OrdersRight
  <2>4. status = "REJECTED" => order'[o].status = "CANCELLED" /\ order'[o].key = request[r].key
    BY <1>2, <2>1, <2>3 DEF Follows
  <2> DEFINE result == IF status = "REJECTED" THEN "PAYMENT_REJECTED" ELSE "OK"
  <2>5. Excuse(r, result)
    BY <1>2, <2>4 DEF Excuse
  <2> HIDE DEF result
  <2>6. Answer(r, result)
    BY <1>7 DEF result
  <2>7. QED
    BY <1>1, <2>2, <2>5, <2>6, AnswerStep
<1>8. CASE /\ payment.status = "PENDING" /\ order' = [order EXCEPT ![o] = row]
           /\ Answer(r, "UNAVAILABLE")
  <2>1. DOMAIN reviewed = PaymentFields /\ reviewed.status = payment.status
    BY <1>3 DEF OrderRight, PaymentFields
  <2> HIDE DEF reviewed
  <2>2. Follows(order[o], row)
    BY <1>2, <1>3, <2>1, PaymentFollows DEF OrderRight, Placed
  <2> HIDE DEF row
  <2>3. OrdersRight' /\ OrdersGoOn
    BY <1>2, <1>8, <2>2, OneOrderChanges DEF VisitInv
  <2>4. QED
    BY <1>1, <1>8, <2>3, AnswerStep DEF Excuse
<1>9. QED
  BY <1>4, <1>5, <1>6, <1>7, <1>8

LEMMA BuyingStep == ASSUME VisitInv, Buying  PROVE VisitInv' /\ OrdersGoOn
<1>1. ASSUME NEW c \in Customers, NEW p \in Products, NEW chosen, addItem(c, p, chosen)
      PROVE  VisitInv' /\ OrdersGoOn
  BY <1>1, PageStepsRight
<1>2. ASSUME NEW c \in Customers, NEW i \in 1..2, updateQty(c, i) \/ removeItem(c, i)
      PROVE  VisitInv' /\ OrdersGoOn
  BY <1>2, PageStepsRight
<1>3. ASSUME NEW c \in Customers, NEW method \in Methods, choosesMethod(c, method)
      PROVE  VisitInv' /\ OrdersGoOn
  BY <1>3, PageStepsRight
<1>4. ASSUME NEW c \in Customers, reopens(c) \/ losesAnswer(c)  PROVE VisitInv' /\ OrdersGoOn
  BY <1>4, PageStepsRight
<1>5. ASSUME NEW c \in Customers, deleteAddress(c) \/ createAddress(c, 42)
      PROVE  VisitInv' /\ OrdersGoOn
  BY <1>5, SameOrders DEF deleteAddress, createAddress, notServer
<1>6. ASSUME NEW c \in Customers, NEW r \in Requests, refreshQuote(c, r) \/ placeOrder(c, r)
      PROVE  VisitInv' /\ OrdersGoOn
  BY <1>6, SendsRight
<1>7. ASSUME NEW r \in Requests, dies(r)  PROVE VisitInv' /\ OrdersGoOn
  <2>1. /\ Waiting(r) /\ order' = order /\ Answer(r, "UNAVAILABLE")
    BY <1>7 DEF dies, Answer
  <2>2. QED
    BY <2>1, AnswersOnly DEF Excuse
<1>8. ASSUME NEW r \in Requests,
             \/ arrives(r) \/ readsGroups(r) \/ readsOptions(r) \/ readsMatrix(r)
             \/ createOnlinePayment(r)
      PROVE  VisitInv' /\ OrdersGoOn
  BY <1>8, ArrivesRight, ReadsRight, ReadsMatrixRight, PaysRight
<1>9. ASSUME NEW r \in Requests, NEW o \in Orders, createOrder(r, o)
      PROVE  VisitInv' /\ OrdersGoOn
  BY <1>9, CreateOrderRight
<1>10. ASSUME NEW o \in Orders, paymentEnds(o)  PROVE VisitInv' /\ OrdersGoOn
  <2>1. PICK status \in REPORTS : order' = [order EXCEPT ![o] = Reported(o, status)]
    BY <1>10 DEF paymentEnds, REPORTS
  <2>2. /\ Placed(o) /\ order[o].payment.status = "PENDING"
        /\ page' = page /\ request' = request
    BY <1>10 DEF paymentEnds, browser
  <2>3. Follows(order[o], Reported(o, status))
    BY <2>2, ReportFollows DEF VisitInv, OrdersRight
  <2>4. QED
    BY <2>1, <2>2, <2>3, OneOrderChanges, OnlyOrders DEF VisitInv
<1>11. QED
  BY <1>1, <1>2, <1>3, <1>4, <1>5, <1>6, <1>7, <1>8, <1>9, <1>10 DEF Buying

(* What the store and the customer do with a placed order.                     *)
LEMMA AmendingStep == ASSUME VisitInv, Amending  PROVE VisitInv' /\ OrdersGoOn
<1>1. ASSUME NEW o, NEW status, order[o].status # "NONE",
             order' = [order EXCEPT ![o] = [order[o] EXCEPT !.status = status]],
             status \notin {"NONE", "AWAITING_PAYMENT"},
             \/ status = "CANCELLED"
             \/ order[o].status \notin {"AWAITING_PAYMENT", "CANCELLED"},
             page' = page, request' = request
      PROVE  VisitInv' /\ OrdersGoOn
  <2>1. CASE o \in Orders
    <3> DEFINE row == [order[o] EXCEPT !.status = status]
    <3>1. Placed(o) /\ OrderRight(order, order[o])
      BY <1>1, <2>1 DEF Placed, VisitInv, OrdersRight
    <3>2. Follows(order[o], row)
      BY <1>1, <3>1, StatusFollows
    <3> HIDE DEF row
    <3>3. order' = [order EXCEPT ![o] = row]
      BY <1>1 DEF row
    <3>4. QED
      BY <1>1, <2>1, <3>1, <3>2, <3>3, OneOrderChanges, OnlyOrders DEF VisitInv
  <2>2. CASE o \notin Orders
    BY <1>1, <2>2, SameOrders DEF VisitInv, OrdersRight
  <2>3. QED
    BY <2>1, <2>2
<1>2. ASSUME NEW o \in Orders, storeUpdateOrderStatus(o)  PROVE VisitInv' /\ OrdersGoOn
  <2>1. PICK status \in {"ACCEPTED", "PREPARING", "READY"} :
          /\ order[o].status \in {"PENDING", "ACCEPTED", "PREPARING"}
          /\ order' = [order EXCEPT ![o] = [order[o] EXCEPT !.status = status]]
    <3>1. PICK step \in {<<"PENDING", "ACCEPTED">>, <<"ACCEPTED", "PREPARING">>,
                         <<"PREPARING", "READY">>} :
            /\ order[o].status = step[1]
            /\ order' = [order EXCEPT ![o] = [order[o] EXCEPT !.status = step[2]]]
      BY <1>2 DEF storeUpdateOrderStatus
    <3>2. step[1] \in {"PENDING", "ACCEPTED", "PREPARING"} /\ step[2] \in {"ACCEPTED", "PREPARING", "READY"}
      OBVIOUS
    <3>3. QED
      BY <3>1, <3>2
  <2>2. page' = page /\ request' = request
    BY <1>2 DEF storeUpdateOrderStatus, notAmended, browser
  <2>3. QED
    BY <1>1, <2>1, <2>2
<1>3. ASSUME NEW o, order[o].status # "NONE", order' = Cancelled(o),
             page' = page, request' = request
      PROVE  VisitInv' /\ OrdersGoOn
  <2> DEFINE status == "CANCELLED"
  <2>1. order' = [order EXCEPT ![o] = [order[o] EXCEPT !.status = status]]
    BY <1>3 DEF Cancelled
  <2>2. status = "CANCELLED" /\ status \notin {"NONE", "AWAITING_PAYMENT"}
    OBVIOUS
  <2> HIDE DEF status
  <2>3. QED
    BY <1>1, <1>3, <2>1, <2>2
<1>4. ASSUME NEW a \in Amendments, rejectAmendment(a)  PROVE VisitInv' /\ OrdersGoOn
  <2> DEFINE o == amendment[a].order
  <2>1. /\ order[o].status # "NONE" /\ order' = Cancelled(o)
        /\ page' = page /\ request' = request
    BY <1>4 DEF rejectAmendment, notAmended, browser, PROPOSABLE
  <2> HIDE DEF o
  <2>2. QED
    BY <1>3, <2>1
<1>5. ASSUME NEW o \in Orders, cancelsOrder(o)  PROVE VisitInv' /\ OrdersGoOn
  <2>1. /\ order[o].status # "NONE" /\ order' = Cancelled(o)
        /\ page' = page /\ request' = request
    BY <1>5 DEF cancelsOrder, notAmended, browser
  <2>2. QED
    BY <1>3, <2>1
<1>6. ASSUME NEW a \in Amendments, approveAmendment(a)  PROVE VisitInv' /\ OrdersGoOn
  <2> DEFINE o == amendment[a].order
             old == order[o]
             items == Amended(order[o].items, amendment[a].changes)
             total == amendment[a].total
             paidBack == IF amendment[a].refund > 0 /\ order[o].payment.status = "APPROVED"
                           THEN amendment[a].refund ELSE 0
             refund == order[o].refund + paidBack
             row == [old EXCEPT !.items = items, !.total = total, !.refund = refund]
  <2>1. old.status \in PROPOSABLE /\ order' = [order EXCEPT ![o] = row]
    BY <1>6 DEF approveAmendment
  <2>2. page' = page /\ request' = request
    BY <1>6 DEF approveAmendment, notAmended, browser
  <2> HIDE DEF items, total, refund
  <2>3. CASE o \in Orders
    <3>1. Placed(o) /\ OrderRight(order, old)
      BY <2>1, <2>3 DEF Placed, VisitInv, OrdersRight, PROPOSABLE
    <3> HIDE DEF old
    <3>2. /\ DOMAIN row = OrderFields /\ row.payment = old.payment /\ row.status = old.status
          /\ row.who = old.who /\ row.visit = old.visit /\ row.key = old.key
      BY <3>1 DEF OrderRight, OrderFields
    <3> HIDE DEF row
    <3>3. Follows(old, row)
      BY <2>1, <3>1, <3>2 DEF Follows, OrderRight, PROPOSABLE
    <3>4. Follows(order[o], row)
      BY <3>3 DEF old
    <3>5. QED
      BY <2>1, <2>2, <2>3, <3>1, <3>4, OneOrderChanges, OnlyOrders DEF VisitInv
  <2>4. CASE o \notin Orders
    <3> HIDE DEF row
    <3>1. order' = order
      BY <2>1, <2>4 DEF VisitInv, OrdersRight
    <3>2. QED
      BY <2>2, <3>1, SameOrders
  <2>5. QED
    BY <2>3, <2>4
<1>7. ASSUME NEW t \in Tablets, NEW o \in Orders, proposeAmendment(t, o)
      PROVE  VisitInv' /\ OrdersGoOn
  BY <1>7, SameOrders DEF proposeAmendment, notAmended, browser
<1>8. ASSUME NEW t \in Tablets, looksForPending(t) \/ readsItems(t)
      PROVE  VisitInv' /\ OrdersGoOn
  BY <1>8, SameOrders DEF looksForPending, readsItems, notAmended, browser
<1>9. ASSUME NEW t \in Tablets, NEW a \in Amendments, insertsProposal(t, a)
      PROVE  VisitInv' /\ OrdersGoOn
  BY <1>9, SameOrders DEF insertsProposal, notAmended, browser
<1>10. ASSUME NEW o \in Orders, withdrawAmendment(o)  PROVE VisitInv' /\ OrdersGoOn
  BY <1>10, SameOrders DEF withdrawAmendment, notAmended, browser
<1>11. QED
  BY <1>2, <1>4, <1>5, <1>6, <1>7, <1>8, <1>9, <1>10 DEF Amending

LEMMA VisitStep == ASSUME VisitInv, [Next]_vars  PROVE VisitInv' /\ OrdersGoOn
<1>1. CASE Limiting
  BY <1>1, SameOrders
  DEF Limiting, protectLogin, recordLoginFailure, clearLoginFailures,
      deleteExpiredRateLimitBuckets, notShop, browser
<1>2. CASE Selling
  BY <1>2, SameOrders
  DEF Selling, updateStore, createCategory, deleteCategory, createProduct, importCsvCatalog,
      updateProduct, deleteProduct, replaceProductOptions, updateOption, commitProductOptions,
      notMenu, browser
<1>3. CASE Buying
  BY <1>3, BuyingStep
<1>4. CASE Amending
  BY <1>4, AmendingStep
<1>5. CASE TimePasses \/ UNCHANGED vars
  BY <1>5, SameOrders DEF TimePasses, vars, browser
<1>6. QED
  BY <1>1, <1>2, <1>3, <1>4, <1>5 DEF Next

(* Answers may be lost, payments refused or left in doubt, requests overtake   *)
(* each other: whoever keeps trying on one checkout page gets one order.       *)
THEOREM OneOrder == Spec => []OneOrderPerVisit
<1>1. Init => VisitInv
  BY VisitInit
<1>2. VisitInv /\ [Next]_vars => VisitInv'
  BY VisitStep
<1>3. VisitInv => OneOrderPerVisit
  <2> SUFFICES ASSUME VisitInv, NEW n \in Orders, NEW o \in Orders, Lives(n), Lives(o),
                      order[n].who = order[o].who, order[n].visit = order[o].visit
               PROVE  n = o
    BY DEF OneOrderPerVisit
  <2>1. /\ Placed(n) /\ Placed(o)
        /\ OrderRight(order, order[n]) /\ OrderRight(order, order[o])
    BY DEF VisitInv, OrdersRight, Lives, Placed
  <2>2. ~ order[n].key[3] < order[o].key[3]
    <3> SUFFICES ASSUME order[n].key[3] < order[o].key[3]  PROVE FALSE
      OBVIOUS
    <3> DEFINE b == order[n].key[3]
    <3>1. b \in 1..(order[o].key[3] - 1)
      BY <2>1 DEF OrderRight, GoodKey
    <3>2. order[n].key = <<order[o].who, order[o].visit, b>>
      BY <2>1 DEF OrderRight, GoodKey
    <3>3. GivenUp(order, order[o].who, order[o].visit, order[o].key[3])
      BY <2>1 DEF OrderRight
    <3> HIDE DEF b
    <3>4. PICK m \in Orders : order[m].status = "CANCELLED" /\ order[m].key = order[n].key
      BY <3>1, <3>2, <3>3 DEF GivenUp
    <3>5. QED
      BY <2>1, <3>4 DEF VisitInv, OrdersRight, Placed, Lives
  <2>3. ~ order[o].key[3] < order[n].key[3]
    <3> SUFFICES ASSUME order[o].key[3] < order[n].key[3]  PROVE FALSE
      OBVIOUS
    <3> DEFINE b == order[o].key[3]
    <3>1. b \in 1..(order[n].key[3] - 1)
      BY <2>1 DEF OrderRight, GoodKey
    <3>2. order[o].key = <<order[n].who, order[n].visit, b>>
      BY <2>1 DEF OrderRight, GoodKey
    <3>3. GivenUp(order, order[n].who, order[n].visit, order[n].key[3])
      BY <2>1 DEF OrderRight
    <3> HIDE DEF b
    <3>4. PICK m \in Orders : order[m].status = "CANCELLED" /\ order[m].key = order[o].key
      BY <3>1, <3>2, <3>3 DEF GivenUp
    <3>5. QED
      BY <2>1, <3>4 DEF VisitInv, OrdersRight, Placed, Lives
  <2>4. order[n].key = order[o].key
    BY <2>1, <2>2, <2>3 DEF OrderRight, GoodKey
  <2>5. QED
    BY <2>1, <2>4 DEF VisitInv, OrdersRight
<1>4. QED
  BY <1>1, <1>2, <1>3, PTL DEF Spec

(* What an order consists of does not change once it is ready or cancelled,    *)
(* whenever the customer agrees to a proposal.                                 *)
THEOREM ReadyStay == Spec => ReadyOrdersStay
<1>1. Init => VisitInv
  BY VisitInit
<1>2. VisitInv /\ [Next]_vars => VisitInv'
  BY VisitStep
<1>3. VisitInv /\ [Next]_vars
        => [\A o \in Orders : Placed(o) /\ order'[o].items # order[o].items
              => order[o].status \in PROPOSABLE]_vars
  BY VisitStep DEF OrdersGoOn
<1>4. QED
  BY <1>1, <1>2, <1>3, PTL DEF Spec, ReadyOrdersStay

-----------------------------------------------------------------------------
(* The limits.                                                                 *)

(* A row counts something; its block ends no later than a cool-down from now,  *)
(* and the row is kept as long.                                                *)
Longest(scope) == IF Policies[scope].cooldown = None THEN 0 ELSE Policies[scope].cooldown

RowRight(scope, row, t) ==
  /\ scope \in DOMAIN Policies /\ row.count \in Nat \ {0}
  /\ row.blocked \in 0..(t + Longest(scope))
  /\ row.expires \in Int /\ row.blocked <= row.expires

LimitInv ==
  /\ now \in Nat
  /\ \A k \in DOMAIN bucket : RowRight(k[1], bucket[k], now)

(* The last block of a subject ends at e.                                      *)
Ends(b, scope, who, e) ==
  /\ \E k \in RowsOf(b, scope, who) : b[k].blocked = e
  /\ \A k \in RowsOf(b, scope, who) : b[k].blocked \in 0..e

LEMMA LongestType == ASSUME NEW s \in DOMAIN Policies  PROVE Longest(s) \in Nat
BY PolicyAssumption DEF Longest

LEMMA LimitInit == Init => LimitInv
BY DEF Init, LimitInv

-----------------------------------------------------------------------------
(* The end of a block as the limiter reads it, and as rows have it.            *)
LEMMA BlockEndMeans ==
  ASSUME LimitInv, NEW s \in DOMAIN Policies, NEW c
  PROVE  /\ BlockEnd(bucket, s, c) \in Nat
         /\ BlockEnd(bucket, s, c) > now => Ends(bucket, s, c, BlockEnd(bucket, s, c))
<1> DEFINE T == InForce(bucket, s, c) \cup {0}
           n == now + Longest(s)
           e == BlockEnd(bucket, s, c)
<1>1. now \in Nat /\ n \in Nat
  BY LongestType DEF LimitInv
<1>2. \A k \in RowsOf(bucket, s, c) : bucket[k].blocked \in 0..n
  BY DEF LimitInv, RowsOf, RowRight
<1>3. T \in SUBSET (0..n) /\ T # {}
  BY <1>1, <1>2 DEF InForce
<1>4. \E x \in T : \A y \in T : x >= y
  <2>1. PICK x \in T : \A y \in T : y <= x
    BY <1>1, <1>3, LargestBounded
  <2>2. \A y \in T : x >= y
    BY <1>1, <1>3, <2>1
  <2>3. QED
    BY <2>2
<1>5. e \in T /\ \A y \in T : e >= y
  BY <1>4 DEF BlockEnd, Max
<1>6. e \in Nat
  BY <1>1, <1>3, <1>5
<1> SUFFICES ASSUME e > now  PROVE Ends(bucket, s, c, e)
  BY <1>6
<1>7. \E k \in RowsOf(bucket, s, c) : bucket[k].blocked = e
  BY <1>1, <1>5, <1>6 DEF InForce
<1>8. ASSUME NEW k \in RowsOf(bucket, s, c)  PROVE bucket[k].blocked \in 0..e
  <2>1. bucket[k].blocked \in Nat
    BY <1>1, <1>2
  <2>2. bucket[k].blocked > now => bucket[k].blocked \in T
    BY <2>1 DEF InForce
  <2>3. QED
    BY <1>1, <1>5, <1>6, <2>1, <2>2
<1>9. QED
  BY <1>7, <1>8 DEF Ends

LEMMA EndsWhen ==
  ASSUME NEW b, NEW s, NEW c, NEW t \in Nat, NEW e \in Nat, e > t, Ends(b, s, c, e)
  PROVE  Max(({b[k].blocked : k \in RowsOf(b, s, c)} \cap {i \in Nat : i > t}) \cup {0}) = e
<1> DEFINE T == ({b[k].blocked : k \in RowsOf(b, s, c)} \cap {i \in Nat : i > t}) \cup {0}
<1>1. e \in T
  BY DEF Ends
<1>2. \A y \in T : y \in Nat /\ e >= y
  BY DEF Ends
<1>3. \A x \in T : (\A y \in T : x >= y) => x = e
  BY <1>1, <1>2
<1> HIDE DEF T
<1>4. Max(T) \in T /\ \A y \in T : Max(T) >= y
  BY <1>1, <1>2 DEF Max
<1>5. Max(T) = e
  BY <1>3, <1>4
<1>6. QED
  BY <1>5 DEF T

LEMMA EndStays ==
  ASSUME now' \in Nat, NEW s, NEW c, NEW e \in Nat, e > now', Ends(bucket', s, c, e)
  PROVE  BlockEnd(bucket, s, c)' = e
BY EndsWhen DEF BlockEnd, InForce, RowsOf

-----------------------------------------------------------------------------
(* Requests that are counted.                                                  *)
LEMMA LargerOfTwo ==
  ASSUME NEW x \in Int, NEW y \in Int  PROVE Max({x, y}) \in Int /\ Max({x, y}) >= y
<1>1. \E m \in {x, y} : \A u \in {x, y} : m >= u
  OBVIOUS
<1>2. Max({x, y}) \in {x, y} /\ \A u \in {x, y} : Max({x, y}) >= u
  BY <1>1 DEF Max
<1>3. QED
  BY <1>2

LEMMA NextBlockRight ==
  ASSUME LimitInv, NEW s \in DOMAIN Policies, NEW who
  PROVE  NextBlock(bucket, s, who) \in 0..(now + Longest(s))
<1>1. now \in Nat /\ Longest(s) \in Nat
  BY LongestType DEF LimitInv
<1>2. CASE Blocked(bucket, s, who)
  <2>1. Ends(bucket, s, who, BlockEnd(bucket, s, who))
    BY <1>2, BlockEndMeans DEF Blocked
  <2>2. PICK k \in RowsOf(bucket, s, who) : bucket[k].blocked = BlockEnd(bucket, s, who)
    BY <2>1 DEF Ends
  <2>3. bucket[k].blocked \in 0..(now + Longest(s))
    BY DEF LimitInv, RowsOf, RowRight
  <2>4. QED
    BY <1>2, <2>2, <2>3 DEF NextBlock
<1>3. CASE ~Blocked(bucket, s, who)
  <2>1. \/ NextBlock(bucket, s, who) = 0
        \/ /\ Policies[s].cooldown # None
           /\ NextBlock(bucket, s, who) = now + Policies[s].cooldown
    BY <1>3 DEF NextBlock
  <2>2. QED
    BY <1>1, <2>1 DEF Longest
<1>4. QED
  BY <1>2, <1>3

Charged(scopes, who) == {Key(s, who) : s \in scopes}
CountedRow(s, who) ==
  [count |-> Count(bucket, s, who) + 1, blocked |-> NextBlock(bucket, s, who),
   expires |-> Max({windowStart(s) + Policies[s].retention, NextBlock(bucket, s, who)})]

LEMMA ConsumedRows ==
  ASSUME NEW scopes, NEW who, bucket' = Consumed(bucket, scopes, who)
  PROVE  /\ DOMAIN bucket' = DOMAIN bucket \cup Charged(scopes, who)
         /\ \A k \in DOMAIN bucket \ Charged(scopes, who) : bucket'[k] = bucket[k]
BY DEF Consumed, Charged, CountedRow, Key

LEMMA ChargedRow ==
  ASSUME NEW scopes, NEW who, bucket' = Consumed(bucket, scopes, who),
         NEW k \in Charged(scopes, who)
  PROVE  k[1] \in scopes /\ k[2] = who /\ bucket'[k] = CountedRow(k[1], who)
BY DEF Consumed, Charged, CountedRow, Key

LEMMA CountedRowRight ==
  ASSUME LimitInv, NEW s \in DOMAIN Policies, NEW who
  PROVE  RowRight(s, CountedRow(s, who), now)
<1> DEFINE next == NextBlock(bucket, s, who)
           base == windowStart(s) + Policies[s].retention
<1>1. now \in Nat /\ Longest(s) \in Nat /\ next \in 0..(now + Longest(s))
  BY NextBlockRight, LongestType DEF LimitInv
<1>2. base \in Int
  <2>1. Policies[s].window \in Nat \ {0} /\ Policies[s].retention \in Nat
    BY PolicyAssumption
  <2>2. now \div Policies[s].window \in Int
    BY <1>1, <2>1
  <2>3. windowStart(s) \in Int
    BY <2>1, <2>2 DEF windowStart
  <2>4. QED
    BY <2>1, <2>3
<1>3. next \in Int
  BY <1>1
<1>4. Max({base, next}) \in Int /\ Max({base, next}) >= next
  BY <1>2, <1>3, LargerOfTwo
<1>5. /\ CountedRow(s, who).blocked = next
      /\ CountedRow(s, who).expires = Max({base, next})
      /\ CountedRow(s, who).count = Count(bucket, s, who) + 1
  BY DEF CountedRow
<1>6. next <= Max({base, next})
  BY <1>3, <1>4
<1>7. Count(bucket, s, who) + 1 \in Nat \ {0}
  <2>1. Count(bucket, s, who) \in Nat
    BY DEF Count, Key, LimitInv, RowRight
  <2>2. QED
    BY <2>1
<1> HIDE DEF next, base
<1>8. QED
  BY <1>1, <1>4, <1>5, <1>6, <1>7 DEF RowRight

LEMMA CountingRight ==
  ASSUME LimitInv, NEW scopes \in SUBSET DOMAIN Policies, NEW who,
         bucket' = Consumed(bucket, scopes, who), now' = now
  PROVE  LimitInv'
<1>1. ASSUME NEW k \in Charged(scopes, who)  PROVE RowRight(k[1], bucket'[k], now)
  <2>1. k[1] \in DOMAIN Policies /\ bucket'[k] = CountedRow(k[1], who)
    BY <1>1, ChargedRow
  <2>2. QED
    BY <2>1, CountedRowRight
<1>2. ASSUME NEW k \in DOMAIN bucket \ Charged(scopes, who)
      PROVE  RowRight(k[1], bucket'[k], now)
  BY <1>2, ConsumedRows DEF LimitInv
<1>3. DOMAIN bucket' = DOMAIN bucket \cup Charged(scopes, who)
  BY ConsumedRows
<1>4. QED
  BY <1>1, <1>2, <1>3 DEF LimitInv, RowRight

(* A block in force stays as it is, in whatever window the request is counted. *)
LEMMA CountingKeepsEnd ==
  ASSUME LimitInv, NEW scopes \in SUBSET DOMAIN Policies, NEW who,
         bucket' = Consumed(bucket, scopes, who),
         NEW s \in DOMAIN Policies, NEW c, BlockEnd(bucket, s, c) > now
  PROVE  Ends(bucket', s, c, BlockEnd(bucket, s, c))
<1> DEFINE e == BlockEnd(bucket, s, c)
<1>1. Ends(bucket, s, c, e) /\ e \in Nat
  BY BlockEndMeans
<1>2. NextBlock(bucket, s, c) = e
  BY DEF NextBlock, Blocked
<1>3. ASSUME NEW k \in Charged(scopes, who), k[1] = s, k[2] = c
      PROVE  bucket'[k].blocked = e
  <2>1. bucket'[k] = CountedRow(s, c)
    BY <1>3, ChargedRow
  <2>2. QED
    BY <1>2, <2>1 DEF CountedRow
<1>4. \A k \in DOMAIN bucket \ Charged(scopes, who) : bucket'[k] = bucket[k]
  BY ConsumedRows
<1>5. DOMAIN bucket' = DOMAIN bucket \cup Charged(scopes, who)
  BY ConsumedRows
<1> HIDE DEF e
<1>6. \E k \in RowsOf(bucket', s, c) : bucket'[k].blocked = e
  <2>1. PICK k \in RowsOf(bucket, s, c) : bucket[k].blocked = e
    BY <1>1 DEF Ends
  <2>2. QED
    BY <2>1, <1>3, <1>4, <1>5 DEF RowsOf
<1>7. \A k \in RowsOf(bucket', s, c) : bucket'[k].blocked \in 0..e
  BY <1>1, <1>3, <1>4, <1>5 DEF RowsOf, Ends
<1>8. QED
  BY <1>6, <1>7 DEF Ends, e

-----------------------------------------------------------------------------
(* What a step may do to the rows.                                             *)
LEMMA AllCounted ==
  ASSUME NEW mine, NEW shared, NEW who, mine \cup shared \subseteq DOMAIN Policies
  PROVE  \E scopes \in SUBSET DOMAIN Policies :
           ConsumedAll(mine, shared, who) = Consumed(bucket, scopes, who)
BY DEF ConsumedAll

Counts == \E who : \E scopes \in SUBSET DOMAIN Policies :
            bucket' = Consumed(bucket, scopes, who)

LEMMA BucketMoves ==
  ASSUME [Next]_vars
  PROVE  \/ UNCHANGED now /\ (UNCHANGED bucket \/ Counts \/ deleteExpiredRateLimitBuckets
                               \/ \E c \in Customers : clearLoginFailures(c))
         \/ TimePasses
<1>1. ASSUME NEW c \in Customers, protectLogin(c) \/ recordLoginFailure(c)
      PROVE  UNCHANGED now /\ Counts
  <2>1. /\ UNCHANGED now
        /\ \/ bucket' = Consumed(bucket, LoginIp, c)
           \/ bucket' = Consumed(bucket, Failures, c)
    BY <1>1 DEF protectLogin, recordLoginFailure, notShop
  <2>2. LoginIp \subseteq DOMAIN Policies /\ Failures \subseteq DOMAIN Policies
    BY PolicyAssumption
  <2>3. QED
    BY <2>1, <2>2 DEF Counts
<1>2. ASSUME NEW c \in Customers, clearLoginFailures(c)  PROVE UNCHANGED now
  BY <1>2 DEF clearLoginFailures, notShop
<1>3. ASSUME deleteExpiredRateLimitBuckets  PROVE UNCHANGED now
  BY <1>3 DEF deleteExpiredRateLimitBuckets, notShop
<1>4. CASE Selling
  BY <1>4
  DEF Selling, updateStore, createCategory, deleteCategory, createProduct, importCsvCatalog,
      updateProduct, deleteProduct, replaceProductOptions, updateOption, commitProductOptions,
      notMenu
<1>5. ASSUME NEW r \in Requests, arrives(r)  PROVE UNCHANGED now /\ Counts
  <2> DEFINE q == request[r]
             mine == IF q.kind = "QUOTE" THEN QuoteUser ELSE CreateUser
             shared == IF q.kind = "QUOTE" THEN QuoteIp ELSE CreateIp
  <2>1. bucket' = ConsumedAll(mine, shared, q.who) /\ UNCHANGED now
    BY <1>5 DEF arrives, notOrders
  <2>2. mine \cup shared \subseteq DOMAIN Policies
    BY PolicyAssumption
  <2> HIDE DEF mine, shared, q
  <2>3. PICK scopes \in SUBSET DOMAIN Policies :
          ConsumedAll(mine, shared, q.who) = Consumed(bucket, scopes, q.who)
    BY <2>2, AllCounted
  <2>4. QED
    BY <2>1, <2>3 DEF Counts
<1>6. ASSUME Buying, ~\E r \in Requests : arrives(r)  PROVE UNCHANGED <<now, bucket>>
  BY <1>6
  DEF Buying, addItem, updateQty, removeItem, choosesMethod, reopens, losesAnswer,
      deleteAddress, createAddress, refreshQuote, placeOrder, readsGroups, readsOptions,
      readsMatrix, createOnlinePayment, dies, createOrder, paymentEnds, notServer, notOrders
<1>7. CASE Amending
  BY <1>7
  DEF Amending, proposeAmendment, looksForPending, readsItems, insertsProposal,
      withdrawAmendment, storeUpdateOrderStatus, cancelsOrder, approveAmendment,
      rejectAmendment, notAmended
<1>8. CASE UNCHANGED vars
  BY <1>8 DEF vars
<1>9. QED
  BY <1>1, <1>2, <1>3, <1>4, <1>5, <1>6, <1>7, <1>8 DEF Next, Limiting

LEMMA Kept ==
  ASSUME LimitInv, NEW kept \in SUBSET DOMAIN bucket, bucket' = [k \in kept |-> bucket[k]],
         now' = now
  PROVE  /\ LimitInv'
         /\ \A s, c, e : /\ Ends(bucket, s, c, e)
                         /\ \A k \in RowsOf(bucket, s, c) : bucket[k].blocked = e => k \in kept
                         => Ends(bucket', s, c, e)
<1>1. LimitInv'
  BY DEF LimitInv, RowRight
<1>2. ASSUME NEW s, NEW c, NEW e, Ends(bucket, s, c, e),
             \A k \in RowsOf(bucket, s, c) : bucket[k].blocked = e => k \in kept
      PROVE  Ends(bucket', s, c, e)
  BY <1>2 DEF Ends, RowsOf
<1>3. QED
  BY <1>1, <1>2

LEMMA LimitStep ==
  ASSUME LimitInv, [Next]_vars
  PROVE  /\ LimitInv'
         /\ \A c \in Customers, s \in DOMAIN Policies :
              BlockEnd(bucket, s, c) > now'
                => Ends(bucket', s, c, BlockEnd(bucket, s, c)) \/ clearLoginFailures(c)
<1>1. now \in Nat
  BY DEF LimitInv
<1>2. CASE UNCHANGED <<now, bucket>>
  BY <1>2, BlockEndMeans DEF LimitInv, RowRight, Ends, RowsOf
<1>3. CASE UNCHANGED now /\ Counts
  BY <1>3, CountingRight, CountingKeepsEnd DEF Counts
<1>4. CASE UNCHANGED now /\ deleteExpiredRateLimitBuckets
  <2> DEFINE kept == {k \in DOMAIN bucket : bucket[k].expires > now}
  <2>1. bucket' = [k \in kept |-> bucket[k]] /\ now' = now
    BY <1>4 DEF deleteExpiredRateLimitBuckets
  <2>2. ASSUME NEW s, NEW c, NEW e \in Nat, e > now,
               NEW k \in RowsOf(bucket, s, c), bucket[k].blocked = e
        PROVE  k \in kept
    BY <1>1, <2>2 DEF LimitInv, RowRight, RowsOf
  <2>3. kept \in SUBSET DOMAIN bucket
    OBVIOUS
  <2> HIDE DEF kept
  <2>4. LimitInv'
    BY <2>1, <2>3, Kept
  <2>5. ASSUME NEW c, NEW s \in DOMAIN Policies, BlockEnd(bucket, s, c) > now
        PROVE  Ends(bucket', s, c, BlockEnd(bucket, s, c))
    <3>1. Ends(bucket, s, c, BlockEnd(bucket, s, c)) /\ BlockEnd(bucket, s, c) \in Nat
      BY <2>5, BlockEndMeans
    <3>2. QED
      BY <2>1, <2>2, <2>3, <2>5, <3>1, Kept
  <2>6. QED
    BY <1>4, <2>4, <2>5
<1>5. ASSUME NEW d \in Customers, UNCHANGED now, clearLoginFailures(d)
      PROVE  /\ LimitInv'
             /\ \A c \in Customers, s \in DOMAIN Policies :
                  BlockEnd(bucket, s, c) > now'
                    => Ends(bucket', s, c, BlockEnd(bucket, s, c)) \/ clearLoginFailures(c)
  <2> DEFINE kept == DOMAIN bucket \ UNION {RowsOf(bucket, s, d) : s \in Failures}
  <2>1. bucket' = [k \in kept |-> bucket[k]] /\ now' = now
    BY <1>5 DEF clearLoginFailures
  <2>2. ASSUME NEW s, NEW c, c # d, NEW k \in RowsOf(bucket, s, c)  PROVE k \in kept
    BY <2>2 DEF RowsOf
  <2>3. kept \in SUBSET DOMAIN bucket
    OBVIOUS
  <2> HIDE DEF kept
  <2>4. LimitInv'
    BY <2>1, <2>3, Kept
  <2>5. ASSUME NEW c, c # d, NEW s \in DOMAIN Policies, BlockEnd(bucket, s, c) > now
        PROVE  Ends(bucket', s, c, BlockEnd(bucket, s, c))
    BY <2>1, <2>2, <2>3, <2>5, BlockEndMeans, Kept
  <2>6. QED
    BY <1>5, <2>4, <2>5
<1>6. CASE TimePasses
  <2>1. now' \in Nat /\ now' > now /\ bucket' = bucket
    BY <1>6, InstantAssumption DEF TimePasses
  <2>2. ASSUME NEW k \in DOMAIN bucket  PROVE RowRight(k[1], bucket[k], now')
    <3>1. RowRight(k[1], bucket[k], now) /\ Longest(k[1]) \in Nat
      BY LongestType DEF LimitInv, RowRight
    <3>2. QED
      BY <1>1, <2>1, <3>1 DEF RowRight
  <2>3. LimitInv'
    BY <2>1, <2>2 DEF LimitInv, RowRight, Longest
  <2>4. ASSUME NEW c, NEW s \in DOMAIN Policies, BlockEnd(bucket, s, c) > now'
        PROVE  Ends(bucket', s, c, BlockEnd(bucket, s, c))
    <3>1. BlockEnd(bucket, s, c) > now
      BY <1>1, <2>1, <2>4, BlockEndMeans
    <3>2. QED
      BY <2>1, <3>1, BlockEndMeans
  <2>5. QED
    BY <2>3, <2>4
<1>7. QED
  BY <1>2, <1>3, <1>4, <1>5, <1>6, BucketMoves

(* However attempts overlap, windows end and rows are deleted: a block ends    *)
(* when it was to end, unless a login succeeds before (consume).               *)
THEOREM BlocksEndOnTime == Spec => BlockEndsOnTime
<1>1. LimitInv /\ [Next]_vars
        => [\A c \in Customers, s \in DOMAIN Policies :
              BlockEnd(bucket, s, c) > now'
                => BlockEnd(bucket, s, c)' = BlockEnd(bucket, s, c) \/ clearLoginFailures(c)]_vars
  <2> SUFFICES ASSUME LimitInv, [Next]_vars, NEW c \in Customers, NEW s \in DOMAIN Policies,
                      BlockEnd(bucket, s, c) > now', ~clearLoginFailures(c)
               PROVE  BlockEnd(bucket, s, c)' = BlockEnd(bucket, s, c)
    OBVIOUS
  <2>1. Ends(bucket', s, c, BlockEnd(bucket, s, c)) /\ now' \in Nat
    BY LimitStep DEF LimitInv
  <2>2. QED
    BY <2>1, EndStays, BlockEndMeans
<1>2. LimitInv /\ [Next]_vars => LimitInv'
  BY LimitStep
<1>3. QED
  BY <1>1, <1>2, LimitInit, PTL DEF Spec, BlockEndsOnTime

-----------------------------------------------------------------------------
(* Types.  What a customer chooses of a product, and a cart.                   *)
ChosenOptions == {{<<t, x[1], x[2]>> : x \in choice} : t \in Trees, choice \in Picks}
CartItems == [product : Products, chosen : ChosenOptions, quantity : 1..2, unit : Nat]

ProductTyped(row, categories) == IsRow(row) => row \in ProductRows /\ row.category \in categories
TreeTyped(x) == x # None => x \in TreeRows

(* Whatever hangs on a product, the product is there.                          *)
ShopTyped ==
  /\ store \in StoreRows /\ category \subseteq Categories
  /\ product = [p \in Products |-> product[p]]
  /\ \A p \in Products : ProductTyped(product[p], category)
  /\ \A t \in Trees : TreeTyped(tree[t])
  /\ \A t \in Trees : live(t) => IsRow(product[tree[t].product])
  /\ \A r \in replacing : /\ r.product \in Products /\ IsRow(product[r.product])
                          /\ \A u \in r.deletes : tree[u] # None

PagesTyped ==
  /\ address \in [Customers -> Price]
  /\ \A c \in Customers : page[c].items \in Seq(CartItems)

(* What a request holds, as it reads on.                                       *)
GroupsTyped(groups) ==
  DOMAIN groups \subseteq Trees /\ \A t \in DOMAIN groups : groups[t] \in Seq(GroupRows)
ItemsTyped(items) == IsFiniteSet(DOMAIN items) /\ \A i \in DOMAIN items : items[i] \in OrderItems
QuoteTyped(x) == ItemsTyped(x.items) /\ x.subtotal \in Nat /\ x.fee \in Nat

Reading == {"GROUPS", "OPTIONS", "MATRIX"}
RequestTyped(q) ==
  /\ q.at \in {"ARRIVES", "INSERTS", "PAYS"} \cup Reading
  /\ q.who \in Customers /\ q.items \in Seq(CartItems)
  /\ q.at \in Reading =>
       q.store \in StoreRows /\ \A i \in DOMAIN q.items : ProductTyped(q.rows[i], Categories)
  /\ q.at \in Reading \ {"GROUPS"} =>
       DOMAIN q.groups = DOMAIN q.items /\ \A i \in DOMAIN q.items : GroupsTyped(q.groups[i])
  /\ q.at \in {"INSERTS", "PAYS"} => QuoteTyped(q.quote)

RequestsTyped == \A r \in Requests : Waiting(r) => RequestTyped(request[r])

OrderTyped(x) ==
  /\ x.status \in {"AWAITING_PAYMENT", "PENDING", "ACCEPTED", "PREPARING", "READY", "CANCELLED"}
  /\ x.total \in Nat /\ x.refund \in Nat /\ x.fee \in Nat /\ ItemsTyped(x.items)
  /\ x.status = "AWAITING_PAYMENT" => x.payment.status = "PENDING"

OrdersTyped == \A o \in Orders : Placed(o) => OrderTyped(order[o])

AmendmentFields == {"order", "status", "changes", "total", "refund"}
AmendmentTyped(x) ==
  /\ DOMAIN x = AmendmentFields
  /\ x.status \in {"PROPOSED", "APPROVED", "REJECTED", "EXPIRED"}
  /\ x.order \in Orders /\ Placed(x.order)
  /\ x.total \in Nat /\ x.refund \in Int
  /\ \A i \in DOMAIN x.changes : x.changes[i] \in 0..1

TabletFields == {"at", "order", "total", "fee", "row"}
TabletTyped(x) ==
  x.at # "NONE" =>
    /\ DOMAIN x = TabletFields /\ x.order \in Orders /\ Placed(x.order)
    /\ x.total \in Nat /\ x.fee \in Nat
    /\ x.at = "INSERTS" => AmendmentTyped(x.row)

ProposalsTyped ==
  /\ amendment = [a \in Amendments |-> amendment[a]]
  /\ \A a \in Amendments : amendment[a] # None => AmendmentTyped(amendment[a])
  /\ tablet = [t \in Tablets |-> tablet[t]]
  /\ \A t \in Tablets : TabletTyped(tablet[t])

TypeInv ==
  /\ now \in Instants
  /\ ShopTyped /\ PagesTyped /\ RequestsTyped /\ OrdersTyped /\ ProposalsTyped

LEMMA Element == ASSUME NEW S, NEW s \in Seq(S), NEW i \in DOMAIN s  PROVE s[i] \in S
OBVIOUS

(* Prices.                                                                     *)
LEMMA MaxNat ==
  ASSUME NEW T \in SUBSET Nat, IsFiniteSet(T), T # {}  PROVE Max(T) \in Nat
<1>1. \E t \in T : \A u \in T : t >= u
  BY LargestFinite
<1>2. QED
  BY <1>1 DEF Max

Addons(groups, S) == SumOver(S, LAMBDA o : OptionOf(groups, o).price)

LEMMA AddonsAddUp ==
  ASSUME NEW groups, NEW S, IsFiniteSet(S), \A o \in S : OptionOf(groups, o).price \in Nat
  PROVE  Addons(groups, S) \in Nat
<1> DEFINE f == [o \in S |-> OptionOf(groups, o).price]
           adds(h) == h = [t \in SUBSET S |->
                             IF t = {} THEN 0
                             ELSE LET x == CHOOSE x \in t : TRUE
                                  IN OptionOf(groups, x).price + h[t \ {x}]]
           sum == CHOOSE h : adds(h)
<1>1. \A t \in SUBSET S : t # {} => f[Pick(t)] = OptionOf(groups, Pick(t)).price
  BY Picked
<1>2. \A x \in S : f[x] \in Nat
  OBVIOUS
<1> HIDE DEF f
<1>3. ASSUME NEW h  PROVE adds(h) <=> AddsUp(h, f, S)
  BY <1>1 DEF AddsUp, Pick
<1>4. Addons(groups, S) = sum[S]
  BY DEF Addons, SumOver, MapThenSumSet, MapThenFoldSet
<1>5. \E h : AddsUp(h, f, S)
  BY SumExists
<1> HIDE DEF adds
<1>6. AddsUp(sum, f, S)
  BY <1>3, <1>5
<1> HIDE DEF sum
<1>7. sum[S] \in Nat
  BY <1>2, <1>6, SumNat
<1>8. QED
  BY <1>4, <1>7

LEMMA SelectedTyped ==
  ASSUME NEW row, NEW groups, NEW chosen, GroupsTyped(groups), Selectable(row, groups, chosen)
  PROVE  \A o \in chosen : /\ OptionOf(groups, o).price \in Price
                           /\ OptionOf(groups, o).matrix \in Seq(Price)
<1> SUFFICES ASSUME NEW o \in chosen
             PROVE  /\ OptionOf(groups, o).price \in Price
                    /\ OptionOf(groups, o).matrix \in Seq(Price)
  OBVIOUS
<1>1. /\ o[1] \in DOMAIN groups /\ o[2] \in DOMAIN groups[o[1]]
      /\ o[3] \in DOMAIN GroupOf(groups, o).options
  BY DEF Selectable
<1>2. groups[o[1]] \in Seq(GroupRows)
  BY <1>1 DEF GroupsTyped
<1>3. GroupOf(groups, o) \in GroupRows
  BY <1>1, <1>2 DEF GroupOf
<1>4. GroupOf(groups, o).options \in Seq([price : Price, available : BOOLEAN, matrix : Seq(Price)])
  BY <1>3 DEF GroupRows
<1>5. OptionOf(groups, o) \in [price : Price, available : BOOLEAN, matrix : Seq(Price)]
  BY <1>1, <1>4, Element DEF OptionOf
<1>6. QED
  BY <1>5

LEMMA VariationPriceType ==
  ASSUME NEW row \in ProductRows, NEW groups, NEW chosen,
         \A o \in chosen : OptionOf(groups, o).price \in Price
  PROVE  VariationPrice(row, groups, chosen) \in Nat
<1> DEFINE prices == {OptionOf(groups, o).price : o \in Of(groups, chosen, "VARIATION")} \ {None}
<1>1. prices \subseteq Nat
  BY DEF Of, Price
<1>2. row.base \in Nat
  BY DEF ProductRows
<1>3. VariationPrice(row, groups, chosen) =
        IF prices = {} THEN row.base ELSE CHOOSE price \in prices : TRUE
  BY DEF VariationPrice
<1> HIDE DEF prices
<1>4. prices # {} => (CHOOSE price \in prices : TRUE) \in prices
  OBVIOUS
<1>5. QED
  BY <1>1, <1>2, <1>3, <1>4

LEMMA FlavorPriceType ==
  ASSUME NEW row \in ProductRows, NEW groups, NEW chosen, NEW f \in chosen,
         \A o \in chosen : OptionOf(groups, o).price \in Price,
         OptionOf(groups, f).matrix \in Seq(Price)
  PROVE  FlavorPrice(row, groups, chosen, f) \in Nat
<1> DEFINE matrix == OptionOf(groups, f).matrix
           price == OptionOf(groups, f).price
           ofVariation == {matrix[v[3]] : v \in {x \in Of(groups, chosen, "VARIATION") :
                                                   x[3] \in DOMAIN matrix}}
           known == ofVariation \ {None}
<1>1. known \subseteq Nat
  BY DEF Price
<1>2. FlavorPrice(row, groups, chosen, f) =
        IF known # {} THEN CHOOSE p \in known : TRUE
        ELSE IF price # None THEN price ELSE VariationPrice(row, groups, chosen)
  BY DEF FlavorPrice
<1>3. price \in Price /\ VariationPrice(row, groups, chosen) \in Nat
  BY VariationPriceType
<1> HIDE DEF known, price
<1>4. known # {} => (CHOOSE p \in known : TRUE) \in known
  OBVIOUS
<1>5. QED
  BY <1>1, <1>2, <1>3, <1>4 DEF Price

LEMMA ItemPriceType ==
  ASSUME NEW row \in ProductRows, NEW groups, NEW chosen, IsFiniteSet(chosen),
         GroupsTyped(groups), Selectable(row, groups, chosen)
  PROVE  calcItemPrice(row, groups, chosen) \in Nat
<1> DEFINE ofFlavor == Of(groups, chosen, "FLAVOR")
           price(f) == FlavorPrice(row, groups, chosen, f)
           flavors == {price(f) : f \in ofFlavor}
           addons == {o \in Of(groups, chosen, "ADDON") : OptionOf(groups, o).price # None}
           extra == Addons(groups, addons)
<1>1. \A o \in chosen : /\ OptionOf(groups, o).price \in Price
                        /\ OptionOf(groups, o).matrix \in Seq(Price)
  BY SelectedTyped
<1>2. VariationPrice(row, groups, chosen) \in Nat
  BY <1>1, VariationPriceType
<1>3. \A f \in ofFlavor : price(f) \in Nat
  BY <1>1, FlavorPriceType DEF Of
<1>4. IsFiniteSet(ofFlavor) /\ IsFiniteSet(addons)
  BY FS_Subset DEF Of
<1>5. extra \in Nat
  <2>1. \A o \in addons : OptionOf(groups, o).price \in Nat
    BY <1>1 DEF Of, Price
  <2> HIDE DEF addons
  <2>2. QED
    BY <1>4, <2>1, AddonsAddUp
<1>6. flavors # {} => Max(flavors) \in Nat
  <2> DEFINE value == [f \in ofFlavor |-> price(f)]
  <2>1. flavors = {value[f] : f \in ofFlavor} /\ flavors \in SUBSET Nat
    BY <1>3
  <2>2. value = [f \in ofFlavor |-> value[f]]
    OBVIOUS
  <2> HIDE DEF value, flavors, ofFlavor
  <2>3. IsFiniteSet(flavors)
    BY <1>4, <2>1, <2>2, FiniteValues
  <2>4. QED
    BY <2>1, <2>3, MaxNat
<1>7. calcItemPrice(row, groups, chosen) =
        (IF flavors # {} THEN Max(flavors) ELSE VariationPrice(row, groups, chosen)) + extra
  BY DEF calcItemPrice, Addons
<1> HIDE DEF flavors, extra
<1>8. QED
  BY <1>2, <1>5, <1>6, <1>7

LEMMA FeeType ==
  ASSUME NEW s \in StoreRows, NEW distance \in Nat
  PROVE  calcDeliveryFee(s.fee, distance) \in Price
<1> DEFINE cfg == s.fee
           halves == (distance + 4) \div 5
           perKm == (cfg.perKm * halves + 1) \div 2
<1>1. cfg.fixed \in Price /\ cfg.minFee \in Price /\ cfg.perKm \in Price
  BY DEF StoreRows
<1>2. halves \in Nat
  OBVIOUS
<1>3. \/ calcDeliveryFee(cfg, distance) \in {cfg.fixed, None}
      \/ /\ cfg.perKm # None
         /\ calcDeliveryFee(cfg, distance) = Max({perKm} \cup ({cfg.minFee} \ {None}))
  BY DEF calcDeliveryFee
<1> HIDE DEF halves, cfg
<1>4. ASSUME cfg.perKm # None  PROVE Max({perKm} \cup ({cfg.minFee} \ {None})) \in Nat
  <2>1. cfg.perKm \in Nat
    BY <1>1, <1>4 DEF Price
  <2>2. cfg.perKm * halves \in Nat
    BY <1>2, <2>1
  <2>3. perKm \in Nat
    BY <2>2
  <2> DEFINE T == {perKm} \cup ({cfg.minFee} \ {None})
  <2> HIDE DEF perKm
  <2>4. T \in SUBSET Nat /\ T # {}
    BY <1>1, <2>3 DEF Price
  <2>5. IsFiniteSet({perKm}) /\ IsFiniteSet({cfg.minFee} \ {None})
    BY FS_Singleton, FS_Difference
  <2>6. IsFiniteSet(T)
    BY <2>5, FS_Union
  <2> HIDE DEF T
  <2>7. Max(T) \in Nat
    BY <2>4, <2>6, MaxNat
  <2>8. QED
    BY <2>7 DEF T
<1>5. QED
  BY <1>1, <1>3, <1>4 DEF Price, cfg

LEMMA ChosenFinite == ASSUME NEW chosen \in ChosenOptions  PROVE IsFiniteSet(chosen)
<1>1. PICK t \in Trees, choice \in Picks : chosen = {<<t, x[1], x[2]>> : x \in choice}
  BY DEF ChosenOptions
<1> DEFINE f == [x \in choice |-> <<t, x[1], x[2]>>]
<1>2. f = [x \in choice |-> f[x]] /\ chosen = {f[x] : x \in choice}
  BY <1>1
<1>3. IsFiniteSet(choice)
  BY StartAssumption
<1> HIDE DEF f
<1>4. QED
  BY <1>2, <1>3, FiniteValues

(* What quoteOrder makes of what a request has read.                           *)
PriceOf(q, groups, i) == calcItemPrice(q.rows[i], groups[i], q.items[i].chosen)
Subtotal(q, groups, S) ==
  SumOver(S, LAMBDA i : calcItemPrice(q.rows[i], groups[i], q.items[i].chosen) * q.items[i].quantity)

LEMMA QuoteAddsUp ==
  ASSUME NEW q, NEW groups, NEW S, IsFiniteSet(S),
         \A i \in S : PriceOf(q, groups, i) * q.items[i].quantity \in Nat
  PROVE  Subtotal(q, groups, S) \in Nat
<1> DEFINE f == [i \in S |-> PriceOf(q, groups, i) * q.items[i].quantity]
           adds(h) == h = [t \in SUBSET S |->
                             IF t = {} THEN 0
                             ELSE LET x == CHOOSE x \in t : TRUE
                                  IN PriceOf(q, groups, x) * q.items[x].quantity + h[t \ {x}]]
           sum == CHOOSE h : adds(h)
<1>1. \A t \in SUBSET S : t # {} =>
        f[Pick(t)] = PriceOf(q, groups, Pick(t)) * q.items[Pick(t)].quantity
  BY Picked
<1>2. \A x \in S : f[x] \in Nat
  OBVIOUS
<1> HIDE DEF f
<1>3. ASSUME NEW h  PROVE adds(h) <=> AddsUp(h, f, S)
  BY <1>1 DEF AddsUp, Pick
<1>4. Subtotal(q, groups, S) = sum[S]
  BY DEF Subtotal, PriceOf, SumOver, MapThenSumSet, MapThenFoldSet
<1>5. \E h : AddsUp(h, f, S)
  BY SumExists
<1> HIDE DEF adds
<1>6. AddsUp(sum, f, S)
  BY <1>3, <1>5
<1> HIDE DEF sum
<1>7. sum[S] \in Nat
  BY <1>2, <1>6, SumNat
<1>8. QED
  BY <1>4, <1>7

LEMMA SequencesEnd == ASSUME NEW S, NEW s \in Seq(S)  PROVE IsFiniteSet(DOMAIN s)
<1>1. DOMAIN s = 1..Len(s) /\ Len(s) \in Nat
  OBVIOUS
<1>2. QED
  BY <1>1, FS_Interval

LEMMA QuoteType ==
  ASSUME PagesTyped, NEW q, NEW groups, q.who \in Customers, q.items \in Seq(CartItems),
         q.store \in StoreRows,
         \A i \in DOMAIN q.items : ProductTyped(q.rows[i], Categories) /\ GroupsTyped(groups[i])
  PROVE  QuoteTyped(quoteOrder(q, groups))
<1> DEFINE valid == {i \in DOMAIN q.items : Selectable(q.rows[i], groups[i], q.items[i].chosen)}
           quote == quoteOrder(q, groups)
           fee == IF address[q.who] = None THEN None
                  ELSE calcDeliveryFee(q.store.fee, address[q.who])
<1>1. ASSUME NEW i \in valid
      PROVE  PriceOf(q, groups, i) \in Nat /\ q.items[i].quantity \in Nat
  <2>1. q.items[i] \in CartItems
    BY Element
  <2>2. q.items[i].chosen \in ChosenOptions /\ q.items[i].quantity \in Nat
    BY <2>1 DEF CartItems
  <2>3. IsFiniteSet(q.items[i].chosen)
    BY <2>2, ChosenFinite
  <2>4. Selectable(q.rows[i], groups[i], q.items[i].chosen) /\ GroupsTyped(groups[i])
    OBVIOUS
  <2>5. q.rows[i] \in ProductRows
    BY <2>4 DEF ProductTyped, Selectable
  <2>6. QED
    BY <2>2, <2>3, <2>4, <2>5, ItemPriceType DEF PriceOf
<1>2. IsFiniteSet(valid)
  BY SequencesEnd, FS_Subset
<1>3. /\ quote.items = [i \in valid |-> [unit |-> PriceOf(q, groups, i),
                                         quantity |-> q.items[i].quantity]]
      /\ quote.subtotal = Subtotal(q, groups, valid)
      /\ quote.fee = IF fee = None THEN 0 ELSE fee
  BY DEF quoteOrder, PriceOf, Subtotal
<1> HIDE DEF valid, quote
<1>4. ItemsTyped(quote.items)
  BY <1>1, <1>2, <1>3 DEF ItemsTyped, OrderItems
<1>5. quote.subtotal \in Nat
  <2>1. \A i \in valid : PriceOf(q, groups, i) * q.items[i].quantity \in Nat
    <3> SUFFICES ASSUME NEW x \in Nat, NEW y \in Nat  PROVE x * y \in Nat
      BY <1>1
    <3>1. QED
      OBVIOUS
  <2>2. QED
    BY <1>2, <1>3, <2>1, QuoteAddsUp
<1>6. quote.fee \in Nat
  <2>1. fee \in Price
    <3>1. address[q.who] \in Price
      BY DEF PagesTyped
    <3>2. QED
      BY <3>1, FeeType DEF Price
  <2> HIDE DEF fee
  <2>2. QED
    BY <1>3, <2>1 DEF Price
<1>7. QED
  BY <1>4, <1>5, <1>6 DEF QuoteTyped, quote

(* What a proposal makes of an order's items.                                  *)
LEMMA SubtotalType == ASSUME NEW items, ItemsTyped(items)  PROVE SubtotalOf(items) \in Nat
<1> DEFINE S == DOMAIN items
           f == [i \in S |-> items[i].unit * items[i].quantity]
           adds(h) == h = [t \in SUBSET S |->
                             IF t = {} THEN 0
                             ELSE LET x == CHOOSE x \in t : TRUE
                                  IN items[x].unit * items[x].quantity + h[t \ {x}]]
           sum == CHOOSE h : adds(h)
<1>1. IsFiniteSet(S)
  BY DEF ItemsTyped
<1>2. \A t \in SUBSET S : t # {} =>
        f[Pick(t)] = items[Pick(t)].unit * items[Pick(t)].quantity
  BY Picked
<1>3. \A x \in S : f[x] \in Nat
  <2> SUFFICES ASSUME NEW x \in S  PROVE items[x].unit * items[x].quantity \in Nat
    OBVIOUS
  <2>1. items[x].unit \in Nat /\ items[x].quantity \in Nat
    BY DEF ItemsTyped, OrderItems
  <2>2. QED
    BY <2>1
<1>4. SubtotalOf(items) = sum[S]
  BY DEF SubtotalOf, SumOver, MapThenSumSet, MapThenFoldSet
<1> HIDE DEF f
<1>5. ASSUME NEW h  PROVE adds(h) <=> AddsUp(h, f, S)
  BY <1>2 DEF AddsUp, Pick
<1> HIDE DEF S
<1>6. \E h : AddsUp(h, f, S)
  BY <1>1, SumExists
<1> HIDE DEF adds
<1>7. AddsUp(sum, f, S)
  BY <1>5, <1>6
<1> HIDE DEF sum
<1>8. sum[S] \in Nat
  BY <1>1, <1>3, <1>7, SumNat
<1>9. QED
  BY <1>4, <1>8

LEMMA AmendedTyped ==
  ASSUME NEW items, ItemsTyped(items), NEW changes, \A i \in DOMAIN changes : changes[i] \in 0..1
  PROVE  ItemsTyped(Amended(items, changes))
<1> DEFINE kept == {j \in DOMAIN items : j \in DOMAIN changes => changes[j] > 0}
           new == Amended(items, changes)
<1>1. IsFiniteSet(kept)
  BY FS_Subset DEF ItemsTyped
<1>2. new = [i \in kept |-> IF i \in DOMAIN changes THEN [items[i] EXCEPT !.quantity = changes[i]]
                            ELSE items[i]]
  BY DEF Amended
<1>3. \A i \in kept : items[i] \in OrderItems
  BY DEF ItemsTyped
<1>4. \A i \in kept : i \in DOMAIN changes => [items[i] EXCEPT !.quantity = changes[i]] \in OrderItems
  BY <1>3 DEF OrderItems
<1> HIDE DEF kept, new
<1>5. DOMAIN new = kept /\ \A i \in kept : new[i] \in OrderItems
  BY <1>2, <1>3, <1>4
<1>6. QED
  BY <1>1, <1>5 DEF ItemsTyped, new

LEMMA TypeInit == Init => TypeInv
<1> SUFFICES ASSUME Init  PROVE TypeInv
  OBVIOUS
<1>1. PICK s \in Scenarios :
        /\ store = s.store /\ category = s.category /\ product = s.product
        /\ tree = [t \in Trees |-> IF t \in DOMAIN s.tree THEN s.tree[t] ELSE None]
        /\ order = [o \in Orders |-> IF o \in DOMAIN s.order THEN s.order[o] ELSE NoOrder]
  BY DEF Init
<1>2. now \in Instants
  BY InstantAssumption DEF Init
<1>3. ShopTyped
  <2>1. store \in StoreRows /\ category \subseteq Categories
    BY <1>1, StartAssumption
  <2>2. /\ product \in [Products -> ProductRows \cup {None}]
        /\ \A p \in Products : product[p] # None => product[p].category \in category
    BY <1>1, StartAssumption
  <2>3. \A p \in Products : ProductTyped(product[p], category)
    BY <2>2 DEF ProductTyped, IsRow
  <2>4. ASSUME NEW t \in Trees, tree[t] # None
        PROVE  tree[t] \in TreeRows /\ product[tree[t].product] # None
    <3>1. t \in DOMAIN s.tree /\ tree[t] = s.tree[t]
      BY <1>1, <2>4
    <3>2. QED
      BY <1>1, <3>1, StartAssumption
  <2>5. \A t \in Trees : TreeTyped(tree[t])
    BY <2>4 DEF TreeTyped
  <2>6. \A t \in Trees : live(t) => IsRow(product[tree[t].product])
    BY <2>2, <2>4, NoneAssumption DEF live, IsRow, TreeRows
  <2>7. replacing = {}
    BY DEF Init
  <2>8. QED
    BY <2>1, <2>2, <2>3, <2>5, <2>6, <2>7 DEF ShopTyped
<1>4. PagesTyped
  <2>1. address \in [Customers -> Price]
    BY DEF Init, Price
  <2>2. \A c \in Customers : page[c] = NewVisit(1)
    BY DEF Init
  <2>3. NewVisit(1).items = <<>> /\ <<>> \in Seq(CartItems)
    BY DEF NewVisit
  <2>4. QED
    BY <2>1, <2>2, <2>3 DEF PagesTyped
<1>5. RequestsTyped
  BY DEF Init, RequestsTyped, Waiting, NoRequest
<1>6. OrdersTyped
  <2> SUFFICES ASSUME NEW o \in Orders, Placed(o)  PROVE OrderTyped(order[o])
    BY DEF OrdersTyped
  <2>1. o \in DOMAIN s.order /\ order[o] = s.order[o]
    BY <1>1 DEF Placed, NoOrder
  <2>2. /\ order[o].status \in {"PENDING", "ACCEPTED", "PREPARING", "READY", "CANCELLED"}
        /\ order[o].items \in Seq(OrderItems)
        /\ order[o].fee \in Nat /\ order[o].total \in Nat /\ order[o].refund \in Nat
    BY <2>1, StartAssumption
  <2>3. ItemsTyped(order[o].items)
    BY <2>2, SequencesEnd, Element DEF ItemsTyped
  <2>4. QED
    BY <2>2, <2>3 DEF OrderTyped
<1>7. ProposalsTyped
  BY DEF Init, ProposalsTyped, TabletTyped, NoProposal
<1>8. QED
  BY <1>2, <1>3, <1>4, <1>5, <1>6, <1>7 DEF TypeInv

(* What a step leaves alone keeps its type.                                    *)
LEMMA ShopSame == ASSUME ShopTyped, UNCHANGED menu  PROVE ShopTyped'
BY DEF ShopTyped, menu, live

LEMMA PagesSame == ASSUME PagesTyped, UNCHANGED browser  PROVE PagesTyped'
BY DEF PagesTyped, browser

LEMMA RequestsSame == ASSUME RequestsTyped, UNCHANGED request  PROVE RequestsTyped'
BY DEF RequestsTyped, Waiting

LEMMA OrdersSameTyped == ASSUME OrdersTyped, UNCHANGED order  PROVE OrdersTyped'
BY DEF OrdersTyped, Placed

LEMMA StaysTyped ==
  ASSUME OrdersGoOn, NEW x, AmendmentTyped(x)  PROVE AmendmentTyped(x)'
<1>1. Placed(x.order)'
  BY DEF AmendmentTyped, OrdersGoOn
<1>2. QED
  BY <1>1 DEF AmendmentTyped

LEMMA TabletStays == ASSUME OrdersGoOn, NEW x, TabletTyped(x)  PROVE TabletTyped(x)'
<1> SUFFICES ASSUME x.at # "NONE"
             PROVE  /\ DOMAIN x = TabletFields /\ x.order \in Orders /\ Placed(x.order)'
                    /\ x.total \in Nat /\ x.fee \in Nat
                    /\ x.at = "INSERTS" => AmendmentTyped(x.row)'
  BY DEF TabletTyped
<1>1. Placed(x.order)'
  BY DEF TabletTyped, OrdersGoOn
<1>2. x.at = "INSERTS" => AmendmentTyped(x.row)'
  BY StaysTyped DEF TabletTyped
<1>3. QED
  BY <1>1, <1>2 DEF TabletTyped

LEMMA ProposalsSame ==
  ASSUME ProposalsTyped, OrdersGoOn, UNCHANGED <<amendment, tablet>>  PROVE ProposalsTyped'
<1>1. \A a \in Amendments : amendment[a] # None => AmendmentTyped(amendment[a])'
  BY StaysTyped DEF ProposalsTyped
<1>2. \A t \in Tablets : TabletTyped(tablet[t])'
  BY TabletStays DEF ProposalsTyped
<1>3. QED
  BY <1>1, <1>2 DEF ProposalsTyped

(* The store's rows.                                                           *)
LEMMA Replaced ==
  ASSUME NEW S, NEW s \in Seq(S), NEW i \in DOMAIN s, NEW x \in S
  PROVE  [s EXCEPT ![i] = x] \in Seq(S)
OBVIOUS

LEMMA ProductIsRow == \A row \in ProductRows : IsRow(row)
BY NoneAssumption DEF IsRow

LEMMA UpdateStoreTyped == ASSUME ShopTyped, updateStore  PROVE ShopTyped'
<1>1. UNCHANGED <<category, product, tree, replacing>>
  BY DEF updateStore
<1>2. store \in StoreRows
  BY DEF ShopTyped
<1>3. store' \in StoreRows
  <2>1. CASE store' = [store EXCEPT !.paused = ~store.paused]
    BY <1>2, <2>1 DEF StoreRows
  <2>2. ASSUME NEW min \in {None, 20}, store' = [store EXCEPT !.minOrder = min]
        PROVE  store' \in StoreRows
    <3>1. min \in Price
      BY DEF Price
    <3>2. QED
      BY <1>2, <2>2, <3>1 DEF StoreRows
  <2>3. ASSUME NEW fixed \in {None, 5},
               store' = [store EXCEPT !.fee.mode = "FIXED", !.fee.fixed = fixed]
        PROVE  store' \in StoreRows
    <3>1. fixed \in Price
      BY DEF Price
    <3> DEFINE fee == [store.fee EXCEPT !.mode = "FIXED", !.fixed = fixed]
    <3>2. store' = [store EXCEPT !.fee = fee]
      BY <1>2, <2>3 DEF StoreRows
    <3>3. fee \in [mode : {"FIXED", "DISTANCE"}, fixed : Price, minFee : Price, perKm : Price,
                   maxKm : Price]
      BY <1>2, <3>1 DEF StoreRows
    <3> HIDE DEF fee
    <3>4. QED
      BY <1>2, <3>2, <3>3 DEF StoreRows
  <2>4. QED
    BY <2>1, <2>2, <2>3 DEF updateStore
<1>4. QED
  BY <1>1, <1>3 DEF ShopTyped, live

LEMMA CategoriesTurn ==
  ASSUME ShopTyped, category' \subseteq Categories, UNCHANGED <<store, product, tree, replacing>>,
         \A p \in Products : IsRow(product[p]) => product[p].category \in category'
  PROVE  ShopTyped'
BY DEF ShopTyped, ProductTyped, live

LEMMA ProductsTurn ==
  ASSUME ShopTyped, category' \subseteq Categories, category \subseteq category',
         UNCHANGED <<store, tree, replacing>>, NEW p \in Products, NEW row \in ProductRows,
         row.category \in category', product' = [product EXCEPT ![p] = row]
  PROVE  ShopTyped'
<1>1. /\ \A q \in Products : product'[q] = IF q = p THEN row ELSE product[q]
      /\ product' = [q \in Products |-> product'[q]]
  BY DEF ShopTyped
<1>2. \A q \in Products : IsRow(product[q]) => IsRow(product'[q])
  BY <1>1, ProductIsRow
<1>3. \A q \in Products : ProductTyped(product'[q], category')
  BY <1>1 DEF ShopTyped, ProductTyped
<1>4. \A t \in Trees : live(t)' => IsRow(product'[tree[t].product])
  BY <1>2 DEF ShopTyped, TreeTyped, TreeRows, live
<1>5. \A r \in replacing : r.product \in Products /\ IsRow(product'[r.product])
  BY <1>2 DEF ShopTyped
<1>6. QED
  BY <1>1, <1>3, <1>4, <1>5 DEF ShopTyped, TreeTyped

LEMMA ProductStepsTyped ==
  ASSUME ShopTyped, NEW p \in Products,
         \/ \E k \in Categories : createProduct(p, k) \/ importCsvCatalog(p, k)
         \/ updateProduct(p)
  PROVE  ShopTyped'
<1>1. ASSUME NEW k \in Categories, createProduct(p, k) \/ importCsvCatalog(p, k)
      PROVE  ShopTyped'
  <2> DEFINE row == [category |-> k, base |-> 10, available |-> TRUE]
  <2>1. row \in ProductRows /\ row.category = k
    BY DEF ProductRows
  <2>2. /\ k \in category' /\ category' \subseteq Categories /\ category \subseteq category'
        /\ product' = [product EXCEPT ![p] = row] /\ UNCHANGED <<store, tree, replacing>>
    BY <1>1 DEF createProduct, importCsvCatalog, ShopTyped
  <2> HIDE DEF row
  <2>3. QED
    BY <2>1, <2>2, ProductsTurn
<1>2. CASE updateProduct(p)
  <2>1. product[p] \in ProductRows /\ product[p].category \in category
    BY <1>2 DEF updateProduct, ShopTyped, ProductTyped
  <2>2. UNCHANGED <<store, category, tree, replacing>> /\ category \subseteq Categories
    BY <1>2 DEF updateProduct, ShopTyped
  <2>3. ASSUME NEW row \in ProductRows, row.category \in category,
               product' = [product EXCEPT ![p] = row]
        PROVE  ShopTyped'
    BY <2>2, <2>3, ProductsTurn
  <2>4. CASE product' = [product EXCEPT ![p].available = ~product[p].available]
    <3> DEFINE row == [product[p] EXCEPT !.available = ~product[p].available]
    <3>1. row \in ProductRows /\ row.category \in category
      BY <2>1 DEF ProductRows
    <3>2. product' = [product EXCEPT ![p] = row]
      BY <2>4
    <3> HIDE DEF row
    <3>3. QED
      BY <2>3, <3>1, <3>2
  <2>5. ASSUME NEW base \in {10, 12}, product' = [product EXCEPT ![p].base = base]
        PROVE  ShopTyped'
    <3> DEFINE row == [product[p] EXCEPT !.base = base]
    <3>1. row \in ProductRows /\ row.category \in category
      BY <2>1 DEF ProductRows
    <3>2. product' = [product EXCEPT ![p] = row]
      BY <2>5
    <3> HIDE DEF row
    <3>3. QED
      BY <2>3, <3>1, <3>2
  <2>6. ASSUME NEW k \in category, product' = [product EXCEPT ![p].category = k]
        PROVE  ShopTyped'
    <3> DEFINE row == [product[p] EXCEPT !.category = k]
    <3>1. row \in ProductRows /\ row.category \in category
      BY <2>1, <2>2 DEF ProductRows
    <3>2. product' = [product EXCEPT ![p] = row]
      BY <2>6
    <3> HIDE DEF row
    <3>3. QED
      BY <2>3, <3>1, <3>2
  <2>7. QED
    BY <1>2, <2>4, <2>5, <2>6 DEF updateProduct
<1>3. QED
  BY <1>1, <1>2

LEMMA DeleteProductTyped ==
  ASSUME MenuInv, ShopTyped, NEW p \in Products, deleteProduct(p)  PROVE ShopTyped'
<1>1. /\ \A q \in Products : product'[q] = IF q = p THEN Gone ELSE product[q]
      /\ product' = [q \in Products |-> product'[q]]
  BY DEF deleteProduct, ShopTyped
<1>2. UNCHANGED <<store, category, replacing>> /\ \A r \in replacing : r.product # p
  BY DEF deleteProduct, NotReplacing
<1>3. \A t \in Trees : tree'[t] = IF t \in TreesOf(p) THEN [tree[t] EXCEPT !.live = FALSE]
                                   ELSE tree[t]
  BY DEF deleteProduct
<1>4. ASSUME NEW t \in TreesOf(p)
      PROVE  tree'[t] \in TreeRows /\ ~tree'[t].live
  <2>1. t \in Trees /\ tree[t] \in TreeRows
    BY DEF TreesOf, live, ShopTyped, TreeTyped
  <2>2. tree'[t] = [tree[t] EXCEPT !.live = FALSE]
    BY <1>3, <2>1
  <2>3. QED
    BY <2>1, <2>2 DEF TreeRows
<1>5. \A q \in Products : ProductTyped(product'[q], category)
  BY <1>1 DEF ShopTyped, ProductTyped, IsRow
<1>6. \A t \in Trees : TreeTyped(tree'[t])
  BY <1>3, <1>4 DEF ShopTyped, TreeTyped
<1>7. ASSUME NEW t \in Trees, live(t)'  PROVE IsRow(product'[tree'[t].product])
  <2>1. t \notin TreesOf(p) /\ tree'[t] = tree[t]
    BY <1>3, <1>4, <1>7 DEF live
  <2>2. live(t)
    BY <1>7, <2>1 DEF live
  <2>3. tree[t].product # p /\ tree[t].product \in Products
    BY <2>1, <2>2 DEF live, TreesOf, ShopTyped, TreeTyped, TreeRows
  <2>4. QED
    BY <1>1, <2>1, <2>2, <2>3 DEF ShopTyped
<1>8. ASSUME NEW r \in replacing
      PROVE  /\ r.product \in Products /\ IsRow(product'[r.product])
             /\ \A u \in r.deletes : tree'[u] # None
  <2>1. r.deletes \subseteq Trees
    BY DEF MenuInv
  <2>2. \A u \in Trees : tree[u] # None => tree'[u] # None
    BY <1>3, <1>4, NoneAssumption
  <2>3. QED
    BY <1>1, <1>2, <2>1, <2>2 DEF ShopTyped
<1>9. QED
  BY <1>1, <1>2, <1>5, <1>6, <1>7, <1>8 DEF ShopTyped

(* A step that changes trees, each to a row of the same product.               *)
LEMMA TreesTurn ==
  ASSUME MenuInv, ShopTyped, UNCHANGED <<store, category, product, replacing>>,
         NEW t \in Trees, live(t), NEW row \in TreeRows, row.product = tree[t].product,
         tree' = [tree EXCEPT ![t] = row]
  PROVE  ShopTyped'
<1>1. \A u \in Trees : tree'[u] = IF u = t THEN row ELSE tree[u]
  BY DEF MenuInv
<1>2. row # None /\ tree[t] # None
  BY NoneAssumption DEF live
<1>3. \A u \in Trees : TreeTyped(tree'[u])
  BY <1>1 DEF ShopTyped, TreeTyped
<1>4. \A u \in Trees : live(u)' => live(u) /\ tree'[u].product = tree[u].product
  BY <1>1 DEF live
<1>5. \A r \in replacing : \A u \in r.deletes : tree'[u] # None
  BY <1>1, <1>2 DEF ShopTyped, MenuInv
<1>6. QED
  BY <1>3, <1>4, <1>5 DEF ShopTyped

LEMMA UpdateOptionTyped ==
  ASSUME MenuInv, ShopTyped, NEW t \in Trees, NEW g, NEW o, updateOption(t, g, o)
  PROVE  ShopTyped'
<1> DEFINE OptionRows == [price : Price, available : BOOLEAN, matrix : Seq(Price)]
           groups == tree[t].groups
           group == groups[g]
           old == group.options[o]
<1>1. /\ live(t) /\ g \in DOMAIN groups /\ o \in DOMAIN group.options
      /\ UNCHANGED <<store, category, product, replacing>>
  BY DEF updateOption
<1>2. tree[t] \in TreeRows
  BY <1>1 DEF live, ShopTyped, TreeTyped
<1>3. groups \in Seq(GroupRows)
  BY <1>2 DEF TreeRows
<1>4. group \in GroupRows
  BY <1>1, <1>3, Element
<1>5. group.options \in Seq(OptionRows)
  BY <1>4 DEF GroupRows
<1>6. old \in OptionRows
  BY <1>1, <1>5, Element
<1>7. PICK new : /\ \/ new = [old EXCEPT !.available = ~old.available]
                    \/ \E price \in {None, 3} : new = [old EXCEPT !.price = price]
                 /\ tree' = [tree EXCEPT ![t] = WithOption(tree[t], g, o, new)]
  BY DEF updateOption
<1>8. new \in OptionRows
  <2>1. \A price \in {None, 3} : price \in Price
    BY DEF Price
  <2>2. QED
    BY <1>6, <1>7, <2>1
<1> DEFINE options == [group.options EXCEPT ![o] = new]
           changed == [group EXCEPT !.options = options]
           all == [groups EXCEPT ![g] = changed]
           row == [tree[t] EXCEPT !.groups = all]
<1>9. WithOption(tree[t], g, o, new) = row
  BY DEF WithOption
<1>10. options \in Seq(OptionRows)
  <2> HIDE DEF OptionRows
  <2>1. QED
    BY <1>1, <1>5, <1>8, Replaced
<1> HIDE DEF options
<1>11. changed \in GroupRows
  BY <1>4, <1>10 DEF GroupRows
<1> HIDE DEF changed
<1>12. all \in Seq(GroupRows)
  BY <1>1, <1>3, <1>11, Replaced
<1> HIDE DEF all
<1>13. row \in TreeRows /\ row.product = tree[t].product
  BY <1>2, <1>12 DEF TreeRows
<1> HIDE DEF row
<1>14. QED
  BY <1>1, <1>7, <1>9, <1>13, TreesTurn

LEMMA ReplaceTyped ==
  ASSUME ShopTyped, NEW t \in Tablets, NEW p \in Products, replaceProductOptions(t, p)
  PROVE  ShopTyped'
<1> DEFINE new == [by |-> t, product |-> p, deletes |-> TreesOf(p)]
<1>1. /\ replacing' = replacing \cup {new} /\ UNCHANGED <<store, category, product, tree>>
      /\ IsRow(product[p])
  BY DEF replaceProductOptions
<1>2. new.product = p /\ \A u \in new.deletes : tree[u] # None
  BY DEF TreesOf, live
<1> HIDE DEF new
<1>3. \A r \in replacing' : /\ r.product \in Products /\ IsRow(product[r.product])
                            /\ \A u \in r.deletes : tree[u] # None
  BY <1>1, <1>2 DEF ShopTyped
<1>4. QED
  BY <1>1, <1>3 DEF ShopTyped, live

LEMMA CommitTyped ==
  ASSUME MenuInv, ShopTyped, NEW r \in replacing, NEW t \in Trees, NEW groups \in Menus,
         commitProductOptions(r, t, groups)
  PROVE  ShopTyped'
<1> DEFINE new == [product |-> r.product, live |-> TRUE, groups |-> groups]
<1>1. /\ replacing' = replacing \ {r} /\ tree[t] = None
      /\ \A u \in Trees : tree'[u] = IF u = t THEN new
                                     ELSE IF u \in r.deletes THEN [tree[u] EXCEPT !.live = FALSE]
                                     ELSE tree[u]
      /\ UNCHANGED <<store, category, product>>
  BY DEF commitProductOptions, FreshTree
<1>2. r.product \in Products /\ IsRow(product[r.product]) /\ groups \in Seq(GroupRows)
  BY StartAssumption DEF ShopTyped
<1>3. new \in TreeRows /\ new.product = r.product
  BY <1>2 DEF TreeRows
<1> HIDE DEF new
<1>4. ASSUME NEW u \in Trees \ {t}, u \in r.deletes
      PROVE  tree'[u] \in TreeRows /\ ~tree'[u].live
  <2>1. tree[u] \in TreeRows
    BY <1>4 DEF ShopTyped, TreeTyped
  <2>2. tree'[u] = [tree[u] EXCEPT !.live = FALSE]
    BY <1>1, <1>4
  <2>3. QED
    BY <2>1, <2>2 DEF TreeRows
<1>5. \A u \in Trees : TreeTyped(tree'[u])
  BY <1>1, <1>3, <1>4 DEF ShopTyped, TreeTyped
<1>6. ASSUME NEW u \in Trees, live(u)'  PROVE IsRow(product'[tree'[u].product])
  <2>1. CASE u = t
    BY <1>1, <1>2, <1>3, <2>1
  <2>2. CASE u # t
    <3>1. u \notin r.deletes
      BY <1>4, <1>6, <2>2 DEF live
    <3>2. tree'[u] = tree[u]
      BY <1>1, <2>2, <3>1
    <3>3. live(u)
      BY <1>6, <3>2 DEF live
    <3>4. QED
      BY <1>1, <3>2, <3>3 DEF ShopTyped
  <2>3. QED
    BY <2>1, <2>2
<1>7. \A u \in Trees : tree[u] # None => tree'[u] # None
  BY <1>1, <1>4, NoneAssumption
<1>8. \A s \in replacing' : /\ s.product \in Products /\ IsRow(product'[s.product])
                            /\ \A u \in s.deletes : tree'[u] # None
  BY <1>1, <1>7 DEF ShopTyped, MenuInv
<1>9. QED
  BY <1>1, <1>5, <1>6, <1>8 DEF ShopTyped

LEMMA SellingTyped == ASSUME MenuInv, ShopTyped, Selling  PROVE ShopTyped'
<1>1. CASE updateStore
  BY <1>1, UpdateStoreTyped
<1>2. ASSUME NEW k \in Categories, createCategory(k) \/ deleteCategory(k)  PROVE ShopTyped'
  <2>1. UNCHANGED <<store, product, tree, replacing>>
    BY <1>2 DEF createCategory, deleteCategory
  <2>2. category' \subseteq Categories
    BY <1>2 DEF createCategory, deleteCategory, ShopTyped
  <2>3. \A p \in Products : IsRow(product[p]) => product[p].category \in category'
    BY <1>2 DEF createCategory, deleteCategory, ShopTyped, ProductTyped
  <2>4. QED
    BY <2>1, <2>2, <2>3, CategoriesTurn
<1>3. ASSUME NEW p \in Products, NEW k \in Categories, createProduct(p, k) \/ importCsvCatalog(p, k)
      PROVE  ShopTyped'
  BY <1>3, ProductStepsTyped
<1>4. ASSUME NEW p \in Products, updateProduct(p)  PROVE ShopTyped'
  BY <1>4, ProductStepsTyped
<1>5. ASSUME NEW p \in Products, deleteProduct(p)  PROVE ShopTyped'
  BY <1>5, DeleteProductTyped
<1>6. ASSUME NEW t \in Tablets, NEW p \in Products, replaceProductOptions(t, p)  PROVE ShopTyped'
  BY <1>6, ReplaceTyped
<1>7. ASSUME NEW t \in Trees, NEW g \in 1..2, NEW o \in 1..2, updateOption(t, g, o)  PROVE ShopTyped'
  BY <1>7, UpdateOptionTyped
<1>8. ASSUME NEW r \in replacing, NEW t \in Trees, NEW groups \in Menus,
             commitProductOptions(r, t, groups)
      PROVE  ShopTyped'
  BY <1>8, CommitTyped
<1>9. QED
  BY <1>1, <1>2, <1>3, <1>4, <1>5, <1>6, <1>7, <1>8 DEF Selling

(* The cart and the page.                                                      *)
LEMMA ItemsStay ==
  ASSUME NEW p, DOMAIN p = PageFields, NEW x, NEW n
  PROVE  /\ [p EXCEPT !.items = x].items = x
         /\ [p EXCEPT !.method = x].items = p.items
         /\ [p EXCEPT !.quote = x].items = p.items
         /\ [p EXCEPT !.waits = x].items = p.items
         /\ [p EXCEPT !.waits = x, !.attempt = n].items = p.items
BY DEF PageFields

LEMMA NewVisitItems ==
  ASSUME NEW n, NEW x
  PROVE  NewVisit(n).items = <<>> /\ [NewVisit(n) EXCEPT !.items = x].items = x
BY DEF NewVisit

LEMMA PageFieldsRight == ASSUME VisitInv, NEW c \in Customers  PROVE DOMAIN page[c] = PageFields
BY DEF VisitInv, PagesRight, PageRight

LEMMA PageShown ==
  ASSUME VisitInv, PagesTyped, UNCHANGED address, NEW c \in Customers, NEW new, Shows(c, new),
         new.items \in Seq(CartItems)
  PROVE  PagesTyped'
<1>1. \A k \in Customers : page'[k] = IF k = c THEN new ELSE page[k]
  BY DEF Shows, VisitInv, PagesRight
<1>2. QED
  BY <1>1 DEF PagesTyped

LEMMA AnsweredItems ==
  ASSUME PagesTyped, VisitInv, NEW c \in Customers, NEW r, NEW result
  PROVE  Answered(c, r, result).items \in Seq(CartItems)
<1> DEFINE p == page[c]
           q == Answered(c, r, result)
           retry == [p EXCEPT !.waits = None, !.attempt = @ + 1]
           stay == [p EXCEPT !.waits = None]
<1>1. p.items \in Seq(CartItems) /\ <<>> \in Seq(CartItems)
  BY DEF PagesTyped
<1>2. NewVisit(p.visit + 1).items = <<>>
  BY NewVisitItems
<1>3. retry.items = p.items /\ stay.items = p.items
  BY PageFieldsRight, ItemsStay
<1>4. q = IF p.waits # r THEN p
          ELSE IF result = "OK" THEN NewVisit(p.visit + 1)
          ELSE IF result = "PAYMENT_REJECTED" /\ p.method = "CARD_ONLINE" THEN retry
          ELSE stay
  BY DEF Answered
<1> HIDE DEF retry, stay, q, p
<1>5. q.items \in {p.items, <<>>}
  BY <1>2, <1>3, <1>4
<1>6. QED
  BY <1>1, <1>5 DEF q, p

LEMMA RequestTurns ==
  ASSUME VisitInv, RequestsTyped, NEW r \in Requests, NEW held,
         request' = [request EXCEPT ![r] = held], held.at = "NONE" \/ RequestTyped(held)
  PROVE  RequestsTyped'
<1>1. \A k \in Requests : request'[k] = IF k = r THEN held ELSE request[k]
  BY DEF VisitInv, RequestsRight
<1>2. QED
  BY <1>1 DEF RequestsTyped, Waiting

LEMMA AnswerTyped ==
  ASSUME VisitInv, PagesTyped, RequestsTyped, UNCHANGED address, NEW r \in Requests, Waiting(r),
         NEW result, Answer(r, result)
  PROVE  PagesTyped' /\ RequestsTyped'
<1> DEFINE who == request[r].who
           new == Answered(who, r, result)
<1>1. who \in Customers
  BY DEF RequestsTyped, RequestTyped
<1>2. Shows(who, new) /\ request' = [request EXCEPT ![r] = NoRequest]
  BY DEF Answer, Shows
<1>3. new.items \in Seq(CartItems)
  BY <1>1, AnsweredItems
<1>4. PagesTyped'
  <2> HIDE DEF new, who
  <2>1. QED
    BY <1>1, <1>2, <1>3, PageShown
<1>5. RequestsTyped'
  BY <1>2, RequestTurns DEF NoRequest
<1>6. QED
  BY <1>4, <1>5

LEMMA GroupsNowTyped == ASSUME ShopTyped, NEW p  PROVE GroupsTyped(GroupsNow(p))
<1> SUFFICES ASSUME NEW t \in TreesOf(p)  PROVE tree[t].groups \in Seq(GroupRows)
  BY DEF GroupsTyped, GroupsNow, TreesOf
<1>1. tree[t] \in TreeRows
  BY DEF TreesOf, live, ShopTyped, TreeTyped
<1>2. QED
  BY <1>1 DEF TreeRows

LEMMA AddItemTyped ==
  ASSUME VisitInv, ShopTyped, PagesTyped, NEW c \in Customers, NEW p \in Products,
         NEW chosen \in ChosenOptions, addItem(c, p, chosen)
  PROVE  PagesTyped'
<1> DEFINE unit == calcItemPrice(product[p], GroupsNow(p), chosen)
           item == [product |-> p, chosen |-> chosen, quantity |-> 1, unit |-> unit]
           items == Append(page[c].items, item)
           new == [page[c] EXCEPT !.items = items]
<1>1. Selectable(product[p], GroupsNow(p), chosen) /\ Shows(c, new) /\ UNCHANGED address
  BY DEF addItem
<1>2. product[p] \in ProductRows
  BY <1>1 DEF Selectable, ShopTyped, ProductTyped
<1>3. unit \in Nat
  BY <1>1, <1>2, ChosenFinite, GroupsNowTyped, ItemPriceType
<1> HIDE DEF unit
<1>4. item \in CartItems
  BY <1>3 DEF CartItems
<1> HIDE DEF item
<1>5. items \in Seq(CartItems)
  BY <1>4 DEF PagesTyped
<1> HIDE DEF items
<1>6. new.items = items
  BY PageFieldsRight, ItemsStay
<1> HIDE DEF new
<1>7. QED
  BY <1>1, <1>5, <1>6, PageShown

LEMMA PageStepsTyped ==
  ASSUME VisitInv, PagesTyped, NEW c \in Customers,
         \/ \E i \in 1..2 : updateQty(c, i) \/ removeItem(c, i)
         \/ \E method \in Methods : choosesMethod(c, method)
         \/ reopens(c) \/ losesAnswer(c)
  PROVE  PagesTyped'
<1> DEFINE old == page[c]
           Cart == Seq(CartItems)
<1>1. old.items \in Cart /\ DOMAIN old = PageFields
  BY PageFieldsRight DEF PagesTyped
<1>2. ASSUME NEW x, UNCHANGED address,
             \/ Shows(c, [old EXCEPT !.items = x]) /\ x \in Cart
             \/ Shows(c, [old EXCEPT !.method = x])
             \/ Shows(c, [old EXCEPT !.waits = None])
             \/ Shows(c, [NewVisit(old.visit + 1) EXCEPT !.items = x]) /\ x \in Cart
      PROVE  PagesTyped'
  <2>1. /\ [old EXCEPT !.items = x].items = x
        /\ [old EXCEPT !.method = x].items = old.items
        /\ [old EXCEPT !.waits = None].items = old.items
        /\ [NewVisit(old.visit + 1) EXCEPT !.items = x].items = x
    BY <1>1, ItemsStay, NewVisitItems
  <2>2. PICK new : Shows(c, new) /\ new.items \in Cart
    BY <1>1, <1>2, <2>1
  <2>3. QED
    BY <1>2, <2>2, PageShown
<1>3. ASSUME NEW i \in 1..2, updateQty(c, i)  PROVE PagesTyped'
  <2> DEFINE item == [old.items[i] EXCEPT !.quantity = 2]
             items == [old.items EXCEPT ![i] = item]
  <2>1. i \in DOMAIN old.items /\ Shows(c, [old EXCEPT !.items = items]) /\ UNCHANGED address
    BY <1>3 DEF updateQty
  <2>2. old.items[i] \in CartItems
    BY <1>1, <2>1, Element
  <2>3. item \in CartItems
    BY <2>2 DEF CartItems
  <2> HIDE DEF item
  <2>4. items \in Cart
    BY <1>1, <2>1, <2>3, Replaced
  <2> HIDE DEF items
  <2>5. QED
    BY <1>2, <2>1, <2>4
<1>4. ASSUME NEW i \in 1..2, removeItem(c, i)  PROVE PagesTyped'
  <2> DEFINE items == SubSeq(old.items, 1, i - 1) \o SubSeq(old.items, i + 1, Len(old.items))
  <2>1. i \in DOMAIN old.items /\ Shows(c, [old EXCEPT !.items = items]) /\ UNCHANGED address
    BY <1>4 DEF removeItem
  <2>2. /\ i \in Nat /\ i <= Len(old.items) /\ Len(old.items) \in Nat
        /\ \A j \in 1..Len(old.items) : old.items[j] \in CartItems
    BY <1>1, <2>1
  <2>3. SubSeq(old.items, 1, i - 1) \in Cart
    <3>1. \A j \in 1..(i - 1) : old.items[j] \in CartItems
      BY <2>2
    <3>2. QED
      BY <2>2, <3>1, SubSeqProperties
  <2>4. SubSeq(old.items, i + 1, Len(old.items)) \in Cart
    <3>1. \A j \in (i + 1)..Len(old.items) : old.items[j] \in CartItems
      BY <2>2
    <3>2. QED
      BY <2>2, <3>1, SubSeqProperties
  <2>5. items \in Cart
    BY <2>3, <2>4, ConcatProperties
  <2> HIDE DEF items
  <2>6. QED
    BY <1>2, <2>1, <2>5
<1>5. ASSUME NEW method \in Methods, choosesMethod(c, method)  PROVE PagesTyped'
  BY <1>2, <1>5 DEF choosesMethod
<1>6. CASE reopens(c)
  BY <1>1, <1>2, <1>6 DEF reopens
<1>7. CASE losesAnswer(c)
  BY <1>2, <1>7 DEF losesAnswer
<1>8. QED
  BY <1>3, <1>4, <1>5, <1>6, <1>7

LEMMA AddressTyped ==
  ASSUME PagesTyped, NEW c \in Customers, deleteAddress(c) \/ createAddress(c, 42)
  PROVE  PagesTyped'
<1>1. page' = page /\ (address' = [address EXCEPT ![c] = None] \/ address' = [address EXCEPT ![c] = 42])
  BY DEF deleteAddress, createAddress
<1>2. None \in Price /\ 42 \in Price
  BY DEF Price
<1>3. address' \in [Customers -> Price]
  BY <1>1, <1>2 DEF PagesTyped
<1>4. QED
  BY <1>1, <1>3 DEF PagesTyped

LEMMA SendsTyped ==
  ASSUME VisitInv, PagesTyped, RequestsTyped, NEW c \in Customers, NEW r \in Requests,
         refreshQuote(c, r) \/ placeOrder(c, r)
  PROVE  PagesTyped' /\ RequestsTyped'
<1> DEFINE old == page[c]
           sent(kind) == Sent(c, kind)
<1>1. old.items \in Seq(CartItems) /\ DOMAIN old = PageFields
  BY PageFieldsRight DEF PagesTyped
<1>2. ASSUME NEW kind  PROVE RequestTyped(sent(kind))
  <2>1. sent(kind).at = "ARRIVES" /\ sent(kind).who = c /\ sent(kind).items = old.items
    BY DEF Sent
  <2> HIDE DEF sent
  <2>2. QED
    BY <1>1, <2>1 DEF RequestTyped, Reading
<1>3. PICK kind : request' = [request EXCEPT ![r] = sent(kind)]
  BY DEF refreshQuote, placeOrder
<1>4. RequestsTyped'
  <2> HIDE DEF sent
  <2>1. QED
    BY <1>2, <1>3, RequestTurns
<1>5. UNCHANGED address /\ (Shows(c, [old EXCEPT !.quote = None]) \/ Shows(c, [old EXCEPT !.waits = r]))
  BY DEF refreshQuote, placeOrder
<1>6. [old EXCEPT !.quote = None].items = old.items /\ [old EXCEPT !.waits = r].items = old.items
  BY <1>1, ItemsStay
<1>7. PICK new : Shows(c, new) /\ new.items \in Seq(CartItems)
  BY <1>1, <1>5, <1>6
<1>8. PagesTyped'
  BY <1>5, <1>7, PageShown
<1>9. QED
  BY <1>4, <1>8

(* What the server reads for a request.                                        *)
LEMMA RequestFieldsRight ==
  ASSUME VisitInv, RequestsTyped, NEW r \in Requests, Waiting(r)
  PROVE  DOMAIN request[r] = RequestFields /\ RequestTyped(request[r])
BY DEF VisitInv, RequestsRight, RequestRight, RequestsTyped

LEMMA GoesTyped ==
  ASSUME VisitInv, PagesTyped, RequestsTyped, UNCHANGED address, NEW r \in Requests, NEW held,
         Goes(r, held), RequestTyped(held)
  PROVE  PagesTyped' /\ RequestsTyped'
<1>1. RequestsTyped'
  BY RequestTurns DEF Goes
<1>2. PagesTyped'
  BY PagesSame DEF Goes, browser
<1>3. QED
  BY <1>1, <1>2

LEMMA ArrivesTyped ==
  ASSUME VisitInv, ShopTyped, PagesTyped, RequestsTyped, NEW r \in Requests, arrives(r)
  PROVE  PagesTyped' /\ RequestsTyped'
<1> DEFINE q == request[r]
           rows == [i \in DOMAIN q.items |-> product[q.items[i].product]]
           held == [q EXCEPT !.at = "GROUPS", !.store = store, !.rows = rows]
<1>1. Waiting(r) /\ q.at = "ARRIVES" /\ UNCHANGED address
  BY DEF arrives, At, Waiting, notOrders
<1>2. (\E result : Answer(r, result)) \/ Goes(r, held)
  BY DEF arrives
<1>3. DOMAIN q = RequestFields /\ RequestTyped(q)
  BY <1>1, RequestFieldsRight
<1>4. ASSUME NEW i \in DOMAIN q.items  PROVE ProductTyped(rows[i], Categories)
  <2>1. q.items[i] \in CartItems
    BY <1>3, Element DEF RequestTyped
  <2>2. q.items[i].product \in Products
    BY <2>1 DEF CartItems
  <2>3. ProductTyped(product[q.items[i].product], category) /\ category \subseteq Categories
    BY <2>2 DEF ShopTyped
  <2>4. rows[i] = product[q.items[i].product]
    OBVIOUS
  <2> HIDE DEF rows, q
  <2>5. QED
    BY <2>3, <2>4 DEF ProductTyped
<1> HIDE DEF rows, q
<1>5. /\ held.at = "GROUPS" /\ held.who = q.who /\ held.items = q.items
      /\ held.store = store /\ held.rows = rows
  BY <1>3 DEF RequestFields
<1> HIDE DEF held
<1>6. RequestTyped(held)
  BY <1>3, <1>4, <1>5 DEF RequestTyped, Reading, ShopTyped
<1>7. QED
  BY <1>1, <1>2, <1>6, AnswerTyped, GoesTyped

(* A sequence turned into another, element by element.                         *)
LEMMA Mapped ==
  ASSUME NEW S, NEW s \in Seq(S), NEW T, NEW f, f = [i \in DOMAIN s |-> f[i]],
         \A i \in DOMAIN s : f[i] \in T
  PROVE  f \in Seq(T)
<1>1. DOMAIN s = 1..Len(s) /\ Len(s) \in Nat
  OBVIOUS
<1>2. f \in [1..Len(s) -> T]
  BY <1>1
<1>3. QED
  BY <1>1, <1>2, SeqDef

LEMMA WithOptionsTyped ==
  ASSUME ShopTyped, NEW groups, GroupsTyped(groups)  PROVE GroupsTyped(WithOptionsNow(groups))
<1> SUFFICES ASSUME NEW t \in DOMAIN groups
             PROVE  t \in Trees /\ WithOptionsNow(groups)[t] \in Seq(GroupRows)
  BY DEF GroupsTyped, WithOptionsNow
<1> DEFINE bare(g) == [groups[t][g] EXCEPT !.options = <<>>]
           all == [g \in DOMAIN groups[t] |-> bare(g)]
<1>1. t \in Trees /\ groups[t] \in Seq(GroupRows)
  BY DEF GroupsTyped
<1>2. WithOptionsNow(groups)[t] = IF live(t) THEN tree[t].groups ELSE all
  BY DEF WithOptionsNow
<1>3. live(t) => tree[t].groups \in Seq(GroupRows)
  BY <1>1 DEF live, ShopTyped, TreeTyped, TreeRows
<1>4. ASSUME NEW g \in DOMAIN groups[t]  PROVE bare(g) \in GroupRows
  <2>1. groups[t][g] \in GroupRows
    BY <1>1, Element
  <2>2. <<>> \in Seq([price : Price, available : BOOLEAN, matrix : Seq(Price)])
    OBVIOUS
  <2>3. QED
    BY <2>1, <2>2 DEF GroupRows
<1>5. all = [g \in DOMAIN groups[t] |-> all[g]] /\ \A g \in DOMAIN groups[t] : all[g] \in GroupRows
  BY <1>4
<1> HIDE DEF all
<1>6. all \in Seq(GroupRows)
  BY <1>1, <1>5, Mapped
<1>7. QED
  BY <1>1, <1>2, <1>3, <1>6

LEMMA WithMatrixTyped ==
  ASSUME NEW groups, GroupsTyped(groups)  PROVE GroupsTyped(WithMatrixNow(groups))
<1> SUFFICES ASSUME NEW t \in DOMAIN groups
             PROVE  t \in Trees /\ WithMatrixNow(groups)[t] \in Seq(GroupRows)
  BY DEF GroupsTyped, WithMatrixNow
<1> DEFINE OptionRows == [price : Price, available : BOOLEAN, matrix : Seq(Price)]
           options(g) == groups[t][g].options
           bare(g) == [o \in DOMAIN options(g) |-> [options(g)[o] EXCEPT !.matrix = <<>>]]
           all == [g \in DOMAIN groups[t] |-> [groups[t][g] EXCEPT !.options = bare(g)]]
<1>1. t \in Trees /\ groups[t] \in Seq(GroupRows)
  BY DEF GroupsTyped
<1>2. WithMatrixNow(groups)[t] = IF live(t) THEN groups[t] ELSE all
  BY DEF WithMatrixNow
<1>3. ASSUME NEW g \in DOMAIN groups[t]  PROVE all[g] \in GroupRows
  <2>1. groups[t][g] \in GroupRows
    BY <1>1, Element
  <2>2. options(g) \in Seq(OptionRows)
    BY <2>1 DEF GroupRows
  <2>3. ASSUME NEW o \in DOMAIN options(g)  PROVE bare(g)[o] \in OptionRows
    <3> DEFINE option == options(g)[o]
    <3>1. option \in OptionRows
      BY <2>2, Element
    <3>2. bare(g)[o] = [option EXCEPT !.matrix = <<>>]
      OBVIOUS
    <3>3. <<>> \in Seq(Price)
      OBVIOUS
    <3> HIDE DEF option, bare
    <3>4. QED
      BY <3>1, <3>2, <3>3
  <2> DEFINE new == bare(g)
  <2>4. new = [o \in DOMAIN options(g) |-> new[o]]
    OBVIOUS
  <2>5. \A o \in DOMAIN options(g) : new[o] \in OptionRows
    BY <2>3
  <2>6. all[g] = [groups[t][g] EXCEPT !.options = new]
    OBVIOUS
  <2> HIDE DEF new, options, OptionRows, all
  <2>7. new \in Seq(OptionRows)
    BY <2>2, <2>4, <2>5, Mapped
  <2>8. QED
    BY <2>1, <2>6, <2>7 DEF GroupRows, OptionRows
<1>4. all = [g \in DOMAIN groups[t] |-> all[g]]
  OBVIOUS
<1> HIDE DEF all
<1>5. all \in Seq(GroupRows)
  BY <1>1, <1>3, <1>4, Mapped
<1>6. QED
  BY <1>1, <1>2, <1>5

LEMMA ReadsTyped ==
  ASSUME VisitInv, ShopTyped, PagesTyped, RequestsTyped, NEW r \in Requests,
         readsGroups(r) \/ readsOptions(r)
  PROVE  PagesTyped' /\ RequestsTyped'
<1> DEFINE q == request[r]
           ofItem(i) == IF IsRow(q.rows[i]) THEN GroupsNow(q.items[i].product) ELSE NoGroups
           read == [i \in DOMAIN q.items |-> ofItem(i)]
           reread == [i \in DOMAIN q.groups |-> WithOptionsNow(q.groups[i])]
           toOptions == [q EXCEPT !.at = "OPTIONS", !.groups = read]
           toMatrix == [q EXCEPT !.at = "MATRIX", !.groups = reread]
<1>1. /\ UNCHANGED address
      /\ \/ q.at = "GROUPS" /\ Goes(r, toOptions)
         \/ q.at = "OPTIONS" /\ Goes(r, toMatrix)
  BY DEF readsGroups, readsOptions, At, notOrders
<1>2. Waiting(r)
  BY <1>1 DEF Waiting
<1>3. DOMAIN q = RequestFields /\ RequestTyped(q)
  BY <1>2, RequestFieldsRight
<1>4. \A i \in DOMAIN q.items : GroupsTyped(read[i])
  <2>1. \A p : GroupsTyped(GroupsNow(p))
    BY GroupsNowTyped
  <2>2. GroupsTyped(NoGroups)
    BY DEF GroupsTyped, NoGroups
  <2>3. QED
    BY <2>1, <2>2
<1>5. DOMAIN read = DOMAIN q.items
  OBVIOUS
<1>6. q.at = "OPTIONS" =>
        DOMAIN reread = DOMAIN q.items /\ \A i \in DOMAIN q.items : GroupsTyped(reread[i])
  BY <1>3, WithOptionsTyped DEF RequestTyped, Reading
<1> HIDE DEF read, reread, q
<1>7. /\ toOptions.at = "OPTIONS" /\ toOptions.who = q.who /\ toOptions.items = q.items
      /\ toOptions.store = q.store /\ toOptions.rows = q.rows /\ toOptions.groups = read
      /\ toMatrix.at = "MATRIX" /\ toMatrix.who = q.who /\ toMatrix.items = q.items
      /\ toMatrix.store = q.store /\ toMatrix.rows = q.rows /\ toMatrix.groups = reread
  BY <1>3 DEF RequestFields
<1> HIDE DEF toOptions, toMatrix
<1>8. q.at = "GROUPS" => RequestTyped(toOptions)
  BY <1>3, <1>4, <1>5, <1>7 DEF RequestTyped, Reading
<1>9. q.at = "OPTIONS" => RequestTyped(toMatrix)
  BY <1>3, <1>6, <1>7 DEF RequestTyped, Reading
<1>10. QED
  BY <1>1, <1>8, <1>9, GoesTyped

LEMMA ReadsMatrixTyped ==
  ASSUME VisitInv, PagesTyped, RequestsTyped, NEW r \in Requests, readsMatrix(r)
  PROVE  PagesTyped' /\ RequestsTyped'
<1> DEFINE q == request[r]
           groups == [i \in DOMAIN q.groups |-> WithMatrixNow(q.groups[i])]
           quote == quoteOrder(q, groups)
           shown == [problems |-> quote.problems, total |-> quote.subtotal + quote.fee]
           held == [q EXCEPT !.at = "INSERTS", !.quote = quote]
<1>1. /\ q.at = "MATRIX" /\ UNCHANGED address
      /\ \/ /\ request' = [request EXCEPT ![r] = NoRequest]
            /\ \/ page' = page
               \/ page' = [page EXCEPT ![q.who] = [page[q.who] EXCEPT !.quote = shown]]
         \/ Answer(r, "UNAVAILABLE")
         \/ Goes(r, held)
  BY DEF readsMatrix, At, notOrders, Answer, Goes
<1>2. Waiting(r)
  BY <1>1 DEF Waiting
<1>3. DOMAIN q = RequestFields /\ RequestTyped(q)
  BY <1>2, RequestFieldsRight
<1>4. /\ q.who \in Customers /\ q.items \in Seq(CartItems) /\ q.store \in StoreRows
      /\ DOMAIN q.groups = DOMAIN q.items
      /\ \A i \in DOMAIN q.items : ProductTyped(q.rows[i], Categories) /\ GroupsTyped(q.groups[i])
  BY <1>1, <1>3 DEF RequestTyped, Reading
<1>5. \A i \in DOMAIN q.items : GroupsTyped(groups[i])
  BY <1>4, WithMatrixTyped
<1> HIDE DEF groups, q
<1>6. QuoteTyped(quote)
  BY <1>4, <1>5, QuoteType
<1> HIDE DEF quote
<1>7. held.at = "INSERTS" /\ held.who = q.who /\ held.items = q.items /\ held.quote = quote
  BY <1>3 DEF RequestFields
<1> HIDE DEF held, shown
<1>8. RequestTyped(held)
  BY <1>4, <1>6, <1>7 DEF RequestTyped, Reading
<1>9. ASSUME request' = [request EXCEPT ![r] = NoRequest],
             \/ page' = page
             \/ page' = [page EXCEPT ![q.who] = [page[q.who] EXCEPT !.quote = shown]]
      PROVE  PagesTyped' /\ RequestsTyped'
  <2>1. RequestsTyped'
    BY <1>9, RequestTurns DEF NoRequest
  <2>2. [page[q.who] EXCEPT !.quote = shown].items = page[q.who].items
    BY <1>4, PageFieldsRight, ItemsStay
  <2>3. page[q.who].items \in Seq(CartItems)
    BY <1>4 DEF PagesTyped
  <2>4. PagesTyped'
    <3>1. CASE page' = page
      BY <1>1, <3>1 DEF PagesTyped
    <3>2. CASE page' = [page EXCEPT ![q.who] = [page[q.who] EXCEPT !.quote = shown]]
      BY <1>1, <1>4, <2>2, <2>3, <3>2, PageShown DEF Shows
    <3>3. QED
      BY <1>9, <3>1, <3>2
  <2>5. QED
    BY <2>1, <2>4
<1>10. Answer(r, "UNAVAILABLE") => PagesTyped' /\ RequestsTyped'
  BY <1>1, <1>2, AnswerTyped
<1>11. QED
  BY <1>1, <1>8, <1>9, <1>10, GoesTyped

(* What becomes of an order's row.                                             *)
LEMMA OrderTurns ==
  ASSUME VisitInv, OrdersTyped, NEW o \in Orders, NEW row, OrderTyped(row),
         order' = [order EXCEPT ![o] = row]
  PROVE  OrdersTyped'
<1>1. \A n \in Orders : order'[n] = IF n = o THEN row ELSE order[n]
  BY DEF VisitInv, OrdersRight
<1>2. QED
  BY <1>1 DEF OrdersTyped, Placed

LEMMA PaymentTyped ==
  ASSUME NEW row, OrderTyped(row), DOMAIN row = OrderFields, NEW payment,
         row.status = "AWAITING_PAYMENT" => payment.status = "PENDING"
  PROVE  OrderTyped([row EXCEPT !.payment = payment])
<1> DEFINE new == [row EXCEPT !.payment = payment]
<1>1. /\ new.payment = payment /\ new.status = row.status /\ new.items = row.items
      /\ new.total = row.total /\ new.refund = row.refund /\ new.fee = row.fee
  BY DEF OrderFields
<1> HIDE DEF new
<1>2. OrderTyped(new)
  BY <1>1 DEF OrderTyped
<1>3. QED
  BY <1>2 DEF new

LEMMA StatusTyped ==
  ASSUME NEW row, OrderTyped(row), DOMAIN row = OrderFields,
         NEW status \in {"PENDING", "ACCEPTED", "PREPARING", "READY", "CANCELLED"}
  PROVE  OrderTyped([row EXCEPT !.status = status])
<1> DEFINE new == [row EXCEPT !.status = status]
<1>1. /\ new.payment = row.payment /\ new.status = status /\ new.items = row.items
      /\ new.total = row.total /\ new.refund = row.refund /\ new.fee = row.fee
  BY DEF OrderFields
<1> HIDE DEF new
<1>2. OrderTyped(new)
  BY <1>1 DEF OrderTyped
<1>3. QED
  BY <1>2 DEF new

LEMMA ReportTyped ==
  ASSUME VisitInv, OrdersTyped, NEW o \in Orders, Placed(o), NEW status \in REPORTS
  PROVE  OrderTyped(Reported(o, status))
<1> DEFINE old == order[o]
           payment == Reports(old.payment, status)
           paid == [old EXCEPT !.payment = payment]
           to == IF status = "APPROVED" THEN "PENDING" ELSE "CANCELLED"
           fields == [paid EXCEPT !.status = to]
<1>1. OrderTyped(old) /\ DOMAIN old = OrderFields /\ DOMAIN old.payment = PaymentFields
  BY DEF OrdersTyped, VisitInv, OrdersRight, OrderRight
<1>2. payment.status = status
  BY <1>1 DEF Reports, PaymentFields
<1>3. Reported(o, status) = IF old.status # "AWAITING_PAYMENT" \/ status = "PENDING" THEN paid
                            ELSE fields
  BY DEF Reported
<1> HIDE DEF payment, old
<1>4. CASE old.status # "AWAITING_PAYMENT" \/ status = "PENDING"
  <2>1. OrderTyped(paid)
    BY <1>1, <1>2, <1>4, PaymentTyped
  <2>2. QED
    BY <1>3, <1>4, <2>1
<1>5. CASE ~(old.status # "AWAITING_PAYMENT" \/ status = "PENDING")
  <2>1. /\ DOMAIN fields = OrderFields
        /\ fields.status = to /\ fields.items = old.items
        /\ fields.total = old.total /\ fields.refund = old.refund /\ fields.fee = old.fee
    BY <1>1 DEF OrderFields
  <2> HIDE DEF fields, paid
  <2>2. OrderTyped(fields)
    BY <1>1, <2>1 DEF OrderTyped
  <2>3. QED
    BY <1>3, <1>5, <2>2
<1>6. QED
  BY <1>4, <1>5

LEMMA NewOrderTyped ==
  ASSUME NEW q, QuoteTyped(q.quote)  PROVE OrderTyped(NewOrder(q))
<1> DEFINE payment == IF q.method \in ONLINE THEN [NoPayment EXCEPT !.status = "PENDING"]
                      ELSE NoPayment
           new == NewOrder(q)
<1>1. q.method \in ONLINE => payment.status = "PENDING"
  BY DEF NoPayment
<1> HIDE DEF payment
<1>2. /\ new.payment = payment /\ new.items = q.quote.items /\ new.fee = q.quote.fee
      /\ new.total = q.quote.subtotal + q.quote.fee /\ new.refund = 0
      /\ new.status = IF q.method \in ONLINE THEN "AWAITING_PAYMENT" ELSE "PENDING"
  BY DEF NewOrder, payment
<1> HIDE DEF new
<1>3. new.total \in Nat
  BY <1>2 DEF QuoteTyped
<1>4. OrderTyped(new)
  BY <1>1, <1>2, <1>3 DEF OrderTyped, QuoteTyped
<1>5. QED
  BY <1>4 DEF new

LEMMA CreateOrderTyped ==
  ASSUME VisitInv, PagesTyped, RequestsTyped, OrdersTyped,
         NEW r \in Requests, NEW o \in Orders, createOrder(r, o)
  PROVE  PagesTyped' /\ RequestsTyped' /\ OrdersTyped'
<1> DEFINE q == request[r]
           held == [q EXCEPT !.at = "PAYS", !.order = o]
<1>1. q.at = "INSERTS" /\ Waiting(r) /\ UNCHANGED address
  BY DEF createOrder, At, Waiting, notOrders
<1>2. /\ order' = order \/ order' = [order EXCEPT ![o] = NewOrder(q)]
      /\ Goes(r, held) \/ \E result : Answer(r, result)
  BY DEF createOrder
<1>3. DOMAIN q = RequestFields /\ RequestTyped(q)
  BY <1>1, RequestFieldsRight
<1>4. QuoteTyped(q.quote)
  BY <1>1, <1>3 DEF RequestTyped
<1> HIDE DEF q
<1>5. held.at = "PAYS" /\ held.who = q.who /\ held.items = q.items /\ held.quote = q.quote
  BY <1>3 DEF RequestFields
<1> HIDE DEF held
<1>6. RequestTyped(held)
  BY <1>3, <1>4, <1>5 DEF RequestTyped, Reading
<1>7. PagesTyped' /\ RequestsTyped'
  BY <1>1, <1>2, <1>6, GoesTyped, AnswerTyped
<1>8. OrdersTyped'
  BY <1>2, <1>4, NewOrderTyped, OrderTurns, OrdersSameTyped
<1>9. QED
  BY <1>7, <1>8

LEMMA PaysTyped ==
  ASSUME VisitInv, PagesTyped, RequestsTyped, OrdersTyped, NEW r \in Requests,
         createOnlinePayment(r)
  PROVE  PagesTyped' /\ RequestsTyped' /\ OrdersTyped'
<1> DEFINE q == request[r]
           o == q.order
           payment == [order[o].payment EXCEPT !.review = TRUE]
           reviewed == [order[o] EXCEPT !.payment = payment]
<1>1. q.at = "PAYS" /\ Waiting(r) /\ UNCHANGED address /\ \E result : Answer(r, result)
  BY DEF createOnlinePayment, At, Waiting, notOrders
<1>2. PagesTyped' /\ RequestsTyped'
  BY <1>1, AnswerTyped
<1>3. o \in Orders /\ Placed(o)
  BY <1>1 DEF VisitInv, RequestsRight, RequestRight, Placed
<1>4. OrderTyped(order[o]) /\ DOMAIN order[o] = OrderFields /\ DOMAIN order[o].payment = PaymentFields
  BY <1>3 DEF OrdersTyped, VisitInv, OrdersRight, OrderRight
<1>5. \/ order' = order
      \/ \E status \in REPORTS : order' = [order EXCEPT ![o] = Reported(o, status)]
      \/ order' = [order EXCEPT ![o] = reviewed]
  BY DEF createOnlinePayment, REPORTS
<1>6. OrderTyped(reviewed)
  <2>1. payment.status = order[o].payment.status
    BY <1>4 DEF PaymentFields
  <2> HIDE DEF payment, o
  <2>2. order[o].status = "AWAITING_PAYMENT" => payment.status = "PENDING"
    BY <1>4, <2>1 DEF OrderTyped
  <2>3. QED
    BY <1>4, <2>2, PaymentTyped
<1> HIDE DEF reviewed, o
<1>7. OrdersTyped'
  BY <1>3, <1>5, <1>6, ReportTyped, OrderTurns, OrdersSameTyped
<1>8. QED
  BY <1>2, <1>7

LEMMA DiesTyped ==
  ASSUME VisitInv, PagesTyped, RequestsTyped, NEW r \in Requests, dies(r)
  PROVE  PagesTyped' /\ RequestsTyped'
<1>1. Waiting(r) /\ UNCHANGED address /\ Answer(r, "UNAVAILABLE")
  BY DEF dies, Answer
<1>2. QED
  BY <1>1, AnswerTyped

LEMMA PaymentEndsTyped ==
  ASSUME VisitInv, OrdersTyped, NEW o \in Orders, paymentEnds(o)  PROVE OrdersTyped'
<1>1. PICK status \in REPORTS : order' = [order EXCEPT ![o] = Reported(o, status)]
  BY DEF paymentEnds, REPORTS
<1>2. Placed(o)
  BY DEF paymentEnds
<1>3. QED
  BY <1>1, <1>2, ReportTyped, OrderTurns

LEMMA BuyingTyped ==
  ASSUME VisitInv, ShopTyped, PagesTyped, RequestsTyped, OrdersTyped, Buying
  PROVE  PagesTyped' /\ RequestsTyped' /\ OrdersTyped'
<1>1. ASSUME NEW c \in Customers, NEW p \in Products, NEW t \in Trees, NEW choice \in Picks,
             addItem(c, p, {<<t, x[1], x[2]>> : x \in choice})
      PROVE  PagesTyped' /\ RequestsTyped' /\ OrdersTyped'
  <2> DEFINE chosen == {<<t, x[1], x[2]>> : x \in choice}
  <2>1. chosen \in ChosenOptions
    BY DEF ChosenOptions
  <2>2. addItem(c, p, chosen) /\ UNCHANGED <<request, order>>
    BY <1>1 DEF addItem, notServer
  <2> HIDE DEF chosen
  <2>3. QED
    BY <2>1, <2>2, AddItemTyped, RequestsSame, OrdersSameTyped
<1>2. ASSUME NEW c \in Customers,
             \/ \E i \in 1..2 : updateQty(c, i) \/ removeItem(c, i)
             \/ \E method \in Methods : choosesMethod(c, method)
             \/ reopens(c) \/ losesAnswer(c)
      PROVE  PagesTyped' /\ RequestsTyped' /\ OrdersTyped'
  <2>1. UNCHANGED <<request, order>>
    BY <1>2 DEF updateQty, removeItem, choosesMethod, reopens, losesAnswer, notServer
  <2>2. QED
    BY <1>2, <2>1, PageStepsTyped, RequestsSame, OrdersSameTyped
<1>3. ASSUME NEW c \in Customers, deleteAddress(c) \/ createAddress(c, 42)
      PROVE  PagesTyped' /\ RequestsTyped' /\ OrdersTyped'
  <2>1. UNCHANGED <<request, order>>
    BY <1>3 DEF deleteAddress, createAddress, notServer
  <2>2. QED
    BY <1>3, <2>1, AddressTyped, RequestsSame, OrdersSameTyped
<1>4. ASSUME NEW c \in Customers, NEW r \in Requests, refreshQuote(c, r) \/ placeOrder(c, r)
      PROVE  PagesTyped' /\ RequestsTyped' /\ OrdersTyped'
  <2>1. UNCHANGED order
    BY <1>4 DEF refreshQuote, placeOrder, notServer
  <2>2. QED
    BY <1>4, <2>1, SendsTyped, OrdersSameTyped
<1>5. ASSUME NEW r \in Requests,
             \/ arrives(r) \/ readsGroups(r) \/ readsOptions(r) \/ readsMatrix(r) \/ dies(r)
      PROVE  PagesTyped' /\ RequestsTyped' /\ OrdersTyped'
  <2>1. UNCHANGED order
    BY <1>5 DEF arrives, readsGroups, readsOptions, readsMatrix, dies
  <2>2. PagesTyped' /\ RequestsTyped'
    BY <1>5, ArrivesTyped, ReadsTyped, ReadsMatrixTyped, DiesTyped
  <2>3. QED
    BY <2>1, <2>2, OrdersSameTyped
<1>6. ASSUME NEW r \in Requests, createOnlinePayment(r)
      PROVE  PagesTyped' /\ RequestsTyped' /\ OrdersTyped'
  BY <1>6, PaysTyped
<1>7. ASSUME NEW r \in Requests, NEW o \in Orders, createOrder(r, o)
      PROVE  PagesTyped' /\ RequestsTyped' /\ OrdersTyped'
  BY <1>7, CreateOrderTyped
<1>8. ASSUME NEW o \in Orders, paymentEnds(o)
      PROVE  PagesTyped' /\ RequestsTyped' /\ OrdersTyped'
  <2>1. UNCHANGED <<browser, request>>
    BY <1>8 DEF paymentEnds
  <2>2. QED
    BY <1>8, <2>1, PaymentEndsTyped, PagesSame, RequestsSame
<1>9. QED
  BY <1>1, <1>2, <1>3, <1>4, <1>5, <1>6, <1>7, <1>8 DEF Buying

(* Proposals.  No row of these is null.                                        *)
LEMMA TabletTurns ==
  ASSUME ProposalsTyped, OrdersGoOn, NEW t \in Tablets, NEW row, TabletTyped(row),
         tablet' = [tablet EXCEPT ![t] = row]
  PROVE  /\ tablet' = [u \in Tablets |-> tablet'[u]]
         /\ \A u \in Tablets : TabletTyped(tablet[u])'
<1>1. /\ \A u \in Tablets : tablet'[u] = IF u = t THEN row ELSE tablet[u]
      /\ tablet' = [u \in Tablets |-> tablet'[u]]
  BY DEF ProposalsTyped
<1>2. TabletTyped(row)'
  BY TabletStays
<1>3. \A u \in Tablets : TabletTyped(tablet[u])'
  BY <1>1, <1>2, TabletStays DEF ProposalsTyped
<1>4. QED
  BY <1>1, <1>3

LEMMA AmendmentsTurn ==
  ASSUME ProposalsTyped, OrdersGoOn, UNCHANGED tablet,
         amendment' = [a \in Amendments |-> amendment'[a]],
         \A a \in Amendments : amendment'[a] # None => AmendmentTyped(amendment'[a])
  PROVE  ProposalsTyped'
<1>1. \A a \in Amendments : amendment'[a] # None => AmendmentTyped(amendment[a])'
  BY StaysTyped
<1>2. \A t \in Tablets : TabletTyped(tablet[t])'
  BY TabletStays DEF ProposalsTyped
<1>3. QED
  BY <1>1, <1>2 DEF ProposalsTyped

LEMMA SettledRow ==
  ASSUME NEW x, AmendmentTyped(x), NEW status \in {"PROPOSED", "APPROVED", "REJECTED", "EXPIRED"}
  PROVE  AmendmentTyped([x EXCEPT !.status = status])
<1> DEFINE new == [x EXCEPT !.status = status]
<1>1. /\ DOMAIN new = AmendmentFields /\ new.status = status /\ new.order = x.order
      /\ new.total = x.total /\ new.refund = x.refund /\ new.changes = x.changes
  BY DEF AmendmentTyped, AmendmentFields
<1> HIDE DEF new
<1>2. AmendmentTyped(new)
  BY <1>1 DEF AmendmentTyped
<1>3. QED
  BY <1>2 DEF new

LEMMA SettledTyped ==
  ASSUME ProposalsTyped, OrdersGoOn, UNCHANGED tablet, NEW as,
         \A a \in as : amendment[a] # None, NEW status \in {"APPROVED", "REJECTED", "EXPIRED"},
         amendment' = Settled(as, status)
  PROVE  ProposalsTyped'
<1>1. /\ \A a \in Amendments : amendment'[a] = IF a \in as THEN [amendment[a] EXCEPT !.status = status]
                                               ELSE amendment[a]
      /\ amendment' = [a \in Amendments |-> amendment'[a]]
  BY DEF Settled
<1>2. \A a \in Amendments : a \in as => AmendmentTyped([amendment[a] EXCEPT !.status = status])
  BY SettledRow DEF ProposalsTyped
<1>3. \A a \in Amendments : amendment'[a] # None => AmendmentTyped(amendment'[a])
  BY <1>1, <1>2 DEF ProposalsTyped
<1>4. QED
  BY <1>1, <1>3, AmendmentsTurn

LEMMA ProposeTyped ==
  ASSUME ProposalsTyped, OrdersTyped, OrdersGoOn, NEW t \in Tablets, NEW o \in Orders,
         proposeAmendment(t, o)
  PROVE  ProposalsTyped'
<1> DEFINE row == [at |-> "PENDING", order |-> o, total |-> order[o].total, fee |-> order[o].fee,
                   row |-> None]
<1>1. Placed(o) /\ tablet' = [tablet EXCEPT ![t] = row] /\ UNCHANGED amendment
  BY DEF proposeAmendment, Placed, PROPOSABLE
<1>2. TabletTyped(row)
  BY <1>1 DEF TabletTyped, TabletFields, OrdersTyped, OrderTyped
<1> HIDE DEF row
<1>3. /\ tablet' = [u \in Tablets |-> tablet'[u]]
      /\ \A u \in Tablets : TabletTyped(tablet[u])'
  BY <1>1, <1>2, TabletTurns
<1>4. \A a \in Amendments : amendment[a] # None => AmendmentTyped(amendment[a])'
  BY <1>1, StaysTyped DEF ProposalsTyped
<1>5. QED
  BY <1>1, <1>3, <1>4 DEF ProposalsTyped

LEMMA ReadsItemsTyped ==
  ASSUME ProposalsTyped, OrdersTyped, OrdersGoOn, NEW t \in Tablets,
         looksForPending(t) \/ readsItems(t)
  PROVE  ProposalsTyped'
<1> DEFINE x == tablet[t]
<1>1. x.at # "NONE" /\ UNCHANGED amendment
  BY DEF looksForPending, readsItems
<1>2. /\ DOMAIN x = TabletFields /\ x.order \in Orders /\ Placed(x.order)
      /\ x.total \in Nat /\ x.fee \in Nat
  BY <1>1 DEF ProposalsTyped, TabletTyped
<1>3. PICK row : TabletTyped(row) /\ tablet' = [tablet EXCEPT ![t] = row]
  <2>1. CASE looksForPending(t)
    <3> DEFINE on == [x EXCEPT !.at = "ITEMS"]
    <3>1. tablet' = [tablet EXCEPT ![t] = on] \/ tablet' = [tablet EXCEPT ![t] = NoProposal]
      BY <2>1 DEF looksForPending
    <3> HIDE DEF x
    <3>2. /\ DOMAIN on = TabletFields /\ on.at = "ITEMS" /\ on.order = x.order
          /\ on.total = x.total /\ on.fee = x.fee
      BY <1>2 DEF TabletFields
    <3> HIDE DEF on
    <3>3. TabletTyped(on)
      BY <1>2, <3>2 DEF TabletTyped
    <3>4. TabletTyped(NoProposal)
      BY DEF TabletTyped, NoProposal
    <3>5. QED
      BY <3>1, <3>3, <3>4
  <2>2. CASE readsItems(t)
    <3> DEFINE items == order[x.order].items
    <3>1. PICK S \in SUBSET DOMAIN items : \E changes \in [S -> 0..1] :
            tablet' = [tablet EXCEPT ![t] = [x EXCEPT !.at = "INSERTS",
                                                       !.row = Proposal(t, items, changes)]]
      BY <2>2 DEF readsItems
    <3>2. PICK changes \in [S -> 0..1] :
            tablet' = [tablet EXCEPT ![t] = [x EXCEPT !.at = "INSERTS",
                                                       !.row = Proposal(t, items, changes)]]
      BY <3>1
    <3> DEFINE row == Proposal(t, items, changes)
               subtotal == SubtotalOf(Amended(items, changes))
               on == [x EXCEPT !.at = "INSERTS", !.row = row]
    <3>3. ItemsTyped(items)
      BY <1>2 DEF OrdersTyped, OrderTyped
    <3>4. \A i \in DOMAIN changes : changes[i] \in 0..1
      OBVIOUS
    <3>5. subtotal \in Nat
      BY <3>3, <3>4, AmendedTyped, SubtotalType
    <3>6. row = [order |-> x.order, status |-> "PROPOSED", changes |-> changes,
                 total |-> subtotal + x.fee, refund |-> x.total - (subtotal + x.fee)]
      BY DEF Proposal
    <3>7. tablet' = [tablet EXCEPT ![t] = on]
      BY <3>2
    <3> HIDE DEF x, row, subtotal
    <3>8. AmendmentTyped(row)
      BY <1>2, <3>4, <3>5, <3>6 DEF AmendmentTyped, AmendmentFields
    <3>9. /\ DOMAIN on = TabletFields /\ on.at = "INSERTS" /\ on.order = x.order
          /\ on.total = x.total /\ on.fee = x.fee /\ on.row = row
      BY <1>2 DEF TabletFields
    <3> HIDE DEF on
    <3>10. TabletTyped(on)
      BY <1>2, <3>8, <3>9 DEF TabletTyped
    <3>11. QED
      BY <3>7, <3>10
  <2>3. QED
    BY <2>1, <2>2
<1>4. /\ tablet' = [u \in Tablets |-> tablet'[u]]
      /\ \A u \in Tablets : TabletTyped(tablet[u])'
  BY <1>3, TabletTurns
<1>5. \A a \in Amendments : amendment[a] # None => AmendmentTyped(amendment[a])'
  BY <1>1, StaysTyped DEF ProposalsTyped
<1>6. QED
  BY <1>1, <1>4, <1>5 DEF ProposalsTyped

LEMMA InsertsTyped ==
  ASSUME ProposalsTyped, OrdersGoOn, NEW t \in Tablets, NEW a \in Amendments,
         insertsProposal(t, a)
  PROVE  ProposalsTyped'
<1> DEFINE row == tablet[t].row
<1>1. /\ tablet[t].at = "INSERTS" /\ tablet' = [tablet EXCEPT ![t] = NoProposal]
      /\ amendment' = [amendment EXCEPT ![a] = row] \/ amendment' = amendment
  BY DEF insertsProposal
<1>2. AmendmentTyped(row)
  BY <1>1 DEF ProposalsTyped, TabletTyped
<1>3. TabletTyped(NoProposal)
  BY DEF TabletTyped, NoProposal
<1>4. /\ tablet' = [u \in Tablets |-> tablet'[u]]
      /\ \A u \in Tablets : TabletTyped(tablet[u])'
  BY <1>1, <1>3, TabletTurns
<1> HIDE DEF row
<1>5. /\ \A b \in Amendments : amendment'[b] \in {amendment[b], row}
      /\ amendment' = [b \in Amendments |-> amendment'[b]]
  BY <1>1 DEF ProposalsTyped
<1>6. \A b \in Amendments : amendment'[b] # None => AmendmentTyped(amendment'[b])
  BY <1>2, <1>5 DEF ProposalsTyped
<1>7. \A b \in Amendments : amendment'[b] # None => AmendmentTyped(amendment[b])'
  BY <1>6, StaysTyped
<1>8. QED
  BY <1>4, <1>5, <1>7 DEF ProposalsTyped

LEMMA WithoutDeletedTyped ==
  ASSUME ProposalsTyped, NEW b \in Amendments, amendment[b] # None, NEW items
  PROVE  AmendmentTyped(WithoutDeleted(b, items))
<1> DEFINE x == amendment[b]
           kept == DOMAIN x.changes \cap items
           changes == [i \in kept |-> x.changes[i]]
           new == [x EXCEPT !.changes = changes]
<1>1. AmendmentTyped(x)
  BY DEF ProposalsTyped
<1>2. WithoutDeleted(b, items) = new
  BY DEF WithoutDeleted
<1>3. \A i \in DOMAIN changes : changes[i] \in 0..1
  BY <1>1 DEF AmendmentTyped
<1> HIDE DEF x, changes
<1>4. /\ DOMAIN new = AmendmentFields /\ new.status = x.status /\ new.order = x.order
      /\ new.total = x.total /\ new.refund = x.refund /\ new.changes = changes
  BY <1>1 DEF AmendmentTyped, AmendmentFields
<1> HIDE DEF new
<1>5. QED
  BY <1>1, <1>2, <1>3, <1>4 DEF AmendmentTyped

LEMMA ApproveTyped ==
  ASSUME VisitInv, ProposalsTyped, OrdersTyped, OrdersGoOn, NEW a \in Amendments,
         approveAmendment(a)
  PROVE  ProposalsTyped' /\ OrdersTyped'
<1> DEFINE x == amendment[a]
           o == x.order
           old == order[o]
           items == Amended(old.items, x.changes)
           paidBack == IF x.refund > 0 /\ old.payment.status = "APPROVED" THEN x.refund ELSE 0
           refund == old.refund + paidBack
           row == [old EXCEPT !.items = items, !.total = x.total, !.refund = refund]
<1>1. /\ x # None /\ UNCHANGED tablet /\ order' = [order EXCEPT ![o] = row]
      /\ amendment' = [b \in Amendments |->
           IF b = a THEN [amendment[a] EXCEPT !.status = "APPROVED"]
           ELSE IF amendment[b] # None THEN
             IF amendment[b].order = o THEN WithoutDeleted(b, DOMAIN items) ELSE amendment[b]
           ELSE None]
  BY DEF approveAmendment
<1>2. AmendmentTyped(x)
  BY <1>1 DEF ProposalsTyped
<1>3. AmendmentTyped([x EXCEPT !.status = "APPROVED"])
  BY <1>2, SettledRow
<1>4. \A b \in Amendments : amendment[b] # None =>
        AmendmentTyped(WithoutDeleted(b, DOMAIN items)) /\ AmendmentTyped(amendment[b])
  BY WithoutDeletedTyped DEF ProposalsTyped
<1>5. \A b \in Amendments : amendment'[b] # None => AmendmentTyped(amendment'[b])
  <2> HIDE DEF items, o
  <2>1. QED
    BY <1>1, <1>3, <1>4
<1>6. ProposalsTyped'
  <2>1. amendment' = [b \in Amendments |-> amendment'[b]]
    BY <1>1
  <2>2. QED
    BY <1>1, <1>5, <2>1, AmendmentsTurn
<1>7. o \in Orders /\ OrderTyped(old) /\ DOMAIN old = OrderFields
  BY <1>2 DEF AmendmentTyped, OrdersTyped, VisitInv, OrdersRight, OrderRight
<1>8. ItemsTyped(items)
  BY <1>2, <1>7, AmendedTyped DEF AmendmentTyped, OrderTyped
<1>9. refund \in Nat /\ x.total \in Nat
  <2>1. x.refund \in Int /\ old.refund \in Nat /\ x.total \in Nat
    BY <1>2, <1>7 DEF AmendmentTyped, OrderTyped
  <2> HIDE DEF x, old
  <2>2. paidBack \in Nat
    BY <2>1
  <2> HIDE DEF paidBack
  <2>3. QED
    BY <2>1, <2>2
<1> HIDE DEF items, refund, x, old, o
<1>10. /\ row.payment = old.payment /\ row.status = old.status /\ row.items = items
       /\ row.total = x.total /\ row.refund = refund /\ row.fee = old.fee
  BY <1>7 DEF OrderFields
<1> HIDE DEF row
<1>11. OrderTyped(row)
  BY <1>7, <1>8, <1>9, <1>10 DEF OrderTyped
<1>12. OrdersTyped'
  BY <1>1, <1>7, <1>11, OrderTurns
<1>13. QED
  BY <1>6, <1>12

LEMMA CancelledTyped ==
  ASSUME VisitInv, OrdersTyped, NEW o \in Orders, Placed(o), order' = Cancelled(o)
  PROVE  OrdersTyped'
<1>1. OrderTyped(order[o]) /\ DOMAIN order[o] = OrderFields
  BY DEF OrdersTyped, VisitInv, OrdersRight, OrderRight
<1>2. OrderTyped([order[o] EXCEPT !.status = "CANCELLED"])
  BY <1>1, StatusTyped
<1>3. order' = [order EXCEPT ![o] = [order[o] EXCEPT !.status = "CANCELLED"]]
  BY DEF Cancelled
<1>4. QED
  BY <1>2, <1>3, OrderTurns

LEMMA AmendingTyped ==
  ASSUME VisitInv, ProposalsTyped, OrdersTyped, OrdersGoOn, Amending
  PROVE  ProposalsTyped' /\ OrdersTyped'
<1>1. ASSUME NEW t \in Tablets, NEW o \in Orders, proposeAmendment(t, o)
      PROVE  ProposalsTyped' /\ OrdersTyped'
  BY <1>1, ProposeTyped, OrdersSameTyped DEF proposeAmendment
<1>2. ASSUME NEW t \in Tablets, looksForPending(t) \/ readsItems(t)
      PROVE  ProposalsTyped' /\ OrdersTyped'
  BY <1>2, ReadsItemsTyped, OrdersSameTyped DEF looksForPending, readsItems
<1>3. ASSUME NEW t \in Tablets, NEW a \in Amendments, insertsProposal(t, a)
      PROVE  ProposalsTyped' /\ OrdersTyped'
  BY <1>3, InsertsTyped, OrdersSameTyped DEF insertsProposal
<1>4. \A o : \A a \in Pending(o) : a \in Amendments /\ amendment[a] # None
  BY DEF Pending
<1>5. ASSUME NEW o \in Orders, withdrawAmendment(o)  PROVE ProposalsTyped' /\ OrdersTyped'
  <2>1. amendment' = Settled(Pending(o), "EXPIRED") /\ UNCHANGED <<order, tablet>>
    BY <1>5 DEF withdrawAmendment
  <2>2. QED
    BY <1>4, <2>1, SettledTyped, OrdersSameTyped
<1>6. ASSUME NEW o \in Orders, storeUpdateOrderStatus(o)  PROVE ProposalsTyped' /\ OrdersTyped'
  <2>1. PICK step \in {<<"PENDING", "ACCEPTED">>, <<"ACCEPTED", "PREPARING">>,
                       <<"PREPARING", "READY">>} :
          /\ order[o].status = step[1]
          /\ order' = [order EXCEPT ![o] = [order[o] EXCEPT !.status = step[2]]]
    BY <1>6 DEF storeUpdateOrderStatus
  <2>2. Placed(o) /\ step[2] \in {"ACCEPTED", "PREPARING", "READY"}
    BY <2>1 DEF Placed
  <2>3. OrderTyped(order[o]) /\ DOMAIN order[o] = OrderFields
    BY <2>2 DEF OrdersTyped, VisitInv, OrdersRight, OrderRight
  <2>4. OrderTyped([order[o] EXCEPT !.status = step[2]])
    BY <2>2, <2>3, StatusTyped
  <2>5. UNCHANGED <<amendment, tablet>>
    BY <1>6 DEF storeUpdateOrderStatus
  <2>6. QED
    BY <2>1, <2>4, <2>5, OrderTurns, ProposalsSame
<1>7. ASSUME NEW o \in Orders, cancelsOrder(o)  PROVE ProposalsTyped' /\ OrdersTyped'
  <2>1. /\ amendment' = Settled(Pending(o), "EXPIRED") /\ UNCHANGED tablet
        /\ Placed(o) /\ order' = Cancelled(o)
    BY <1>7 DEF cancelsOrder, Placed
  <2>2. QED
    BY <1>4, <2>1, SettledTyped, CancelledTyped
<1>8. ASSUME NEW a \in Amendments, approveAmendment(a)  PROVE ProposalsTyped' /\ OrdersTyped'
  BY <1>8, ApproveTyped
<1>9. ASSUME NEW a \in Amendments, rejectAmendment(a)  PROVE ProposalsTyped' /\ OrdersTyped'
  <2> DEFINE o == amendment[a].order
  <2>1. /\ amendment' = Settled({a}, "REJECTED") /\ UNCHANGED tablet
        /\ amendment[a] # None /\ order' = Cancelled(o)
    BY <1>9 DEF rejectAmendment
  <2>2. o \in Orders /\ Placed(o)
    BY <2>1 DEF ProposalsTyped, AmendmentTyped
  <2>3. ProposalsTyped'
    BY <2>1, SettledTyped
  <2>4. OrdersTyped'
    BY <2>1, <2>2, CancelledTyped
  <2>5. QED
    BY <2>3, <2>4
<1>10. QED
  BY <1>1, <1>2, <1>3, <1>5, <1>6, <1>7, <1>8, <1>9 DEF Amending

(* Steps taken together.                                                       *)
LEMMA OthersStay ==
  /\ Limiting => UNCHANGED <<browser, request, order, amendment, tablet, now>>
  /\ Selling => UNCHANGED <<browser, request, order, amendment, tablet, now>>
  /\ Buying => UNCHANGED <<amendment, tablet, now>>
  /\ Amending => UNCHANGED <<browser, request, now>>
<1>1. Limiting => UNCHANGED <<browser, request, order, amendment, tablet, now>>
  BY DEF Limiting, protectLogin, recordLoginFailure, clearLoginFailures,
         deleteExpiredRateLimitBuckets, notShop
<1>2. Selling => UNCHANGED <<browser, request, order, amendment, tablet, now>>
  BY DEF Selling, updateStore, createCategory, deleteCategory, createProduct, importCsvCatalog,
         updateProduct, deleteProduct, replaceProductOptions, updateOption, commitProductOptions,
         notMenu
<1>3. Buying => UNCHANGED <<amendment, tablet, now>>
  BY DEF Buying, addItem, updateQty, removeItem, choosesMethod, reopens, losesAnswer,
         deleteAddress, createAddress, refreshQuote, placeOrder, arrives, readsGroups,
         readsOptions, readsMatrix, createOnlinePayment, dies, createOrder, paymentEnds,
         notServer, notOrders
<1>4. Amending => UNCHANGED <<browser, request, now>>
  BY DEF Amending, proposeAmendment, looksForPending, readsItems, insertsProposal,
         withdrawAmendment, storeUpdateOrderStatus, cancelsOrder, approveAmendment,
         rejectAmendment, notAmended
<1>5. QED
  BY <1>1, <1>2, <1>3, <1>4

LEMMA TypeStep == ASSUME MenuInv, VisitInv, TypeInv, [Next]_vars  PROVE TypeInv'
<1> USE DEF TypeInv
<1>1. OrdersGoOn
  BY VisitStep
<1>2. ASSUME UNCHANGED <<browser, request, order, amendment, tablet>>
      PROVE  PagesTyped' /\ RequestsTyped' /\ OrdersTyped' /\ ProposalsTyped'
  BY <1>1, <1>2, PagesSame, RequestsSame, OrdersSameTyped, ProposalsSame
<1>3. CASE Limiting
  <2>1. ShopTyped'
    BY <1>3, MenuKept, ShopSame
  <2>2. QED
    BY <1>2, <1>3, <2>1, OthersStay
<1>4. CASE Selling
  <2>1. ShopTyped'
    BY <1>4, SellingTyped
  <2>2. QED
    BY <1>2, <1>4, <2>1, OthersStay
<1>5. CASE Buying
  <2>1. ShopTyped'
    BY <1>5, MenuKept, ShopSame
  <2>2. PagesTyped' /\ RequestsTyped' /\ OrdersTyped'
    BY <1>5, BuyingTyped
  <2>3. UNCHANGED <<amendment, tablet, now>>
    BY <1>5, OthersStay
  <2>4. ProposalsTyped'
    BY <1>1, <2>3, ProposalsSame
  <2>5. QED
    BY <2>1, <2>2, <2>3, <2>4
<1>6. CASE Amending
  <2>1. ShopTyped'
    BY <1>6, MenuKept, ShopSame
  <2>2. UNCHANGED <<browser, request, now>>
    BY <1>6, OthersStay
  <2>3. PagesTyped' /\ RequestsTyped'
    BY <2>2, PagesSame, RequestsSame
  <2>4. ProposalsTyped' /\ OrdersTyped'
    BY <1>1, <1>6, AmendingTyped
  <2>5. QED
    BY <2>1, <2>2, <2>3, <2>4
<1>7. CASE TimePasses
  <2>1. ShopTyped'
    BY <1>7, MenuKept, ShopSame
  <2>2. now' \in Instants /\ UNCHANGED <<browser, request, order, amendment, tablet>>
    BY <1>7 DEF TimePasses
  <2>3. QED
    BY <1>2, <2>1, <2>2
<1>8. CASE UNCHANGED vars
  <2>1. UNCHANGED <<menu, browser, request, order, amendment, tablet, now>>
    BY <1>8 DEF vars
  <2>2. ShopTyped'
    BY <2>1, ShopSame
  <2>3. QED
    BY <1>2, <2>1, <2>2
<1>9. QED
  BY <1>3, <1>4, <1>5, <1>6, <1>7, <1>8 DEF Next

(* Whatever customers, tablets and editors do to each other, no product is in  *)
(* a category that is gone, no live tree or replacement on a product that is,  *)
(* and what an order, a proposal or a counter holds is of its type, down to    *)
(* the totals that catalog.service.ts computes of a menu in pieces.            *)
THEOREM StorefrontTypes == Spec => []TypeOK
<1>1. Init => MenuInv /\ VisitInv /\ LimitInv /\ TypeInv
  BY MenuInit, VisitInit, LimitInit, TypeInit
<1>2. MenuInv /\ VisitInv /\ LimitInv /\ TypeInv /\ [Next]_vars
        => (MenuInv /\ VisitInv /\ LimitInv /\ TypeInv)'
  BY MenuStep, VisitStep, LimitStep, TypeStep
<1>3. MenuInv /\ VisitInv /\ LimitInv /\ TypeInv => TypeOK
  <2> SUFFICES ASSUME MenuInv, VisitInv, LimitInv, TypeInv  PROVE TypeOK
    OBVIOUS
  <2> USE DEF TypeInv
  <2>1. ASSUME NEW k \in DOMAIN bucket
        PROVE  /\ k[1] \in DOMAIN Policies /\ bucket[k].count > 0
               /\ bucket[k].expires >= bucket[k].blocked
    <3>1. RowRight(k[1], bucket[k], now) /\ now \in Nat
      BY DEF LimitInv
    <3>2. Longest(k[1]) \in Nat
      BY <3>1, LongestType DEF RowRight
    <3>3. QED
      BY <3>1, <3>2 DEF RowRight
  <2>2. /\ \A p \in Products : IsRow(product[p]) => product[p].category \in category
        /\ \A t \in Trees : live(t) => IsRow(product[tree[t].product])
        /\ \A r \in replacing : IsRow(product[r.product])
    BY DEF ShopTyped, ProductTyped
  <2>3. \A r \in Requests : Waiting(r) =>
          request[r].at \in {"ARRIVES", "GROUPS", "OPTIONS", "MATRIX", "INSERTS", "PAYS"}
    BY DEF RequestsTyped, RequestTyped, Reading
  <2>4. \A c \in Customers : page[c].waits # None => request[page[c].waits].kind = "ORDER"
    BY DEF VisitInv, WaitsRight, WaitsFor
  <2>5. \A o \in Orders : Placed(o) =>
          /\ order[o].status \in {"AWAITING_PAYMENT", "PENDING", "ACCEPTED", "PREPARING", "READY",
                                  "CANCELLED"}
          /\ order[o].total \in Nat /\ order[o].refund \in Nat
          /\ order[o].status = "AWAITING_PAYMENT" => order[o].payment.status = "PENDING"
    BY DEF OrdersTyped, OrderTyped
  <2>6. \A a \in Amendments : amendment[a] # None =>
          amendment[a].status \in {"PROPOSED", "APPROVED", "REJECTED", "EXPIRED"}
    BY DEF ProposalsTyped, AmendmentTyped
  <2>7. QED
    BY <2>1, <2>2, <2>3, <2>4, <2>5, <2>6 DEF TypeOK
<1>4. QED
  BY <1>1, <1>2, <1>3, PTL DEF Spec
=============================================================================
