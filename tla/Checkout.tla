------------------------------- MODULE Checkout -------------------------------
(* The cart and the checkout page of the web app (stores/cart.ts,              *)
(* CheckoutView.vue), quoteOrder and createOrder.  An answer is lost when the  *)
(* page gives up on it; its request goes on.                                   *)
EXTENDS Catalog

Dead == {"REJECTED", "CANCELLED", "EXPIRED"}
ONLINE == {"PIX_ONLINE", "CARD_ONLINE"}
NoPayment == [status |-> None, made |-> FALSE, review |-> FALSE]

(* What createOrder answers for an order that the key already has.             *)
resultFromExisting(o) ==
  LET payment == order[o].payment
  IN IF payment.status = None THEN "OK"
     ELSE IF payment.status \in Dead THEN "PAYMENT_REJECTED"
     ELSE IF payment.review \/ (payment.status = "PENDING" /\ ~payment.made) THEN "UNAVAILABLE"
     ELSE "OK"

AnsweredAnew(c, r, result) ==
  LET p == page[c]
  IN IF p.waits # r THEN p
     ELSE IF result = "OK" THEN NewVisit(p.visit + 1)
     ELSE IF p.method = "CARD_ONLINE" THEN [p EXCEPT !.waits = None, !.attempt = @ + 1]
     ELSE [p EXCEPT !.waits = None]

(* What placeOrder does with an answer that it still waits for.                *)
Answered(c, r, result) ==
  LET p == page[c]
  IN IF p.waits # r THEN p
     ELSE IF result = "OK" THEN NewVisit(p.visit + 1)
     ELSE IF result = "PAYMENT_REJECTED" /\ p.method = "CARD_ONLINE"
       THEN [p EXCEPT !.waits = None, !.attempt = @ + 1]
     ELSE [p EXCEPT !.waits = None]

Answer(r, result) ==
  /\ request' = [request EXCEPT ![r] = NoRequest]
  /\ page' = [page EXCEPT ![request[r].who] = Answered(request[r].who, r, result)]
-----------------------------------------------------------------------------
notServer == UNCHANGED <<bucket, signing, menu, order, amendment, tablet, now>>
Shows(c, p) == page' = [page EXCEPT ![c] = p]

(* Items are added on the store's page, before the checkout page is opened.    *)
addItem(c, p, chosen) ==
  /\ page[c].quote = None /\ page[c].attempt = 1 /\ page[c].waits = None
  /\ Selectable(product[p], GroupsNow(p), chosen)
  /\ Takes("browse")
  /\ Shows(c, [page[c] EXCEPT !.items = Append(@,
       [product |-> p, chosen |-> chosen, quantity |-> 1,
        unit |-> calcItemPrice(product[p], GroupsNow(p), chosen)])])
  /\ UNCHANGED <<address, request>> /\ notServer

updateQty(c, i) ==
  /\ i \in DOMAIN page[c].items
  /\ page[c].quote = None /\ page[c].attempt = 1 /\ page[c].waits = None
  /\ Takes("browse")
  /\ LET items == [page[c].items EXCEPT ![i].quantity = 2]
     IN Shows(c, [page[c] EXCEPT !.items = items])
  /\ UNCHANGED <<address, request>> /\ notServer

removeItem(c, i) ==
  /\ i \in DOMAIN page[c].items
  /\ Takes("browse")
  /\ Shows(c, [page[c] EXCEPT !.items =
       SubSeq(@, 1, i - 1) \o SubSeq(@, i + 1, Len(@))])
  /\ UNCHANGED <<address, request>> /\ notServer

choosesMethod(c, method) ==
  /\ page[c].method # method /\ page[c].items # <<>>
  /\ Takes("browse")
  /\ Shows(c, [page[c] EXCEPT !.method = method])
  /\ UNCHANGED <<address, request>> /\ notServer

(* The cart is kept in the browser; the key is not.                            *)
reopens(c) ==
  /\ page[c].items # <<>>
  /\ Takes("browse")
  /\ Shows(c, [NewVisit(page[c].visit + 1) EXCEPT !.items = page[c].items])
  /\ UNCHANGED <<address, request>> /\ notServer

Sent(c, kind) ==
  [at |-> "ARRIVES", kind |-> kind, who |-> c, visit |-> page[c].visit, key |-> KeyOf(c),
   method |-> page[c].method, items |-> page[c].items, store |-> None, rows |-> <<>>,
   groups |-> <<>>, quote |-> None, order |-> None]

refreshQuote(c, r) ==
  /\ ~Waiting(r) /\ page[c].items # <<>>
  /\ Takes("quote")
  /\ Shows(c, [page[c] EXCEPT !.quote = None])
  /\ request' = [request EXCEPT ![r] = Sent(c, "QUOTE")]
  /\ UNCHANGED address /\ notServer

placeOrder(c, r) ==
  /\ ~Waiting(r)
  /\ page[c].waits = None /\ page[c].quote # None /\ page[c].items # <<>>
  /\ ~page[c].quote.problems
  /\ Takes("submit")
  /\ Shows(c, [page[c] EXCEPT !.waits = r])
  /\ request' = [request EXCEPT ![r] = Sent(c, "ORDER")]
  /\ UNCHANGED address /\ notServer

losesAnswer(c) ==
  /\ page[c].waits # None
  /\ Takes("lose")
  /\ Shows(c, [page[c] EXCEPT !.waits = None])
  /\ UNCHANGED <<address, request>> /\ notServer

deleteAddress(c) ==
  /\ address[c] # None
  /\ Takes("edit")
  /\ address' = [address EXCEPT ![c] = None]
  /\ UNCHANGED <<page, request>> /\ notServer

createAddress(c, distance) ==
  /\ address[c] = None
  /\ Takes("edit")
  /\ address' = [address EXCEPT ![c] = distance]
  /\ UNCHANGED <<page, request>> /\ notServer
-----------------------------------------------------------------------------
notOrders == UNCHANGED <<signing, menu, address, amendment, tablet, left, now>>
At(r, step) == request[r].at = step
Goes(r, held) == request' = [request EXCEPT ![r] = held] /\ UNCHANGED page

OrdersWith(key) == {o \in Orders : Placed(o) /\ order[o].key = key}

(* protectQuote and protectCreate; then the key, the store and the products.   *)
arrives(r) ==
  LET q == request[r]
      mine == IF q.kind = "QUOTE" THEN QuoteUser ELSE CreateUser
      shared == IF q.kind = "QUOTE" THEN QuoteIp ELSE CreateIp
      known == IF q.kind = "QUOTE" THEN {} ELSE OrdersWith(q.key)
  IN /\ At(r, "ARRIVES")
     /\ bucket' = ConsumedAll(mine, shared, q.who)
     /\ IF ~GrantAll(mine \cup shared, q.who) THEN Answer(r, "UNAVAILABLE")
        ELSE IF known # {} THEN \E o \in known : Answer(r, resultFromExisting(o))
        ELSE Goes(r, [q EXCEPT !.at = "GROUPS", !.store = store,
                        !.rows = [i \in DOMAIN q.items |-> product[q.items[i].product]]])
     /\ UNCHANGED order /\ notOrders

readsGroups(r) ==
  /\ At(r, "GROUPS")
  /\ LET items == request[r].items
         ofItem(i) == IF IsRow(request[r].rows[i]) THEN GroupsNow(items[i].product) ELSE NoGroups
     IN Goes(r, [request[r] EXCEPT !.at = "OPTIONS", !.groups = [i \in DOMAIN items |-> ofItem(i)]])
  /\ UNCHANGED <<bucket, order>> /\ notOrders

readsOptions(r) ==
  /\ At(r, "OPTIONS")
  /\ LET groups == request[r].groups
     IN Goes(r, [request[r] EXCEPT !.at = "MATRIX",
                   !.groups = [i \in DOMAIN groups |-> WithOptionsNow(groups[i])]])
  /\ UNCHANGED <<bucket, order>> /\ notOrders

(* The rest of quoteOrder: one problem is as good as another.                  *)
quoteOrder(q, groups) ==
  LET valid == {i \in DOMAIN q.items : Selectable(q.rows[i], groups[i], q.items[i].chosen)}
      unit(i) == calcItemPrice(q.rows[i], groups[i], q.items[i].chosen)
      subtotal == SumOver(valid, LAMBDA i : unit(i) * q.items[i].quantity)
      fee == IF address[q.who] = None THEN None ELSE calcDeliveryFee(q.store.fee, address[q.who])
  IN [problems |-> \/ valid # DOMAIN q.items
                   \/ q.store.paused \/ ~isOpenNow(q.store.hours)
                   \/ IF q.store.minOrder = None THEN FALSE ELSE subtotal < q.store.minOrder
                   \/ fee = None,
      items |-> [i \in valid |-> [unit |-> unit(i), quantity |-> q.items[i].quantity]],
      subtotal |-> subtotal,
      fee |-> IF fee = None THEN 0 ELSE fee]

readsMatrix(r) ==
  LET q == request[r]
      quote == quoteOrder(q, [i \in DOMAIN q.groups |-> WithMatrixNow(q.groups[i])])
      shown == [problems |-> quote.problems, total |-> quote.subtotal + quote.fee]
  IN /\ At(r, "MATRIX")
     /\ IF q.kind = "QUOTE"
          THEN /\ request' = [request EXCEPT ![r] = NoRequest]
               /\ page' = IF page[q.who].visit # q.visit THEN page
                          ELSE [page EXCEPT ![q.who] = [@ EXCEPT !.quote = shown]]
        ELSE IF quote.problems THEN Answer(r, "UNAVAILABLE")
        ELSE Goes(r, [q EXCEPT !.at = "INSERTS", !.quote = quote])
     /\ UNCHANGED <<bucket, order>> /\ notOrders

FreshOrder(o) == ~Placed(o) /\ \A n \in 1..(o - 1) : Placed(n)

NewOrder(q) ==
  [who |-> q.who, visit |-> q.visit, key |-> q.key, method |-> q.method,
   status |-> IF q.method \in ONLINE THEN "AWAITING_PAYMENT" ELSE "PENDING",
   items |-> q.quote.items, fee |-> q.quote.fee, total |-> q.quote.subtotal + q.quote.fee,
   refund |-> 0,
   payment |-> IF q.method \in ONLINE THEN [NoPayment EXCEPT !.status = "PENDING"] ELSE NoPayment]

(* The transaction of createOrder, and the unique index on customer and key.   *)
createOrder(r, o) ==
  LET q == request[r]
      known == OrdersWith(q.key)
  IN /\ At(r, "INSERTS") /\ FreshOrder(o)
     /\ IF known # {}
          THEN /\ \E n \in known : Answer(r, resultFromExisting(n))
               /\ UNCHANGED order
          ELSE /\ order' = [order EXCEPT ![o] = NewOrder(q)]
               /\ IF q.method \in ONLINE THEN Goes(r, [q EXCEPT !.at = "PAYS", !.order = o])
                  ELSE Answer(r, "OK")
     /\ UNCHANGED bucket /\ notOrders

(* A snapshot that is applied ends the review, if there was one.               *)
Reports(payment, status) ==
  [payment EXCEPT !.status = status, !.made = TRUE, !.review = FALSE]

leavesOrder(o, status) ==
  LET paid == [order[o] EXCEPT !.payment = Reports(@, status)]
  IN IF order[o].status # "AWAITING_PAYMENT" \/ status # "APPROVED" THEN paid
     ELSE [paid EXCEPT !.status = "PENDING"]

(* A state that the provider reports, and what it makes of the order.          *)
Reported(o, status) ==
  LET paid == [order[o] EXCEPT !.payment = Reports(@, status)]
  IN IF order[o].status # "AWAITING_PAYMENT" \/ status = "PENDING" THEN paid
     ELSE [paid EXCEPT !.status = IF status = "APPROVED" THEN "PENDING" ELSE "CANCELLED"]

(* createOnlinePayment: the snapshot counts only while the create is uncertain *)
createOnlinePayment(r) ==
  LET o == request[r].order
      payment == order[o].payment
  IN /\ At(r, "PAYS")
     /\ \/ Answer(r, "UNAVAILABLE") /\ UNCHANGED order
        \/ /\ payment.status # "PENDING" \/ payment.made
           /\ Answer(r, resultFromExisting(o)) /\ UNCHANGED order
        \/ /\ payment.status = "PENDING" /\ ~payment.made
           /\ \E status \in {"PENDING", "APPROVED", "REJECTED"} :
                /\ order' = [order EXCEPT ![o] = Reported(o, status)]
                /\ Answer(r, IF status = "REJECTED" THEN "PAYMENT_REJECTED" ELSE "OK")
        \/ /\ payment.status = "PENDING" /\ ~payment.made
           /\ order' = [order EXCEPT ![o] = [@ EXCEPT !.payment = [payment EXCEPT !.review = TRUE]]]
           /\ Answer(r, "UNAVAILABLE")
     /\ UNCHANGED bucket /\ notOrders

(* The isolate ends before it could answer.                                    *)
dies(r) ==
  /\ Waiting(r)
  /\ Takes("lose")
  /\ request' = [request EXCEPT ![r] = NoRequest]
  /\ page' = [page EXCEPT ![request[r].who] = Answered(request[r].who, r, "UNAVAILABLE")]
  /\ UNCHANGED <<bucket, signing, menu, address, order, amendment, tablet, now>>

(* Recovery, notifications and expiry, which the Payments module works out.    *)
paymentEnds(o) ==
  /\ Placed(o) /\ order[o].payment.status = "PENDING"
  /\ Takes("shop")
  /\ \E status \in {"PENDING", "APPROVED", "REJECTED", "EXPIRED"} :
       order' = [order EXCEPT ![o] = Reported(o, status)]
  /\ UNCHANGED <<bucket, signing, menu, browser, request, amendment, tablet, now>>

Buying ==
  \/ \E c \in Customers, p \in Products, t \in Trees, choice \in Picks :
       addItem(c, p, {<<t, x[1], x[2]>> : x \in choice})
  \/ \E c \in Customers, i \in 1..2 : updateQty(c, i) \/ removeItem(c, i)
  \/ \E c \in Customers, method \in Methods : choosesMethod(c, method)
  \/ \E c \in Customers : reopens(c) \/ losesAnswer(c) \/ deleteAddress(c) \/ createAddress(c, 42)
  \/ \E c \in Customers, r \in Requests : refreshQuote(c, r) \/ placeOrder(c, r)
  \/ \E r \in Requests : \/ arrives(r) \/ readsGroups(r) \/ readsOptions(r) \/ readsMatrix(r)
                         \/ createOnlinePayment(r) \/ dies(r)
  \/ \E r \in Requests, o \in Orders : createOrder(r, o)
  \/ \E o \in Orders : paymentEnds(o)
=============================================================================
