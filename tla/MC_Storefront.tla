---------------------------- MODULE MC_Storefront -----------------------------
(* One customer and a small menu; each scenario is an initial state and a few  *)
(* calls to come.                                                              *)
EXTENDS Storefront, TLC

CONSTANTS ada, pizza, soda, food, drinks, r1, r2, t1, t2

Policy(limit, window, retention, cooldown) ==
  [limit |-> limit, window |-> window, retention |-> retention, cooldown |-> cooldown]
Limits ==
  "login-ip-15m" :> Policy(3, 15, 60, None)
  @@ "login-failure-identity-15m" :> Policy(2, 15, 60, None)
  @@ "login-failure-identity-hour" :> Policy(2, 60, 1440, 15)
  @@ "order-quote-user-minute" :> Policy(2, 1, 60, None)
  @@ "order-quote-user-day" :> Policy(9, 1440, 2880, None)
  @@ "order-quote-ip-minute" :> Policy(9, 1, 60, None)
  @@ "order-create-user-hour" :> Policy(3, 60, 1440, None)
  @@ "order-create-user-day" :> Policy(9, 1440, 2880, None)
  @@ "order-create-ip-hour" :> Policy(9, 60, 1440, None)

Option(price, matrix) == [price |-> price, available |-> TRUE, matrix |-> matrix]
Group(type, min, max, options) == [type |-> type, min |-> min, max |-> max, options |-> options]
Sizes == Group("VARIATION", 1, 1, <<Option(20, <<>>), Option(30, <<>>)>>)
Flavors == Group("FLAVOR", 1, 2, <<Option(None, <<22, 33>>), Option(25, <<None, 40>>)>>)
Extras == Group("ADDON", 0, 1, <<Option(3, <<>>)>>)
TwoMenus == {<<Sizes, Flavors>>, <<Extras>>}
SomeChoices == {{<<1, 1>>, <<2, 1>>}, {<<1, 2>>, <<2, 1>>, <<2, 2>>}, {}}

Kinds == {"login", "edit", "browse", "quote", "submit", "lose", "shop", "amend", "wait"}
Row(base) == [category |-> food, base |-> base, available |-> TRUE]
Open == [paused |-> FALSE, minOrder |-> None,
         hours |-> {[dow |-> 6, open |-> 1380, close |-> 65], [dow |-> 0, open |-> 660, close |-> 1380]},
         fee |-> [mode |-> "DISTANCE", fixed |-> None, minFee |-> 4, perKm |-> 6, maxKm |-> 4]]
NoOrders == [o \in {} |-> NoOrder]
Scenario(f, placed) ==
  [store |-> Open, category |-> {food}, product |-> pizza :> Row(12) @@ soda :> None,
   tree |-> 1 :> [product |-> pizza, live |-> TRUE, groups |-> <<Sizes, Flavors>>],
   order |-> placed, left |-> [k \in Kinds |-> IF k \in DOMAIN f THEN f[k] ELSE 0]]

Item(unit, quantity) == [unit |-> unit, quantity |-> quantity]
OneAccepted == 1 :> [who |-> ada, visit |-> 0, key |-> <<ada, 0, 1>>, method |-> "CARD_ONLINE",
                status |-> "ACCEPTED", items |-> <<Item(10, 2), Item(7, 2)>>, fee |-> 5, total |-> 39,
                refund |-> 0, payment |-> [status |-> "APPROVED", made |-> TRUE, review |-> FALSE]]

Logins == Scenario([login |-> 3, wait |-> 3], NoOrders)
Editing == Scenario([edit |-> 4], NoOrders)
Browsing == Scenario([edit |-> 2, browse |-> 1, quote |-> 1, submit |-> 1], NoOrders)
Closing == Scenario([edit |-> 1, browse |-> 1, quote |-> 1, submit |-> 1, wait |-> 1], NoOrders)
Trying == Scenario([browse |-> 3, quote |-> 1, submit |-> 3, lose |-> 1, shop |-> 1], NoOrders)
Changing == Scenario([amend |-> 4, shop |-> 2], OneAccepted)

Everything == {Logins, Editing, Browsing, Closing, Trying, Changing}
OneChange == {Changing}
Moments == {0, 50, 61, 70, 1500}
People == {ada}
Items == {pizza, soda}
Shelf == {food, drinks}
Calls == {r1, r2}
Counters == {t1, t2}
Ways == {"CASH", "PIX_ONLINE", "CARD_ONLINE"}
SameCalls == Permutations(Calls) \cup Permutations(Counters)
=============================================================================
