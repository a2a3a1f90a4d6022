------------------------------- MODULE Catalog --------------------------------
(* catalog.service.ts and the pure functions of packages/shared that price     *)
(* what it reads.  A tree of options is the groups that one call wrote; option *)
(* <<t, g, o>> is the o-th of the g-th group of tree t, and keeps its price    *)
(* and availability until its tree is deleted.                                 *)
EXTENDS RateLimits

live(t) == tree[t] # None /\ tree[t].live
TreesOf(p) == {t \in Trees : live(t) /\ tree[t].product = p}
FreshTree(t) == tree[t] = None /\ \A u \in 1..(t - 1) : tree[u] # None
NotReplacing(p) == \A r \in replacing : r.product # p

(* loadGroupsForProducts, as its four statements see the rows.                 *)
NoGroups == [t \in {} |-> <<>>]
GroupsNow(p) == [t \in TreesOf(p) |-> tree[t].groups]
WithOptionsNow(groups) ==
  [t \in DOMAIN groups |->
     IF live(t) THEN tree[t].groups
     ELSE [g \in DOMAIN groups[t] |-> [groups[t][g] EXCEPT !.options = <<>>]]]
WithMatrixNow(groups) ==
  [t \in DOMAIN groups |->
     IF live(t) THEN groups[t]
     ELSE [g \in DOMAIN groups[t] |->
             LET options == groups[t][g].options
             IN [groups[t][g] EXCEPT !.options =
                   [o \in DOMAIN options |-> [options[o] EXCEPT !.matrix = <<>>]]]]]

(* calcItemPrice of one unit, for the chosen options.                          *)
GroupOf(groups, o) == groups[o[1]][o[2]]
OptionOf(groups, o) == GroupOf(groups, o).options[o[3]]
Of(groups, chosen, type) == {o \in chosen : GroupOf(groups, o).type = type}

Selectable(row, groups, chosen) ==
  /\ IsRow(row) /\ row.available
  /\ \A o \in chosen :
       /\ o[1] \in DOMAIN groups /\ o[2] \in DOMAIN groups[o[1]]
       /\ o[3] \in DOMAIN GroupOf(groups, o).options
       /\ OptionOf(groups, o).available
  /\ \A t \in DOMAIN groups : \A g \in DOMAIN groups[t] :
       Cardinality({o \in chosen : o[1] = t /\ o[2] = g}) \in groups[t][g].min..groups[t][g].max

VariationPrice(row, groups, chosen) ==
  LET prices == {OptionOf(groups, o).price : o \in Of(groups, chosen, "VARIATION")} \ {None}
  IN IF prices = {} THEN row.base ELSE CHOOSE price \in prices : TRUE

FlavorPrice(row, groups, chosen, f) ==
  LET matrix == OptionOf(groups, f).matrix
      ofVariation == {matrix[v[3]] : v \in {x \in Of(groups, chosen, "VARIATION") : x[3] \in DOMAIN matrix}}
      known == ofVariation \ {None}
  IN IF known # {} THEN CHOOSE price \in known : TRUE
     ELSE IF OptionOf(groups, f).price # None THEN OptionOf(groups, f).price
     ELSE VariationPrice(row, groups, chosen)

calcItemPrice(row, groups, chosen) ==
  LET flavors == {FlavorPrice(row, groups, chosen, f) : f \in Of(groups, chosen, "FLAVOR")}
      addons == {o \in Of(groups, chosen, "ADDON") : OptionOf(groups, o).price # None}
  IN (IF flavors # {} THEN Max(flavors) ELSE VariationPrice(row, groups, chosen))
       + SumOver(addons, LAMBDA o : OptionOf(groups, o).price)

(* isOpenNow and calcDeliveryFee.                                              *)
isOpenNow(hours) ==
  LET dow == (now \div DAY) % WEEK
      minutes == now % DAY
  IN \E h \in hours :
       IF h.close > h.open THEN h.dow = dow /\ minutes >= h.open /\ minutes < h.close
       ELSE \/ h.dow = dow /\ minutes >= h.open
            \/ h.dow = (dow + 6) % WEEK /\ minutes < h.close

calcDeliveryFee(cfg, distance) ==
  LET halves == (distance + 4) \div 5
      perKm == (cfg.perKm * halves + 1) \div 2
  IN IF cfg.mode = "FIXED" THEN cfg.fixed
     ELSE IF cfg.perKm = None THEN None
     ELSE IF cfg.maxKm # None /\ distance > cfg.maxKm * 10 THEN None
     ELSE Max({perKm} \cup ({cfg.minFee} \ {None}))
-----------------------------------------------------------------------------
notMenu == UNCHANGED <<bucket, signing, browser, request, order, amendment, tablet, now>>

updateStore ==
  /\ Takes("edit")
  /\ \/ store' = [store EXCEPT !.paused = ~@]
     \/ \E min \in {None, 20} : store' = [store EXCEPT !.minOrder = min]
     \/ \E fixed \in {None, 5} : store' = [store EXCEPT !.fee.mode = "FIXED", !.fee.fixed = fixed]
  /\ UNCHANGED <<category, product, tree, replacing>> /\ notMenu

createCategory(k) ==
  /\ Takes("edit")
  /\ category' = category \cup {k}
  /\ UNCHANGED <<store, product, tree, replacing>> /\ notMenu

(* What comes between the look and the delete, the foreign key refuses.        *)
deleteCategory(k) ==
  /\ k \in category /\ \A p \in Products : IsRow(product[p]) => product[p].category # k
  /\ Takes("edit")
  /\ category' = category \ {k}
  /\ UNCHANGED <<store, product, tree, replacing>> /\ notMenu

createProduct(p, k) ==
  /\ product[p] = None /\ k \in category
  /\ Takes("edit")
  /\ product' = [product EXCEPT ![p] = [category |-> k, base |-> 10, available |-> TRUE]]
  /\ UNCHANGED <<store, category, tree, replacing>> /\ notMenu

updateProduct(p) ==
  /\ IsRow(product[p]) /\ NotReplacing(p)
  /\ Takes("edit")
  /\ \/ product' = [product EXCEPT ![p].available = ~@]
     \/ \E base \in {10, 12} : product' = [product EXCEPT ![p].base = base]
     \/ \E k \in category : product' = [product EXCEPT ![p].category = k]
  /\ UNCHANGED <<store, category, tree, replacing>> /\ notMenu

deleteProduct(p) ==
  /\ IsRow(product[p]) /\ NotReplacing(p)
  /\ Takes("edit")
  /\ product' = [product EXCEPT ![p] = Gone]
  /\ tree' = [t \in Trees |-> IF t \in TreesOf(p) THEN [tree[t] EXCEPT !.live = FALSE] ELSE tree[t]]
  /\ UNCHANGED <<store, category, replacing>> /\ notMenu

WithOption(row, g, o, option) ==
  [row EXCEPT !.groups = [row.groups EXCEPT ![g].options[o] = option]]

updateOption(t, g, o) ==
  /\ live(t) /\ NotReplacing(tree[t].product)
  /\ g \in DOMAIN tree[t].groups /\ o \in DOMAIN tree[t].groups[g].options
  /\ Takes("edit")
  /\ LET old == tree[t].groups[g].options[o]
         news == {[old EXCEPT !.available = ~@]} \cup {[old EXCEPT !.price = price] : price \in {None, 3}}
     IN \E new \in news : tree' = [tree EXCEPT ![t] = WithOption(@, g, o, new)]
  /\ UNCHANGED <<store, category, product, replacing>> /\ notMenu

replacesWithoutLock(t, p) ==
  /\ IsRow(product[p])
  /\ Takes("edit")
  /\ replacing' = replacing \cup {[by |-> t, product |-> p, deletes |-> TreesOf(p)]}
  /\ UNCHANGED <<store, category, product, tree>> /\ notMenu

(* replaceProductOptions: its transaction locks the product and deletes the    *)
(* old groups, then inserts the new ones; others see both when it commits.     *)
replaceProductOptions(t, p) ==
  /\ IsRow(product[p]) /\ NotReplacing(p)
  /\ Takes("edit")
  /\ replacing' = replacing \cup {[by |-> t, product |-> p, deletes |-> TreesOf(p)]}
  /\ UNCHANGED <<store, category, product, tree>> /\ notMenu

commitProductOptions(r, t, groups) ==
  /\ FreshTree(t)
  /\ replacing' = replacing \ {r}
  /\ tree' = [u \in Trees |->
                IF u = t THEN [product |-> r.product, live |-> TRUE, groups |-> groups]
                ELSE IF u \in r.deletes THEN [tree[u] EXCEPT !.live = FALSE]
                ELSE tree[u]]
  /\ UNCHANGED <<store, category, product, left>> /\ notMenu

(* importCsvCatalog of one line: its category is made if there is none.        *)
importCsvCatalog(p, k) ==
  /\ product[p] = None
  /\ Takes("edit")
  /\ category' = category \cup {k}
  /\ product' = [product EXCEPT ![p] = [category |-> k, base |-> 10, available |-> TRUE]]
  /\ UNCHANGED <<store, tree, replacing>> /\ notMenu

Selling ==
  \/ updateStore
  \/ \E k \in Categories : createCategory(k) \/ deleteCategory(k)
  \/ \E p \in Products, k \in Categories : createProduct(p, k) \/ importCsvCatalog(p, k)
  \/ \E p \in Products : updateProduct(p) \/ deleteProduct(p)
  \/ \E t \in Tablets, p \in Products : replaceProductOptions(t, p)
  \/ \E t \in Trees, g, o \in 1..2 : updateOption(t, g, o)
  \/ \E r \in replacing, t \in Trees, groups \in Menus : commitProductOptions(r, t, groups)
=============================================================================
