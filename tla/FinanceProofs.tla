---------------------------- MODULE FinanceProofs -----------------------------
(* Theorems of Finance for every number of closers, any orders, terms, amounts *)
(* and periods: how often an entry is settled, and what a closing leaves.      *)
EXTENDS Finance, Sums

(* A running closing, field by field.                                          *)
HasFields(t) ==
  t = [period |-> t.period, todo |-> t.todo, seen |-> t.seen, created |-> t.created,
       wrote |-> t.wrote, totals |-> t.totals, doc |-> t.doc, sum |-> t.sum]

(* Shapes: the closings and the documents are what the actions make of them.   *)
Shapes ==
  /\ closing = [c \in Closers |-> closing[c]]
  /\ \A c \in Running : HasFields(closing[c])
  /\ document = [d \in DOMAIN document |-> document[d]]
  /\ \A d \in DOMAIN document :
       /\ document[d] = [status |-> document[d].status, total |-> document[d].total]
       /\ document[d].status \in {"OPEN", "PAID"}

(* What a closing read is dated in its period, and so is what it has linked,   *)
(* each entry once, to the document of its own kind and party.                 *)
LinksAreRight ==
  \A c \in Running :
    /\ closing[c].period \in Periods
    /\ closing[c].todo \subseteq closing[c].seen
    /\ closing[c].seen \subseteq ledger
    /\ \A e \in closing[c].seen : e.day \in closing[c].period
    /\ \A i \in closing[c].wrote :
         i.entry \in closing[c].seen /\ i.document = Doc(i.entry, closing[c].period)
    /\ \A i, j \in closing[c].wrote : i.entry = j.entry => i = j

(* What left the list of a closing was linked by it.                           *)
NothingForgotten ==
  \A c \in Running : \A e \in closing[c].seen \ closing[c].todo :
    \E i \in closing[c].wrote : i.entry = e

(* No closing links what is settled or what another one is linking: the unique *)
(* index on the ledger entry, before the commit as after it.                   *)
LinkedOnce ==
  \A c \in Running : \A i \in closing[c].wrote :
    /\ \A j \in items : i.entry # j.entry
    /\ \A k \in Running \ {c} : \A j \in closing[k].wrote : i.entry # j.entry

(* The two ways in which a running closing changes; both keep its fields.      *)
Linked(t, todo, created, wrote, doc, sum) ==
  [t EXCEPT !.todo = todo, !.created = created, !.wrote = wrote, !.doc = doc, !.sum = sum]

Totalled(t, totals, doc) == [t EXCEPT !.doc = doc, !.totals = totals]

LEMMA LinkedFields ==
  ASSUME NEW t, HasFields(t), NEW todo, NEW created, NEW wrote, NEW doc, NEW sum,
         NEW next, next = Linked(t, todo, created, wrote, doc, sum)
  PROVE  /\ HasFields(next)
         /\ next.period = t.period /\ next.seen = t.seen
         /\ next.todo = todo /\ next.wrote = wrote
<1>1. /\ next.period = t.period /\ next.seen = t.seen
      /\ next.todo = todo /\ next.wrote = wrote
  BY DEF HasFields, Linked
<1>2. HasFields(next)
  BY DEF HasFields, Linked
<1>3. QED
  BY <1>1, <1>2

LEMMA TotalledFields ==
  ASSUME NEW t, HasFields(t), NEW totals, NEW doc, NEW next, next = Totalled(t, totals, doc)
  PROVE  /\ HasFields(next)
         /\ next.period = t.period /\ next.seen = t.seen
         /\ next.todo = t.todo /\ next.wrote = t.wrote
<1>1. /\ next.period = t.period /\ next.seen = t.seen
      /\ next.todo = t.todo /\ next.wrote = t.wrote
  BY DEF HasFields, Totalled
<1>2. HasFields(next)
  BY DEF HasFields, Totalled
<1>3. QED
  BY <1>1, <1>2

IInv == Shapes /\ LinksAreRight /\ NothingForgotten /\ LinkedOnce /\ SettledOnce

LEMMA Initially == FinanceInit => IInv
<1> SUFFICES ASSUME FinanceInit  PROVE IInv
  OBVIOUS
<1>1. /\ document = <<>> /\ items = {}
      /\ closing = [c \in Closers |-> None]
  BY DEF FinanceInit, SettlementInit
<1>2. Running = {}
  BY <1>1 DEF Running
<1>3. Shapes
  BY <1>1, <1>2 DEF Shapes
<1>4. QED
  BY <1>1, <1>2, <1>3 DEF IInv, LinksAreRight, NothingForgotten, LinkedOnce, SettledOnce

(* Earnings, and whatever else leaves the documents and closings alone.        *)
LEMMA DocumentsSame ==
  ASSUME IInv, UNCHANGED documents, ledger \subseteq ledger'  PROVE IInv'
BY DEF IInv, documents, Shapes, LinksAreRight, NothingForgotten, LinkedOnce, SettledOnce,
       Running, HasFields

(* No entry is ever taken out of the ledger.                                   *)
LEMMA LedgerGrows == ASSUME EarningsNext  PROVE ledger \subseteq ledger'
<1> USE DEF insertEntries
<1>1. ASSUME NEW o \in Orders,
             completeDeliveryReads(o) \/ failDelivery(o) \/ confirmReturn(o)
               \/ collectDelivery(o) \/ storeReleaseDriver(o)
      PROVE  ledger \subseteq ledger'
  BY <1>1 DEF completeDeliveryReads, failDelivery, confirmReturn, collectDelivery,
    storeReleaseDriver, recordReturnLedger
<1>2. ASSUME NEW t \in completing, completeDelivery(t)  PROVE ledger \subseteq ledger'
  BY <1>2 DEF completeDelivery, recordOrderLedger
<1>3. ASSUME NEW t \in Terms, NEW r \in BOOLEAN, proposeActiveShiftTerms(t, r)
      PROVE  ledger \subseteq ledger'
  BY <1>3 DEF proposeActiveShiftTerms
<1>4. ASSUME NEW accept \in BOOLEAN, decideActiveShiftTerms(accept)
      PROVE  ledger \subseteq ledger'
  BY <1>4 DEF decideActiveShiftTerms, recordPerDeliveryAdjustment
<1>5. ASSUME NEW approve \in BOOLEAN, decideShiftDaily(approve)  PROVE ledger \subseteq ledger'
  BY <1>5 DEF decideShiftDaily, recordShiftDaily
<1>6. ASSUME NEW to, EndShift(to)  PROVE ledger \subseteq ledger'
  BY <1>6 DEF EndShift, recordShiftDaily
<1>7. CASE cancelActiveShiftTerms \/ offerShiftReactivation \/ reactivateShift \/ DayPasses
  BY <1>7 DEF cancelActiveShiftTerms, offerShiftReactivation, reactivateShift, DayPasses
<1>8. QED
  BY <1>1, <1>2, <1>3, <1>4, <1>5, <1>6, <1>7 DEF EarningsNext

(* A closing ends without a trace.                                             *)
LEMMA AbortStep == ASSUME IInv, NEW c \in Closers, AbortClosing(c)  PROVE IInv'
<1> USE DEF IInv
<1>1. /\ closing' = [closing EXCEPT ![c] = None]
      /\ items' = items /\ document' = document /\ ledger' = ledger
  BY DEF AbortClosing, earnings
<1>2. /\ Running' = Running \ {c}
      /\ \A k \in Running' : closing'[k] = closing[k]
  BY <1>1 DEF Running, Shapes
<1>3. Shapes'
  BY <1>1, <1>2 DEF Shapes, HasFields
<1>4. LinksAreRight' /\ NothingForgotten'
  BY <1>1, <1>2 DEF LinksAreRight, NothingForgotten
<1>5. LinkedOnce'
  BY <1>1, <1>2 DEF LinkedOnce
<1>6. SettledOnce'
  BY <1>1 DEF SettledOnce
<1>7. QED
  BY <1>3, <1>4, <1>5, <1>6

LEMMA MarkPaidStep == ASSUME IInv, NEW d \in DOMAIN document, MarkPaid(d)  PROVE IInv'
<1> USE DEF IInv
<1>1. /\ document' = [document EXCEPT ![d] = [@ EXCEPT !.status = "PAID"]]
      /\ items' = items /\ closing' = closing /\ ledger' = ledger
  BY DEF MarkPaid, earnings
<1>2. Shapes'
  BY <1>1 DEF Shapes, HasFields, Running
<1>3. QED
  BY <1>1, <1>2 DEF LinksAreRight, NothingForgotten, LinkedOnce, SettledOnce, Running

LEMMA BeginStep ==
  ASSUME IInv, NEW c \in Closers, NEW p \in Periods, Begin(c, p)  PROVE IInv'
<1> USE DEF IInv
<1> DEFINE read == Dated(p)
           fresh == [period |-> p, todo |-> read, seen |-> read, created |-> {},
                     wrote |-> {}, totals |-> <<>>, doc |-> None, sum |-> 0]
<1>1. /\ closing' = [closing EXCEPT ![c] = fresh]
      /\ items' = items /\ document' = document /\ ledger' = ledger
  BY DEF Begin, earnings
<1>2. closing'[c] = fresh
  BY <1>1 DEF Shapes
<1>3. /\ Running' \subseteq Running \cup {c}
      /\ \A k \in Running' : k # c => k \in Running /\ closing'[k] = closing[k]
  BY <1>1 DEF Running, Shapes
<1>4. Shapes'
  <2>1. HasFields(fresh)
    BY DEF HasFields
  <2>2. \A k \in Running' : HasFields(closing[k])'
    BY <1>2, <1>3, <2>1 DEF Shapes, HasFields
  <2>3. QED
    BY <1>1, <2>2 DEF Shapes
<1>5. /\ fresh.period = p /\ fresh.todo = read /\ fresh.seen = read /\ fresh.wrote = {}
      /\ read \subseteq ledger /\ \A e \in read : e.day \in p
  BY DEF Dated
<1> HIDE DEF fresh, read
<1>6. LinksAreRight'
  BY <1>1, <1>2, <1>3, <1>5 DEF LinksAreRight
<1>7. NothingForgotten'
  BY <1>2, <1>3, <1>5 DEF NothingForgotten
<1>8. LinkedOnce'
  BY <1>1, <1>2, <1>3, <1>5 DEF LinkedOnce
<1>9. QED
  BY <1>1, <1>4, <1>6, <1>7, <1>8 DEF SettledOnce

(* The entry that is linked has no item yet, committed, own or of another.     *)
LEMMA LinkStep ==
  ASSUME IInv, NEW c \in Closers, NEW e \in ledger, LinkEntry(c, e)  PROVE IInv'
<1> USE DEF IInv
<1> DEFINE p == closing[c].period
           d == Doc(e, p)
           new == [entry |-> e, document |-> d]
           wrote == closing[c].wrote \cup {new}
           sum == TotalOf({i \in VisibleItems(c, wrote) : i.document = d})
           created == closing[c].created \cup ({d} \ DOMAIN document)
           next == [closing[c] EXCEPT !.todo = closing[c].todo \ {e},
                      !.created = created, !.wrote = wrote, !.doc = d, !.sum = sum]
<1>1. /\ closing' = [closing EXCEPT ![c] = next]
      /\ items' = items /\ document' = document /\ ledger' = ledger
  BY DEF LinkEntry, earnings
<1>2. /\ c \in Running /\ e \in closing[c].todo
      /\ ~HasItem(c, e) /\ ~Linking(c, e)
  BY DEF LinkEntry, Running, ToLink, Unsettled
<1>3. /\ HasFields(next)
      /\ next.period = p /\ next.seen = closing[c].seen
      /\ next.todo = closing[c].todo \ {e} /\ next.wrote = wrote
  <2>1. HasFields(closing[c])
    BY <1>2 DEF Shapes
  <2> DEFINE todo == closing[c].todo \ {e}
  <2>2. next = Linked(closing[c], todo, created, wrote, d, sum)
    BY DEF Linked
  <2> HIDE DEF next, sum, created, wrote, d, todo
  <2>3. /\ HasFields(next)
        /\ next.period = closing[c].period /\ next.seen = closing[c].seen
        /\ next.todo = todo /\ next.wrote = wrote
    BY <2>1, <2>2, LinkedFields
  <2>4. QED
    BY <2>3 DEF todo
<1>4. new.entry = e /\ new.document = d
  OBVIOUS
<1>5. \A i \in closing[c].wrote : i.entry # e
  BY <1>2 DEF HasItem
<1>6. \A i \in items : i.entry # e
  BY <1>2 DEF HasItem
<1>7. \A k \in Running \ {c} : \A i \in closing[k].wrote : i.entry # e
  BY <1>2 DEF Linking, Others
<1> HIDE DEF next, new, sum, created
<1>8. /\ closing'[c] = next
      /\ Running' \subseteq Running
      /\ \A k \in Running' : k # c => closing'[k] = closing[k]
  BY <1>1, <1>2 DEF Running, Shapes
<1>9. Shapes'
  <2>1. \A k \in Running' : HasFields(closing[k])'
    BY <1>3, <1>8 DEF Shapes, HasFields
  <2>2. QED
    BY <1>1, <2>1 DEF Shapes
<1>10. LinksAreRight'
  <2>1. ASSUME NEW k \in Running', k # c
        PROVE  /\ closing'[k].period \in Periods
               /\ closing'[k].todo \subseteq closing'[k].seen
               /\ closing'[k].seen \subseteq ledger'
               /\ \A x \in closing'[k].seen : x.day \in closing'[k].period
               /\ \A i \in closing'[k].wrote :
                    i.entry \in closing'[k].seen /\ i.document = Doc(i.entry, closing'[k].period)
               /\ \A i, j \in closing'[k].wrote : i.entry = j.entry => i = j
    BY <1>1, <1>8, <2>1 DEF LinksAreRight
  <2>2. /\ next.period \in Periods
        /\ next.todo \subseteq next.seen
        /\ next.seen \subseteq ledger'
        /\ \A x \in next.seen : x.day \in next.period
    BY <1>1, <1>2, <1>3 DEF LinksAreRight
  <2>3. \A i \in next.wrote : i.entry \in next.seen /\ i.document = Doc(i.entry, next.period)
    BY <1>2, <1>3, <1>4 DEF LinksAreRight
  <2>4. \A i, j \in next.wrote : i.entry = j.entry => i = j
    BY <1>2, <1>3, <1>4, <1>5 DEF LinksAreRight
  <2>5. QED
    BY <1>8, <2>1, <2>2, <2>3, <2>4 DEF LinksAreRight
<1>11. NothingForgotten'
  <2>1. \A x \in next.seen \ next.todo : \E i \in next.wrote : i.entry = x
    BY <1>2, <1>3, <1>4 DEF NothingForgotten
  <2>2. QED
    BY <1>8, <2>1 DEF NothingForgotten
<1>12. LinkedOnce'
  <2>1. \A i \in next.wrote : \A j \in items : i.entry # j.entry
    BY <1>2, <1>3, <1>4, <1>6 DEF LinkedOnce
  <2>2. \A i \in next.wrote : \A k \in Running \ {c} : \A j \in closing[k].wrote :
          i.entry # j.entry
    BY <1>2, <1>3, <1>4, <1>7 DEF LinkedOnce
  <2>3. QED
    BY <1>1, <1>2, <1>8, <2>1, <2>2 DEF LinkedOnce
<1>13. QED
  BY <1>1, <1>9, <1>10, <1>11, <1>12 DEF SettledOnce

LEMMA WriteTotalStep == ASSUME IInv, NEW c \in Closers, WriteTotal(c)  PROVE IInv'
<1> USE DEF IInv
<1> DEFINE totals == [x \in DOMAIN closing[c].totals \cup {closing[c].doc} |->
                        IF x = closing[c].doc THEN closing[c].sum ELSE closing[c].totals[x]]
           next == [closing[c] EXCEPT !.doc = None, !.totals = totals]
<1>1. /\ closing' = [closing EXCEPT ![c] = next]
      /\ items' = items /\ document' = document /\ ledger' = ledger
  BY DEF WriteTotal, earnings
<1>2. c \in Running
  BY DEF WriteTotal, Running
<1>3. /\ HasFields(next)
      /\ next.period = closing[c].period /\ next.seen = closing[c].seen
      /\ next.todo = closing[c].todo /\ next.wrote = closing[c].wrote
  <2>1. HasFields(closing[c])
    BY <1>2 DEF Shapes
  <2>2. next = Totalled(closing[c], totals, None)
    BY DEF Totalled
  <2> HIDE DEF next, totals
  <2>3. QED
    BY <2>1, <2>2, TotalledFields
<1> HIDE DEF next, totals
<1>4. /\ closing'[c] = next
      /\ Running' \subseteq Running
      /\ \A k \in Running' : k # c => closing'[k] = closing[k]
  BY <1>1, <1>2 DEF Running, Shapes
<1>5. Shapes'
  <2>1. \A k \in Running' : HasFields(closing[k])'
    BY <1>3, <1>4 DEF Shapes, HasFields
  <2>2. QED
    BY <1>1, <2>1 DEF Shapes
<1>6. \A k \in Running' : /\ closing'[k].period = closing[k].period
                          /\ closing'[k].seen = closing[k].seen
                          /\ closing'[k].todo = closing[k].todo
                          /\ closing'[k].wrote = closing[k].wrote
  BY <1>3, <1>4
<1>7. LinksAreRight' /\ NothingForgotten'
  BY <1>1, <1>4, <1>6 DEF LinksAreRight, NothingForgotten
<1>8. LinkedOnce'
  BY <1>1, <1>4, <1>6 DEF LinkedOnce
<1>9. QED
  BY <1>1, <1>5, <1>7, <1>8 DEF SettledOnce

(* What a closing linked becomes an item when it commits.                      *)
LEMMA CommitStep == ASSUME IInv, NEW c \in Closers, CommitClosing(c)  PROVE IInv'
<1> USE DEF IInv
<1> DEFINE wrote == closing[c].wrote
<1>1. /\ c \in Running
      /\ closing' = [closing EXCEPT ![c] = None]
      /\ items' = items \cup wrote /\ ledger' = ledger
  BY DEF CommitClosing, Running, earnings
<1>2. /\ Running' = Running \ {c}
      /\ \A k \in Running' : closing'[k] = closing[k]
  BY <1>1 DEF Running, Shapes
<1>3. Shapes'
  <2> DEFINE totals == closing[c].totals
             after == [d \in DOMAIN document \cup DOMAIN totals |->
                         [status |-> IF d \in DOMAIN document THEN document[d].status ELSE "OPEN",
                          total |-> IF d \in DOMAIN totals THEN totals[d] ELSE document[d].total]]
  <2>1. document' = after
    BY DEF CommitClosing
  <2>2. \A d \in DOMAIN document' :
          /\ document'[d] = [status |-> document'[d].status, total |-> document'[d].total]
          /\ document'[d].status \in {"OPEN", "PAID"}
    BY <2>1 DEF Shapes
  <2>3. document' = [d \in DOMAIN document' |-> document'[d]]
    BY <2>1
  <2>4. \A k \in Running' : HasFields(closing[k])'
    BY <1>2 DEF Shapes, HasFields
  <2>5. QED
    BY <1>1, <2>2, <2>3, <2>4 DEF Shapes
<1>4. LinksAreRight' /\ NothingForgotten'
  BY <1>1, <1>2 DEF LinksAreRight, NothingForgotten
<1>5. LinkedOnce'
  BY <1>1, <1>2 DEF LinkedOnce
<1>6. SettledOnce'
  <2>1. \A i, j \in wrote : i.entry = j.entry => i = j
    BY <1>1 DEF LinksAreRight
  <2>2. \A i \in wrote, j \in items : i.entry # j.entry
    BY <1>1 DEF LinkedOnce
  <2>3. \A i, j \in items' : i.entry = j.entry => i = j
    BY <1>1, <2>1, <2>2 DEF SettledOnce
  <2>4. \A i \in wrote : /\ i.document = Doc(i.entry, closing[c].period)
                         /\ i.document.period = closing[c].period
                         /\ closing[c].period \in Periods
                         /\ i.entry.day \in closing[c].period
    BY <1>1 DEF LinksAreRight, Doc
  <2>5. QED
    BY <1>1, <2>3, <2>4 DEF SettledOnce
<1>7. QED
  BY <1>3, <1>4, <1>5, <1>6

LEMMA Step == ASSUME IInv, [Next]_vars  PROVE IInv'
<1>1. CASE EarningsNext /\ UNCHANGED documents
  BY <1>1, LedgerGrows, DocumentsSame
<1>2. CASE UNCHANGED vars
  BY <1>2, DocumentsSame DEF vars, earnings
<1>3. CASE SettlementNext
  <2>1. ASSUME NEW c \in Closers, NEW p \in Periods, Begin(c, p)  PROVE IInv'
    BY <2>1, BeginStep
  <2>2. ASSUME NEW c \in Closers, NEW e \in ledger, LinkEntry(c, e)  PROVE IInv'
    BY <2>2, LinkStep
  <2>3. ASSUME NEW c \in Closers, WriteTotal(c) \/ CommitClosing(c) \/ AbortClosing(c)
        PROVE  IInv'
    BY <2>3, WriteTotalStep, CommitStep, AbortStep
  <2>4. ASSUME NEW d \in DOMAIN document, MarkPaid(d)  PROVE IInv'
    BY <2>4, MarkPaidStep
  <2>5. QED
    BY <1>3, <2>1, <2>2, <2>3, <2>4 DEF SettlementNext
<1>4. QED
  BY <1>1, <1>2, <1>3 DEF Next

(* Every reachable state of Finance satisfies the inductive invariant.         *)
THEOREM Invariance == Spec => []IInv
<1>1. FinanceInit => IInv
  BY Initially
<1>2. IInv /\ [Next]_vars => IInv'
  BY Step
<1>3. QED
  BY <1>1, <1>2, PTL DEF Spec

(* However periods overlap and closings race, fail or are repeated, a ledger   *)
(* entry is in one document at most, its own party's, and of its period.       *)
THEOREM EntriesSettleOnce == Spec => []SettledOnce
<1>1. IInv => SettledOnce
  BY DEF IInv
<1>2. QED
  BY <1>1, Invariance, PTL

-----------------------------------------------------------------------------
(* The books.  What entries add up to, one entry more or two.                  *)
Cents(S) == [e \in S |-> e.cents]

LEMMA EntriesAddUp ==
  ASSUME NEW S, IsFiniteSet(S)
  PROVE  \E g : AddsUp(g, Cents(S), S) /\ \A s \in SUBSET S : SumOf(s) = g[s]
<1>1. PICK g : AddsUp(g, Cents(S), S)
  BY SumExists
<1>2. ASSUME NEW s \in SUBSET S  PROVE SumOf(s) = g[s]
  <2> DEFINE adds(h) == h = [t \in SUBSET s |->
                               IF t = {} THEN 0
                               ELSE LET x == CHOOSE x \in t : TRUE IN x.cents + h[t \ {x}]]
             sum == CHOOSE h : adds(h)
  <2>1. IsFiniteSet(s)
    BY FS_Subset
  <2>2. \A t \in SUBSET s : t # {} => Cents(s)[Pick(t)] = Pick(t).cents
    BY Picked DEF Cents
  <2>3. ASSUME NEW h  PROVE adds(h) <=> AddsUp(h, Cents(s), s)
    BY <2>2 DEF AddsUp, Pick
  <2>4. SumOf(s) = sum[s]
    BY DEF SumOf, MapThenSumSet, MapThenFoldSet
  <2>5. \E h : AddsUp(h, Cents(s), s)
    BY <2>1, SumExists
  <2> HIDE DEF adds
  <2>6. adds(sum)
    BY <2>3, <2>5
  <2>7. AddsUp(sum, Cents(s), s)
    BY <2>3, <2>6
  <2> HIDE DEF sum
  <2>8. \A x \in s : Cents(s)[x] = Cents(S)[x]
    BY DEF Cents
  <2>9. sum[s] = g[s]
    <3>1. s \in SUBSET S /\ s \in SUBSET s
      OBVIOUS
    <3>2. QED
      BY <1>1, <2>1, <2>7, <2>8, <3>1, SumIsOne
  <2>10. QED
    BY <2>4, <2>9
<1>3. QED
  BY <1>1, <1>2

(* Entries that can be added up.                                               *)
Summable(S) == IsFiniteSet(S) /\ \A e \in S : e.cents \in Int

LEMMA NoEntries == Summable({}) /\ SumOf({}) = 0
<1>1. IsFiniteSet({})
  BY FS_EmptySet
<1>2. PICK g : AddsUp(g, Cents({}), {}) /\ \A s \in SUBSET {} : SumOf(s) = g[s]
  BY <1>1, EntriesAddUp
<1>3. g[{}] = 0
  BY <1>2, SumUnfolds
<1>4. QED
  BY <1>1, <1>2, <1>3 DEF Summable

LEMMA SumIsWhole == ASSUME NEW S, Summable(S)  PROVE SumOf(S) \in Int
<1>1. PICK g : AddsUp(g, Cents(S), S) /\ \A s \in SUBSET S : SumOf(s) = g[s]
  BY EntriesAddUp DEF Summable
<1>2. \A x \in S : Cents(S)[x] \in Int
  BY DEF Cents, Summable
<1>3. S \in SUBSET S /\ IsFiniteSet(S)
  BY DEF Summable
<1>4. g[S] \in Int
  BY <1>1, <1>2, <1>3, SumType
<1>5. QED
  BY <1>1, <1>3, <1>4

LEMMA OneEntryMore ==
  ASSUME NEW S, Summable(S), NEW a, a \notin S, a.cents \in Int
  PROVE  Summable(S \cup {a}) /\ SumOf(S \cup {a}) = SumOf(S) + a.cents
<1> DEFINE T == S \cup {a}
<1>1. Summable(T)
  BY FS_AddElement DEF Summable
<1>2. PICK g : AddsUp(g, Cents(T), T) /\ \A s \in SUBSET T : SumOf(s) = g[s]
  BY <1>1, EntriesAddUp DEF Summable
<1>3. \A x \in T : Cents(T)[x] \in Int
  BY <1>1 DEF Cents, Summable
<1>4. S \in SUBSET T /\ a \in T \ S /\ Cents(T)[a] = a.cents
  BY DEF Cents
<1>5. g[S \cup {a}] = Cents(T)[a] + g[S]
  <2> DEFINE f == Cents(T)
  <2>1. IsFiniteSet(T) /\ AddsUp(g, f, T) /\ \A x \in T : f[x] \in Int
    BY <1>1, <1>2, <1>3 DEF Summable
  <2>2. S \in SUBSET T /\ a \in T \ S
    BY <1>4
  <2> HIDE DEF T, f
  <2>3. g[S \cup {a}] = f[a] + g[S]
    BY <2>1, <2>2, SumAdds
  <2>4. QED
    BY <2>3 DEF f
<1>6. SumOf(T) = g[T] /\ SumOf(S) = g[S]
  BY <1>2, <1>4
<1>7. SumOf(S) \in Int
  BY SumIsWhole
<1>8. SumOf(S \cup {a}) = a.cents + SumOf(S)
  BY <1>4, <1>5, <1>6
<1>9. QED
  BY <1>1, <1>7, <1>8

(* The entries that are written of some: those of an amount.                   *)
Written(entries) == {e \in entries : e.cents # 0}

LEMMA OneMoreWritten ==
  ASSUME NEW S, Summable(S), NEW a, a \notin S, a.cents \in Int
  PROVE  Summable(S \cup Written({a})) /\ SumOf(S \cup Written({a})) = SumOf(S) + a.cents
<1>1. SumOf(S) \in Int
  BY SumIsWhole
<1>2. CASE a.cents = 0
  <2>1. S \cup Written({a}) = S
    BY <1>2 DEF Written
  <2>2. SumOf(S) = SumOf(S) + a.cents
    BY <1>1, <1>2
  <2>3. Summable(S \cup Written({a})) /\ SumOf(S \cup Written({a})) = SumOf(S)
    BY <2>1
  <2>4. QED
    BY <2>2, <2>3
<1>3. CASE a.cents # 0
  <2>1. S \cup Written({a}) = S \cup {a}
    BY <1>3 DEF Written
  <2>2. QED
    BY <2>1, OneEntryMore
<1>4. QED
  BY <1>2, <1>3

LEMMA TwoMoreWritten ==
  ASSUME NEW S, Summable(S), NEW a, NEW b, a \notin S, b \notin S, a # b,
         a.cents \in Int, b.cents \in Int
  PROVE  /\ Summable(S \cup Written({a, b}))
         /\ SumOf(S \cup Written({a, b})) = SumOf(S) + a.cents + b.cents
<1> DEFINE T == S \cup Written({a})
<1>1. Summable(T) /\ SumOf(T) = SumOf(S) + a.cents
  BY OneMoreWritten
<1>2. b \notin T
  BY DEF Written
<1>3. T \cup Written({b}) = S \cup Written({a, b})
  BY DEF Written
<1> HIDE DEF T
<1>4. Summable(T \cup Written({b})) /\ SumOf(T \cup Written({b})) = SumOf(T) + b.cents
  BY <1>1, <1>2, OneMoreWritten
<1>5. QED
  BY <1>1, <1>3, <1>4

-----------------------------------------------------------------------------
(* What each way to end an order writes.                                       *)
LEMMA EntryIs ==
  ASSUME NEW kind, NEW of, NEW seq, NEW party, NEW cents, NEW date,
         NEW e, e = Entry(kind, of, seq, party, cents, date)
  PROVE  /\ e.kind = kind /\ e.of = of /\ e.seq = seq
         /\ e.party = party /\ e.cents = cents
BY DEF Entry

(* A commission is at most the whole.                                          *)
LEMMA Amounts ==
  /\ Commission \in Int /\ Commission <= Subtotal
  /\ HalfFee \in Nat /\ Subtotal \in Int /\ DeliveryFee \in Nat
<1>1. Subtotal * CommissionBps \in Nat /\ Subtotal * (10000 - CommissionBps) \in Nat
  BY AmountAssumption
<1>2. Subtotal * CommissionBps + Subtotal * (10000 - CommissionBps) = Subtotal * 10000
  BY AmountAssumption
<1>3. \A n, m \in Nat : n <= m * 10000 => (n + 5000) \div 10000 \in Int
                                          /\ (n + 5000) \div 10000 <= m
  OBVIOUS
<1>4. Commission \in Int /\ Commission <= Subtotal
  <2> DEFINE n == Subtotal * CommissionBps
             k == Subtotal * (10000 - CommissionBps)
  <2>1. n \in Nat /\ k \in Nat /\ n + k = Subtotal * 10000 /\ Subtotal \in Nat
    BY <1>1, <1>2, AmountAssumption
  <2>2. Commission = (n + 5000) \div 10000
    BY DEF Commission, commissionCents
  <2> HIDE DEF n, k
  <2>3. n <= Subtotal * 10000
    BY <2>1
  <2>4. QED
    BY <1>3, <2>1, <2>2, <2>3
<1>5. HalfFee \in Nat
  BY AmountAssumption DEF HalfFee
<1>6. QED
  BY <1>4, <1>5, AmountAssumption

OfOrder(L, o) == {e \in L : e.of = o}
ExtraOf(L, o) == {e \in L : e.of = o /\ e.party = Driver /\ e.kind \in ExtraKinds}

(* A credit to the driver and the store's debit make nothing together.         *)
LEMMA PairMakesNothing ==
  ASSUME NEW S, Summable(S), NEW kind, NEW o, NEW seq, NEW cents \in Int, NEW date,
         \A e \in S : ~(e.kind = kind /\ e.of = o /\ e.seq = seq)
  PROVE  /\ Summable(S \cup Written(Pair(kind, o, seq, cents, date)))
         /\ SumOf(S \cup Written(Pair(kind, o, seq, cents, date))) = SumOf(S)
<1> DEFINE a == Entry(kind, o, seq, Driver, cents, date)
           b == Entry(kind, o, seq, Store, -cents, date)
<1>1. /\ a.kind = kind /\ a.of = o /\ a.seq = seq /\ a.party = Driver /\ a.cents = cents
      /\ b.kind = kind /\ b.of = o /\ b.seq = seq /\ b.party = Store /\ b.cents = -cents
  BY EntryIs
<1>2. Pair(kind, o, seq, cents, date) = {a, b}
  BY DEF Pair
<1> HIDE DEF a, b
<1>3. a \notin S /\ b \notin S /\ a # b
  BY <1>1, PartiesDiffer
<1>4. /\ Summable(S \cup Written({a, b}))
      /\ SumOf(S \cup Written({a, b})) = SumOf(S) + a.cents + b.cents
  BY <1>1, <1>3, TwoMoreWritten
<1>5. SumOf(S) \in Int
  BY SumIsWhole
<1>6. SumOf(S) + a.cents + b.cents = SumOf(S)
  BY <1>1, <1>5
<1>7. QED
  BY <1>2, <1>4, <1>6

(* In a pair the driver's entry is the driver's.                               *)
LEMMA DriversOfPair ==
  ASSUME NEW kind, NEW o, NEW seq, NEW cents \in Int, NEW date
  PROVE  /\ \A e \in Pair(kind, o, seq, cents, date) :
              e.kind = kind /\ e.of = o /\ e.seq = seq /\ e.cents \in Int
         /\ \E a : /\ a.kind = kind /\ a.of = o /\ a.seq = seq /\ a.cents = cents
                   /\ {e \in Pair(kind, o, seq, cents, date) : e.party = Driver} = {a}
<1> DEFINE a == Entry(kind, o, seq, Driver, cents, date)
           b == Entry(kind, o, seq, Store, -cents, date)
<1>1. /\ a.kind = kind /\ a.of = o /\ a.seq = seq /\ a.party = Driver /\ a.cents = cents
      /\ b.kind = kind /\ b.of = o /\ b.seq = seq /\ b.party = Store /\ b.cents = -cents
  BY EntryIs
<1>2. Pair(kind, o, seq, cents, date) = {a, b}
  BY DEF Pair
<1> HIDE DEF a, b
<1>3. {e \in Pair(kind, o, seq, cents, date) : e.party = Driver} = {a}
  BY <1>1, <1>2, PartiesDiffer
<1>4. \A e \in Pair(kind, o, seq, cents, date) :
        e.kind = kind /\ e.of = o /\ e.seq = seq /\ e.cents \in Int
  BY <1>1, <1>2
<1>5. QED
  BY <1>1, <1>3, <1>4

(* The entries of a delivered order: no cent is lost or invented.              *)
Earned(o) == (IF o \in Online THEN Subtotal + DeliveryFee ELSE 0) - Commission

LEMMA StorePart ==
  ASSUME NEW o \in Orders, NEW date
  PROVE  LET N == Written(StoreEntries(o, date)) IN
         /\ Summable(N)
         /\ \A e \in StoreEntries(o, date) :
              e.of = o /\ e.seq = 0 /\ e.party = Store
              /\ e.kind \in {"sale-credit", "commission-debit", "driver-fee-debit"}
         /\ SumOf(N) = Earned(o) - (IF Carrier[o] = "pool" THEN DeliveryFee ELSE 0)
<1> DEFINE fee == IF Carrier[o] = "pool" THEN 0 ELSE DeliveryFee
           sale == Entry("sale-credit", o, 0, Store, Subtotal - Commission + fee, date)
           part == Entry("commission-debit", o, 0, Store, -Commission, date)
           ride == Entry("driver-fee-debit", o, 0, Store, -DeliveryFee, date)
           N == Written(StoreEntries(o, date))
<1>1. /\ sale.kind = "sale-credit" /\ sale.of = o /\ sale.seq = 0 /\ sale.party = Store
      /\ sale.cents = Subtotal - Commission + fee
      /\ part.kind = "commission-debit" /\ part.of = o /\ part.seq = 0 /\ part.party = Store
      /\ part.cents = -Commission
      /\ ride.kind = "driver-fee-debit" /\ ride.of = o /\ ride.seq = 0 /\ ride.party = Store
      /\ ride.cents = -DeliveryFee
  BY EntryIs
<1>2. StoreEntries(o, date) =
        IF o \in Online THEN (IF sale.cents > 0 THEN {sale} ELSE {})
        ELSE IF Carrier[o] = "pool" THEN {part, ride} ELSE {part}
  BY <1>1 DEF StoreEntries, SaleCredit
<1> HIDE DEF sale, part, ride
<1>3. \A e \in StoreEntries(o, date) :
        e.of = o /\ e.seq = 0 /\ e.party = Store
        /\ e.kind \in {"sale-credit", "commission-debit", "driver-fee-debit"}
  BY <1>1, <1>2
<1>4. sale.cents \in Int /\ part.cents \in Int /\ ride.cents \in Int
  BY <1>1, Amounts
<1>5. CASE o \in Online
  <2>1. N = {} \cup Written({sale})
    BY <1>1, <1>2, <1>5, Amounts DEF Written
  <2>2. Summable({} \cup Written({sale})) /\ SumOf({} \cup Written({sale})) = SumOf({}) + sale.cents
    BY <1>4, NoEntries, OneMoreWritten
  <2>3. SumOf({}) + sale.cents = Earned(o) - (IF Carrier[o] = "pool" THEN DeliveryFee ELSE 0)
    BY <1>1, <1>4, <1>5, Amounts, NoEntries DEF Earned
  <2> HIDE DEF N
  <2>4. Summable(N) /\ SumOf(N) = SumOf({}) + sale.cents
    BY <2>1, <2>2
  <2>5. QED
    BY <1>3, <2>3, <2>4 DEF N
<1>6. CASE o \notin Online /\ Carrier[o] = "pool"
  <2>1. N = {} \cup Written({part, ride})
    BY <1>2, <1>6
  <2>2. part # ride
    BY <1>1
  <2>3. /\ Summable({} \cup Written({part, ride}))
        /\ SumOf({} \cup Written({part, ride})) = SumOf({}) + part.cents + ride.cents
    BY <1>4, <2>2, NoEntries, TwoMoreWritten
  <2>4. SumOf({}) + part.cents + ride.cents
          = Earned(o) - (IF Carrier[o] = "pool" THEN DeliveryFee ELSE 0)
    BY <1>1, <1>6, Amounts, NoEntries DEF Earned
  <2> HIDE DEF N
  <2>5. Summable(N) /\ SumOf(N) = SumOf({}) + part.cents + ride.cents
    BY <2>1, <2>3
  <2>6. QED
    BY <1>3, <2>4, <2>5 DEF N
<1>7. CASE o \notin Online /\ Carrier[o] # "pool"
  <2>1. N = {} \cup Written({part})
    BY <1>2, <1>7
  <2>2. Summable({} \cup Written({part})) /\ SumOf({} \cup Written({part})) = SumOf({}) + part.cents
    BY <1>4, NoEntries, OneMoreWritten
  <2>3. SumOf({}) + part.cents = Earned(o) - (IF Carrier[o] = "pool" THEN DeliveryFee ELSE 0)
    BY <1>1, <1>4, <1>7, Amounts, NoEntries DEF Earned
  <2> HIDE DEF N
  <2>4. Summable(N) /\ SumOf(N) = SumOf({}) + part.cents
    BY <2>1, <2>2
  <2>5. QED
    BY <1>3, <2>3, <2>4 DEF N
<1>8. QED
  BY <1>5, <1>6, <1>7

LEMMA DeliveredEntries ==
  ASSUME NEW o \in Orders, NEW extra \in Int, NEW date
  PROVE  LET N == Written(StoreEntries(o, date) \cup CarrierEntries(o, extra, date)) IN
         /\ Summable(N)
         /\ \A e \in N : e.of = o /\ e.seq = 0 /\ e.kind # "per-delivery-adj"
         /\ SumOf(N) = Earned(o)
         /\ Carrier[o] = "fixed" => SumOf(ExtraOf(N, o)) = extra
<1> DEFINE S == Written(StoreEntries(o, date))
           C == CarrierEntries(o, extra, date)
           N == Written(StoreEntries(o, date) \cup C)
<1>1. /\ Summable(S)
      /\ \A e \in StoreEntries(o, date) :
           e.of = o /\ e.seq = 0 /\ e.party = Store
           /\ e.kind \in {"sale-credit", "commission-debit", "driver-fee-debit"}
      /\ SumOf(S) = Earned(o) - (IF Carrier[o] = "pool" THEN DeliveryFee ELSE 0)
  BY StorePart
<1>2. N = S \cup Written(C) /\ S \subseteq StoreEntries(o, date)
  BY DEF Written
<1>3. Earned(o) \in Int /\ DeliveryFee \in Int
  BY Amounts DEF Earned
<1>4. CASE Carrier[o] = "pool"
  <2> DEFINE a == Entry("delivery-credit", o, 0, Driver, DeliveryFee, date)
  <2>1. a.kind = "delivery-credit" /\ a.of = o /\ a.seq = 0 /\ a.cents = DeliveryFee
    BY EntryIs
  <2>2. C = {a}
    BY <1>4 DEF CarrierEntries
  <2> HIDE DEF a, S, C
  <2>3. a \notin S
    BY <1>1, <1>2, <2>1
  <2>4. Summable(S \cup Written({a})) /\ SumOf(S \cup Written({a})) = SumOf(S) + a.cents
    BY <1>1, <1>3, <2>1, <2>3, OneMoreWritten
  <2>5. SumOf(S) + a.cents = Earned(o)
    BY <1>1, <1>3, <1>4, <2>1
  <2>6. Summable(N) /\ SumOf(N) = Earned(o)
    BY <1>2, <2>2, <2>4, <2>5
  <2>7. \A e \in N : e.of = o /\ e.seq = 0 /\ e.kind # "per-delivery-adj"
    BY <1>1, <1>2, <2>1, <2>2 DEF Written
  <2>8. QED
    BY <1>4, <2>6, <2>7 DEF C
<1>5. CASE Carrier[o] = "fixed"
  <2>1. C = Pair("per-delivery", o, 0, extra, date)
    BY <1>5 DEF CarrierEntries
  <2>2. \A e \in C : e.kind = "per-delivery" /\ e.of = o /\ e.seq = 0 /\ e.cents \in Int
    BY <2>1, DriversOfPair
  <2>3. PICK a : /\ a.kind = "per-delivery" /\ a.of = o /\ a.cents = extra
                 /\ {e \in C : e.party = Driver} = {a}
    BY <2>1, DriversOfPair
  <2> HIDE DEF S, C
  <2>4. \A e \in S : ~(e.kind = "per-delivery" /\ e.of = o /\ e.seq = 0)
    BY <1>1, <1>2
  <2>5. Summable(S \cup Written(C)) /\ SumOf(S \cup Written(C)) = SumOf(S)
    BY <1>1, <2>1, <2>4, PairMakesNothing
  <2>6. Summable(N) /\ SumOf(N) = Earned(o)
    <3>1. SumOf(S) = Earned(o)
      BY <1>1, <1>3, <1>5
    <3>2. QED
      BY <1>2, <2>5, <3>1
  <2>7. \A e \in N : e.of = o /\ e.seq = 0 /\ e.kind # "per-delivery-adj"
    BY <1>1, <1>2, <2>2 DEF Written
  <2>8. ExtraOf(N, o) = {} \cup Written({a})
    BY <1>1, <1>2, <2>2, <2>3, PartiesDiffer DEF ExtraOf, Written, ExtraKinds
  <2>9. SumOf({} \cup Written({a})) = SumOf({}) + a.cents
    BY <2>3, NoEntries, OneMoreWritten
  <2>10. SumOf({}) + a.cents = extra
    BY <2>3, NoEntries
  <2>11. SumOf(ExtraOf(N, o)) = extra
    BY <2>8, <2>9, <2>10
  <2>12. QED
    BY <2>6, <2>7, <2>11 DEF C
<1>6. CASE Carrier[o] = "own"
  <2>1. C = {}
    BY <1>6 DEF CarrierEntries
  <2>2. N = S
    BY <1>2, <2>1 DEF Written
  <2> HIDE DEF S, C
  <2>3. Summable(N) /\ SumOf(N) = Earned(o)
    BY <1>1, <1>3, <1>6, <2>2
  <2>4. \A e \in N : e.of = o /\ e.seq = 0 /\ e.kind # "per-delivery-adj"
    BY <1>1, <1>2, <2>2
  <2>5. QED
    BY <1>6, <2>3, <2>4 DEF C
<1>7. Carrier[o] \in {"fixed", "pool", "own"}
  BY AmountAssumption
<1> HIDE DEF N
<1>8. QED
  BY <1>4, <1>5, <1>6, <1>7 DEF N

-----------------------------------------------------------------------------
(* The strengthening.  An order has no entry before it ends; one that is being *)
(* completed is out, by one transaction, which if it holds the shift's row     *)
(* knows the extra; and an adjustment is numbered as the proposal it is of.    *)
Under == {"ASSIGNED", "OUT_FOR_DELIVERY", "DELIVERY_FAILED"}
ShiftStatuses == {"ACTIVE", "PENDING_DAILY", "REOPEN_ALLOWED", "CLOSED"}

EarnTypes ==
  /\ stage \in [Orders -> STAGES]
  /\ returnPay \in [Orders -> Nat]
  /\ agreed \in [Orders -> Nat]
  /\ shift \in [status : ShiftStatuses, daily : Nat, extra : Nat, seq : 0..MaxAdjustments]
  /\ [daily |-> shift.daily, extra |-> shift.extra] \in Terms
  /\ proposal # None => [daily |-> proposal.daily, extra |-> proposal.extra] \in Terms
  /\ day \in 1..LastDay

Finishing ==
  \A t \in completing :
    /\ t.order \in Orders /\ stage[t.order] = "OUT_FOR_DELIVERY"
    /\ t.extra \in Nat /\ t.day \in 1..LastDay
    /\ LocksShift(t.order) => t.extra = shift.extra
    /\ \A u \in completing : u.order = t.order => u = t

EntryRight(e, seq) ==
  /\ e.cents \in Int \ {0}
  /\ e.day \in 1..LastDay
  /\ e.party \in {Store, Driver}
  /\ e.party = Driver /\ e.cents < 0 => e.kind = "per-delivery-adj"
  /\ e.kind = "per-delivery-adj" => e.seq \in Nat /\ e.seq <= seq

EntriesRight == \A e \in ledger : EntryRight(e, shift.seq)

Right(o) ==
  /\ Summable(OfOrder(ledger, o))
  /\ stage[o] \in Under => OfOrder(ledger, o) = {}
  /\ stage[o] = "DELIVERY_FAILED" => Carrier[o] # "own"
  /\ SumOf(OfOrder(ledger, o)) = Balance(o)
  /\ o \in Delivered => SumOf(ExtraOf(ledger, o)) = agreed[o]

BookInv == EarnTypes /\ Finishing /\ EntriesRight /\ \A o \in Orders : Right(o)

LEMMA ExtraSummable ==
  ASSUME NEW L, NEW o, Summable(OfOrder(L, o))  PROVE Summable(ExtraOf(L, o))
<1>1. ExtraOf(L, o) \subseteq OfOrder(L, o)
  BY DEF ExtraOf, OfOrder
<1>2. QED
  BY <1>1, FS_Subset DEF Summable

(* An order that has no part in a step.                                        *)
LEMMA StaysRight ==
  ASSUME NEW o \in Orders, Right(o),
         OfOrder(ledger', o) = OfOrder(ledger, o), ExtraOf(ledger', o) = ExtraOf(ledger, o),
         stage'[o] = stage[o] \/ (stage[o] \in Under /\ stage'[o] \in Under),
         stage'[o] = "DELIVERY_FAILED" => Carrier[o] # "own",
         stage'[o] = "RETURNED" => returnPay'[o] = returnPay[o],
         agreed'[o] = agreed[o]
  PROVE  Right(o)'
<1>1. Balance(o)' = Balance(o)
  BY DEF Balance, Under
<1>2. SumOf(OfOrder(ledger, o))' = SumOf(OfOrder(ledger, o))
  BY DEF SumOf, MapThenSumSet, MapThenFoldSet, OfOrder
<1>3. SumOf(ExtraOf(ledger, o))' = SumOf(ExtraOf(ledger, o))
  BY DEF SumOf, MapThenSumSet, MapThenFoldSet, ExtraOf
<1>4. Summable(OfOrder(ledger, o))'
  BY DEF Right, Summable, OfOrder
<1>5. (o \in Delivered)' => o \in Delivered
  BY DEF Delivered, Under
<1>6. (stage[o] \in Under => OfOrder(ledger, o) = {})'
  BY DEF Right, OfOrder
<1>7. QED
  BY <1>1, <1>2, <1>3, <1>4, <1>5, <1>6 DEF Right

(* The first entries of an order are all new.                                  *)
LEMMA FirstEntries ==
  ASSUME NEW o, OfOrder(ledger, o) = {}, NEW N, \A e \in N : e.of = o,
         ledger' = insertEntries(N)
  PROVE  /\ ledger' = ledger \cup N
         /\ OfOrder(ledger', o) = N /\ ExtraOf(ledger', o) = ExtraOf(N, o)
         /\ \A p : p # o => /\ OfOrder(ledger', p) = OfOrder(ledger, p)
                            /\ ExtraOf(ledger', p) = ExtraOf(ledger, p)
<1>1. \A e \in N : \A f \in ledger : ~SameKey(e, f)
  BY DEF SameKey, OfOrder
<1>2. ledger' = ledger \cup N
  BY <1>1 DEF insertEntries
<1>3. OfOrder(ledger', o) = N /\ ExtraOf(ledger', o) = ExtraOf(N, o)
  BY <1>2 DEF OfOrder, ExtraOf
<1>4. ASSUME NEW p, p # o  PROVE /\ OfOrder(ledger', p) = OfOrder(ledger, p)
                                 /\ ExtraOf(ledger', p) = ExtraOf(ledger, p)
  BY <1>2, <1>4 DEF OfOrder, ExtraOf
<1>5. QED
  BY <1>2, <1>3, <1>4

(* An order that ends here.                                                    *)
LEMMA EndsRight ==
  ASSUME NEW o \in Orders, NEW N, OfOrder(ledger', o) = N, ExtraOf(ledger', o) = ExtraOf(N, o),
         Summable(N), SumOf(N) = Balance(o)', stage'[o] \notin Under,
         (o \in Delivered)' => SumOf(ExtraOf(N, o)) = agreed'[o]
  PROVE  Right(o)'
<1>1. SumOf(OfOrder(ledger, o))' = SumOf(N)
  BY DEF SumOf, MapThenSumSet, MapThenFoldSet, OfOrder
<1>2. SumOf(ExtraOf(ledger, o))' = SumOf(ExtraOf(N, o))
  BY DEF SumOf, MapThenSumSet, MapThenFoldSet, ExtraOf
<1>3. Summable(OfOrder(ledger, o))'
  BY DEF Summable, OfOrder
<1>4. QED
  BY <1>1, <1>2, <1>3 DEF Right, Under

LEMMA EntryDay ==
  ASSUME NEW kind, NEW of, NEW seq, NEW party, NEW cents, NEW date
  PROVE  Entry(kind, of, seq, party, cents, date).day = date
BY DEF Entry

LEMMA PairDay ==
  ASSUME NEW kind, NEW of, NEW seq, NEW cents, NEW date
  PROVE  \A e \in Pair(kind, of, seq, cents, date) : e.day = date
BY EntryDay DEF Pair

(* Of a pair one entry is the driver's credit, the other the store's.          *)
LEMMA PairParty ==
  ASSUME NEW kind, NEW of, NEW seq, NEW cents, NEW date
  PROVE  \A e \in Pair(kind, of, seq, cents, date) :
           e.party \in {Store, Driver} /\ (e.party = Driver => e.cents = cents)
<1>1. \A e \in {Entry(kind, of, seq, Driver, cents, date)} : e.party = Driver /\ e.cents = cents
  BY EntryIs
<1>2. \A e \in {Entry(kind, of, seq, Store, -cents, date)} : e.party = Store
  BY EntryIs
<1>3. QED
  BY <1>1, <1>2, PartiesDiffer DEF Pair

LEMMA CompleteBooks ==
  ASSUME BookInv, NEW t \in completing, completeDelivery(t)
  PROVE  BookInv'
<1> DEFINE o == t.order
           N == Written(StoreEntries(o, t.day) \cup CarrierEntries(o, t.extra, t.day))
<1>1. /\ o \in Orders /\ stage[o] = "OUT_FOR_DELIVERY" /\ t.extra \in Nat /\ t.day \in 1..LastDay
      /\ Carrier[o] = "fixed" => t.extra = shift.extra
      /\ \A u \in completing : u.order = o => u = t
      /\ OfOrder(ledger, o) = {}
  BY DEF BookInv, Finishing, LocksShift, Right, Under
<1>2. /\ stage' = [stage EXCEPT ![o] = "DELIVERED"]
      /\ agreed' = [agreed EXCEPT ![o] = IF Carrier[o] = "fixed" THEN shift.extra ELSE 0]
      /\ ledger' = insertEntries(N)
      /\ completing' = completing \ {t}
      /\ UNCHANGED <<returnPay, shift, proposal, day>>
  BY DEF completeDelivery, recordOrderLedger, Written
<1>3. /\ Summable(N)
      /\ \A e \in N : e.of = o /\ e.seq = 0 /\ e.kind # "per-delivery-adj"
      /\ SumOf(N) = Earned(o)
      /\ Carrier[o] = "fixed" => SumOf(ExtraOf(N, o)) = t.extra
  BY <1>1, DeliveredEntries
<1>4. \A e \in N : /\ e.day = t.day /\ e.cents # 0
                   /\ e.party \in {Store, Driver} /\ (e.party = Driver => e.cents \in Nat)
  <2>1. \A e \in StoreEntries(o, t.day) : e.day = t.day /\ e.party = Store
    <3>1. \A e \in StoreEntries(o, t.day) : e.party = Store
      BY <1>1, StorePart
    <3>2. \A e \in StoreEntries(o, t.day) : e.day = t.day
      BY EntryDay DEF StoreEntries, SaleCredit
    <3>3. QED
      BY <3>1, <3>2
  <2>2. \A e \in CarrierEntries(o, t.extra, t.day) :
          /\ e.day = t.day
          /\ e.party \in {Store, Driver} /\ (e.party = Driver => e.cents \in Nat)
    <3>1. CASE Carrier[o] = "pool"
      <4> DEFINE a == Entry("delivery-credit", o, 0, Driver, DeliveryFee, t.day)
      <4>1. a.day = t.day /\ a.party = Driver /\ a.cents = DeliveryFee
        BY EntryIs, EntryDay
      <4>2. CarrierEntries(o, t.extra, t.day) = {a}
        BY <3>1 DEF CarrierEntries
      <4> HIDE DEF a
      <4>3. QED
        BY <4>1, <4>2, Amounts
    <3>2. CASE Carrier[o] = "fixed"
      <4>1. CarrierEntries(o, t.extra, t.day) = Pair("per-delivery", o, 0, t.extra, t.day)
        BY <3>2 DEF CarrierEntries
      <4>2. QED
        BY <1>1, <4>1, PairDay, PairParty
    <3>3. CASE Carrier[o] = "own"
      BY <3>3 DEF CarrierEntries
    <3>4. Carrier[o] \in {"fixed", "pool", "own"}
      BY <1>1, AmountAssumption
    <3>5. QED
      BY <3>1, <3>2, <3>3, <3>4
  <2>3. /\ N \subseteq StoreEntries(o, t.day) \cup CarrierEntries(o, t.extra, t.day)
        /\ \A e \in N : e.cents # 0
    BY DEF Written
  <2> HIDE DEF N
  <2>4. QED
    BY <2>1, <2>2, <2>3, PartiesDiffer
<1> HIDE DEF N
<1>5. /\ ledger' = ledger \cup N
      /\ OfOrder(ledger', o) = N /\ ExtraOf(ledger', o) = ExtraOf(N, o)
      /\ \A p : p # o => /\ OfOrder(ledger', p) = OfOrder(ledger, p)
                         /\ ExtraOf(ledger', p) = ExtraOf(ledger, p)
  BY <1>1, <1>2, <1>3, FirstEntries
<1>6. /\ stage'[o] = "DELIVERED"
      /\ agreed'[o] = IF Carrier[o] = "fixed" THEN shift.extra ELSE 0
      /\ \A p \in Orders \ {o} : stage'[p] = stage[p] /\ agreed'[p] = agreed[p]
  BY <1>1, <1>2 DEF BookInv, EarnTypes
<1>7. Right(o)'
  <2>1. SumOf(N) = Balance(o)' /\ stage'[o] \notin Under
    BY <1>3, <1>6 DEF Balance, Earned, Under
  <2>2. (o \in Delivered)' => SumOf(ExtraOf(N, o)) = agreed'[o]
    BY <1>1, <1>3, <1>6 DEF Delivered
  <2>3. QED
    BY <1>1, <1>3, <1>5, <2>1, <2>2, EndsRight
<1>8. ASSUME NEW p \in Orders \ {o}  PROVE Right(p)'
  <2>1. Right(p) /\ (stage[p] = "DELIVERY_FAILED" => Carrier[p] # "own")
    BY DEF BookInv, Right
  <2>2. QED
    BY <1>2, <1>5, <1>6, <2>1, StaysRight
<1>9. EarnTypes'
  BY <1>1, <1>2 DEF BookInv, EarnTypes, STAGES
<1>10. Finishing'
  BY <1>1, <1>2, <1>6 DEF BookInv, Finishing
<1>11. EntriesRight'
  <2>1. \A e \in N : EntryRight(e, shift.seq)
    BY <1>1, <1>3, <1>4 DEF EntryRight, Summable
  <2>2. QED
    BY <1>2, <1>5, <2>1 DEF BookInv, EntriesRight, EntryRight
<1>12. QED
  BY <1>7, <1>8, <1>9, <1>10, <1>11 DEF BookInv

LEMMA ReturnBooks == ASSUME BookInv, NEW o \in Orders, confirmReturn(o)  PROVE BookInv'
<1> DEFINE pay == returnPay[o]
           trip == Entry("delivery-credit-on-return", o, 0, Driver, pay, day)
           pair == Pair("per-delivery-on-return", o, 0, pay, day)
           N == Written(IF Carrier[o] = "fixed" THEN pair ELSE {trip})
<1>1. /\ stage[o] = "DELIVERY_FAILED" /\ Carrier[o] # "own" /\ OfOrder(ledger, o) = {}
      /\ pay \in Nat /\ day \in 1..LastDay
  BY DEF confirmReturn, BookInv, Right, Under, EarnTypes
<1>2. /\ stage' = [stage EXCEPT ![o] = "RETURNED"]
      /\ ledger' = insertEntries(N)
      /\ UNCHANGED <<returnPay, agreed, shift, proposal, completing, day>>
  BY DEF confirmReturn, recordReturnLedger, Written
<1>3. /\ trip.kind = "delivery-credit-on-return" /\ trip.of = o /\ trip.cents = pay
      /\ trip.day = day /\ trip.party = Driver
  BY EntryIs, EntryDay
<1>4. \A e \in pair : /\ e.kind = "per-delivery-on-return" /\ e.of = o /\ e.cents \in Int
                      /\ e.day = day
                      /\ e.party \in {Store, Driver} /\ (e.party = Driver => e.cents = pay)
  BY <1>1, DriversOfPair, PairDay, PairParty
<1>5. Summable(N) /\ SumOf(N) = IF Carrier[o] = "fixed" THEN 0 ELSE pay
  <2>1. CASE Carrier[o] = "fixed"
    <3>1. N = {} \cup Written(pair)
      BY <2>1
    <3>2. Summable({} \cup Written(pair)) /\ SumOf({} \cup Written(pair)) = SumOf({})
      <4> HIDE DEF pay, N
      <4>1. QED
        BY <1>1, NoEntries, PairMakesNothing
    <3> HIDE DEF N, pair
    <3>3. QED
      BY <2>1, <3>1, <3>2, NoEntries
  <2>2. CASE Carrier[o] # "fixed"
    <3>1. N = {} \cup Written({trip})
      BY <2>2
    <3> HIDE DEF N, trip
    <3>2. /\ Summable({} \cup Written({trip}))
          /\ SumOf({} \cup Written({trip})) = SumOf({}) + trip.cents
      BY <1>1, <1>3, NoEntries, OneMoreWritten
    <3>3. SumOf({}) + trip.cents = pay
      BY <1>1, <1>3, NoEntries
    <3>4. QED
      BY <2>2, <3>1, <3>2, <3>3
  <2>3. QED
    BY <2>1, <2>2
<1>6. \A e \in N : /\ e.of = o /\ e.day = day /\ e.cents # 0 /\ e.kind # "per-delivery-adj"
                   /\ e.party \in {Store, Driver} /\ (e.party = Driver => e.cents \in Nat)
  BY <1>1, <1>3, <1>4 DEF Written
<1> HIDE DEF N, trip, pair
<1>7. /\ ledger' = ledger \cup N
      /\ OfOrder(ledger', o) = N /\ ExtraOf(ledger', o) = ExtraOf(N, o)
      /\ \A p : p # o => /\ OfOrder(ledger', p) = OfOrder(ledger, p)
                         /\ ExtraOf(ledger', p) = ExtraOf(ledger, p)
  BY <1>1, <1>2, <1>6, FirstEntries
<1>8. stage'[o] = "RETURNED" /\ \A p \in Orders \ {o} : stage'[p] = stage[p]
  BY <1>2 DEF BookInv, EarnTypes
<1>9. Right(o)'
  <2>1. SumOf(N) = Balance(o)' /\ stage'[o] \notin Under /\ (o \notin Delivered)'
    BY <1>1, <1>2, <1>5, <1>8, AmountAssumption DEF Balance, Under, Delivered
  <2>2. QED
    BY <1>5, <1>7, <2>1, EndsRight
<1>10. ASSUME NEW p \in Orders \ {o}  PROVE Right(p)'
  <2>1. Right(p) /\ (stage[p] = "DELIVERY_FAILED" => Carrier[p] # "own")
    BY DEF BookInv, Right
  <2>2. QED
    BY <1>2, <1>7, <1>8, <2>1, StaysRight
<1>11. EarnTypes'
  BY <1>2 DEF BookInv, EarnTypes, STAGES
<1>12. Finishing'
  BY <1>1, <1>2, <1>8 DEF BookInv, Finishing
<1>13. EntriesRight'
  <2>1. \A e \in N : EntryRight(e, shift.seq)
    BY <1>1, <1>5, <1>6 DEF EntryRight, Summable
  <2>2. QED
    BY <1>2, <1>7, <2>1 DEF BookInv, EntriesRight, EntryRight
<1>14. QED
  BY <1>9, <1>10, <1>11, <1>12, <1>13 DEF BookInv

LEMMA ReleaseBooks == ASSUME BookInv, NEW o \in Orders, storeReleaseDriver(o)  PROVE BookInv'
<1> DEFINE pair == Pair("half-fee", o, 0, HalfFee, day)
           N == Written(pair)
<1>1. /\ stage[o] = "ASSIGNED" /\ OfOrder(ledger, o) = {} /\ day \in 1..LastDay
  BY DEF storeReleaseDriver, BookInv, Right, Under, EarnTypes
<1>2. /\ stage' = [stage EXCEPT ![o] = "RELEASED"]
      /\ ledger' = insertEntries(N)
      /\ UNCHANGED <<returnPay, agreed, shift, proposal, completing, day>>
  BY DEF storeReleaseDriver, Written
<1>3. \A e \in pair : /\ e.kind = "half-fee" /\ e.of = o /\ e.cents \in Int /\ e.day = day
                      /\ e.party \in {Store, Driver} /\ (e.party = Driver => e.cents \in Nat)
  BY Amounts, DriversOfPair, PairDay, PairParty
<1>4. Summable(N) /\ SumOf(N) = 0
  <2>1. N = {} \cup Written(pair)
    OBVIOUS
  <2>2. Summable({} \cup Written(pair)) /\ SumOf({} \cup Written(pair)) = SumOf({})
    BY Amounts, NoEntries, PairMakesNothing
  <2> HIDE DEF N, pair
  <2>3. QED
    BY <2>1, <2>2, NoEntries
<1>5. \A e \in N : /\ e.of = o /\ e.day = day /\ e.cents # 0 /\ e.kind # "per-delivery-adj"
                   /\ e.party \in {Store, Driver} /\ (e.party = Driver => e.cents \in Nat)
  BY <1>3 DEF Written
<1> HIDE DEF N, pair
<1>6. /\ ledger' = ledger \cup N
      /\ OfOrder(ledger', o) = N /\ ExtraOf(ledger', o) = ExtraOf(N, o)
      /\ \A p : p # o => /\ OfOrder(ledger', p) = OfOrder(ledger, p)
                         /\ ExtraOf(ledger', p) = ExtraOf(ledger, p)
  BY <1>1, <1>2, <1>5, FirstEntries
<1>7. stage'[o] = "RELEASED" /\ \A p \in Orders \ {o} : stage'[p] = stage[p]
  BY <1>2 DEF BookInv, EarnTypes
<1>8. Right(o)'
  <2>1. SumOf(N) = Balance(o)' /\ stage'[o] \notin Under /\ (o \notin Delivered)'
    BY <1>4, <1>7 DEF Balance, Under, Delivered
  <2>2. QED
    BY <1>4, <1>6, <2>1, EndsRight
<1>9. ASSUME NEW p \in Orders \ {o}  PROVE Right(p)'
  <2>1. Right(p) /\ (stage[p] = "DELIVERY_FAILED" => Carrier[p] # "own")
    BY DEF BookInv, Right
  <2>2. QED
    BY <1>2, <1>6, <1>7, <2>1, StaysRight
<1>10. EarnTypes'
  BY <1>2 DEF BookInv, EarnTypes, STAGES
<1>11. Finishing'
  BY <1>1, <1>2, <1>7 DEF BookInv, Finishing
<1>12. EntriesRight'
  <2>1. \A e \in N : EntryRight(e, shift.seq)
    BY <1>1, <1>4, <1>5 DEF EntryRight, Summable
  <2>2. QED
    BY <1>2, <1>6, <2>1 DEF BookInv, EntriesRight, EntryRight
<1>13. QED
  BY <1>8, <1>9, <1>10, <1>11, <1>12 DEF BookInv

(* Steps of orders that write nothing.                                         *)
LEMMA SameLedger ==
  ASSUME NEW o \in Orders, ledger' = ledger
  PROVE  OfOrder(ledger', o) = OfOrder(ledger, o) /\ ExtraOf(ledger', o) = ExtraOf(ledger, o)
BY DEF OfOrder, ExtraOf

LEMMA QuietOrders ==
  ASSUME BookInv, ledger' = ledger, agreed' = agreed, shift' = shift,
         \A o \in Orders :
           /\ stage'[o] = stage[o] \/ (stage[o] \in Under /\ stage'[o] \in Under)
           /\ stage'[o] = "DELIVERY_FAILED" => Carrier[o] # "own"
           /\ stage'[o] = "RETURNED" => returnPay'[o] = returnPay[o]
  PROVE  EntriesRight' /\ \A o \in Orders : Right(o)'
<1>1. ASSUME NEW o \in Orders  PROVE Right(o)'
  BY SameLedger, StaysRight DEF BookInv
<1>2. EntriesRight'
  BY DEF BookInv, EntriesRight, EntryRight
<1>3. QED
  BY <1>1, <1>2

LEMMA OrderBooks ==
  ASSUME BookInv, NEW o \in Orders,
         completeDeliveryReads(o) \/ failDelivery(o) \/ collectDelivery(o)
  PROVE  BookInv'
<1>1. \A p \in Orders : stage[p] = "DELIVERY_FAILED" => Carrier[p] # "own"
  BY DEF BookInv, Right
<1>2. CASE completeDeliveryReads(o)
  <2> DEFINE new == [order |-> o, extra |-> shift.extra, day |-> day]
  <2>1. /\ stage[o] = "OUT_FOR_DELIVERY" /\ \A t \in completing : t.order # o
        /\ completing' = completing \cup {new}
        /\ UNCHANGED <<stage, returnPay, agreed, shift, proposal, ledger, day>>
    BY <1>2 DEF completeDeliveryReads
  <2>2. EarnTypes'
    BY <2>1 DEF BookInv, EarnTypes
  <2>3. Finishing'
    <3>1. shift'.extra = shift.extra /\ shift.extra \in Nat
      BY <2>1 DEF BookInv, EarnTypes
    <3>2. QED
      BY <2>1, <3>1 DEF BookInv, Finishing, EarnTypes
  <2>4. QED
    BY <1>1, <2>1, <2>2, <2>3, QuietOrders DEF BookInv
<1>3. CASE failDelivery(o)
  <2>1. /\ stage[o] = "OUT_FOR_DELIVERY" /\ Carrier[o] # "own"
        /\ \A t \in completing : t.order # o
        /\ stage' = [stage EXCEPT ![o] = "DELIVERY_FAILED"]
        /\ returnPay' = [returnPay EXCEPT ![o] =
                           IF Carrier[o] = "fixed" THEN shift.extra ELSE DeliveryFee]
        /\ UNCHANGED <<agreed, shift, proposal, ledger, completing, day>>
    BY <1>3 DEF failDelivery, Handled
  <2>2. /\ stage'[o] = "DELIVERY_FAILED"
        /\ \A p \in Orders \ {o} : stage'[p] = stage[p] /\ returnPay'[p] = returnPay[p]
    BY <2>1 DEF BookInv, EarnTypes
  <2>3. EarnTypes'
    <3>1. stage' \in [Orders -> STAGES]
      BY <2>1 DEF BookInv, EarnTypes, STAGES
    <3>2. shift.extra \in Nat /\ DeliveryFee \in Nat
      BY AmountAssumption DEF BookInv, EarnTypes
    <3>3. returnPay' \in [Orders -> Nat]
      BY <2>1, <3>2 DEF BookInv, EarnTypes
    <3>4. QED
      BY <2>1, <3>1, <3>3 DEF BookInv, EarnTypes
  <2>4. Finishing'
    BY <2>1, <2>2 DEF BookInv, Finishing
  <2>5. EntriesRight' /\ \A p \in Orders : Right(p)'
    BY <1>1, <2>1, <2>2, QuietOrders DEF Under
  <2>6. QED
    BY <2>3, <2>4, <2>5 DEF BookInv
<1>4. CASE collectDelivery(o)
  <2>1. /\ stage[o] = "ASSIGNED"
        /\ stage' = [stage EXCEPT ![o] = "OUT_FOR_DELIVERY"]
        /\ UNCHANGED <<returnPay, agreed, shift, proposal, ledger, completing, day>>
    BY <1>4 DEF collectDelivery
  <2>2. stage'[o] = "OUT_FOR_DELIVERY" /\ \A p \in Orders \ {o} : stage'[p] = stage[p]
    BY <2>1 DEF BookInv, EarnTypes
  <2>3. EarnTypes'
    BY <2>1 DEF BookInv, EarnTypes, STAGES
  <2>4. Finishing'
    BY <2>1, <2>2 DEF BookInv, Finishing
  <2>5. EntriesRight' /\ \A p \in Orders : Right(p)'
    BY <1>1, <2>1, <2>2, QuietOrders DEF Under
  <2>6. QED
    BY <2>3, <2>4, <2>5 DEF BookInv
<1>5. QED
  BY <1>2, <1>3, <1>4

(* New terms, accepted for the past too, bring every delivered order to them.  *)
LEMMA AdjustedBooks ==
  ASSUME BookInv, NEW extra \in Nat, NEW seq \in Nat, seq = shift.seq + 1,
         ledger' = recordPerDeliveryAdjustment(extra, seq), shift'.seq = seq,
         agreed' = [o \in Orders |-> IF o \in Delivered THEN extra ELSE agreed[o]],
         UNCHANGED <<stage, returnPay, completing, day>>
  PROVE  EntriesRight' /\ \A o \in Orders : Right(o)'
<1> DEFINE more(o) == Pair("per-delivery-adj", o, seq, extra - PaidExtra(o), day)
           N == Written(UNION {more(o) : o \in Delivered})
<1>1. ASSUME NEW o \in Delivered
      PROVE  /\ o \in Orders /\ Summable(OfOrder(ledger, o)) /\ Right(o)
             /\ PaidExtra(o) = SumOf(ExtraOf(ledger, o)) /\ PaidExtra(o) \in Int
             /\ extra - PaidExtra(o) \in Int
  <2>1. o \in Orders /\ Summable(OfOrder(ledger, o)) /\ Right(o)
    BY DEF BookInv, Right, Delivered
  <2>2. PaidExtra(o) = SumOf(ExtraOf(ledger, o))
    BY DEF PaidExtra, ExtraOf
  <2>3. SumOf(ExtraOf(ledger, o)) \in Int
    BY <2>1, ExtraSummable, SumIsWhole
  <2>4. QED
    BY <2>1, <2>2, <2>3
<1>2. ASSUME NEW o \in Delivered, NEW e \in more(o)
      PROVE  /\ e.kind = "per-delivery-adj" /\ e.of = o /\ e.seq = seq /\ e.cents \in Int
             /\ e.day = day /\ e.party \in {Store, Driver}
  BY <1>1, <1>2, DriversOfPair, PairDay, PairParty
<1>3. \A f \in ledger : f.kind = "per-delivery-adj" => f.seq # seq
  BY DEF BookInv, EntriesRight, EntryRight, EarnTypes
<1> HIDE DEF more
<1>4. ledger' = ledger \cup N
  <2>1. ledger' = insertEntries(N)
    BY DEF recordPerDeliveryAdjustment, Written, more
  <2>2. \A e \in N : \A f \in ledger : ~SameKey(e, f)
    BY <1>2, <1>3 DEF Written, SameKey
  <2>3. QED
    BY <2>1, <2>2 DEF insertEntries
<1>5. \A e \in N : EntryRight(e, seq)
  <2>1. day \in 1..LastDay
    BY DEF BookInv, EarnTypes
  <2>2. QED
    BY <1>2, <2>1 DEF Written, EntryRight
<1>6. EntriesRight'
  <2>1. ASSUME NEW e \in ledger  PROVE EntryRight(e, seq)
    BY DEF BookInv, EntriesRight, EntryRight, EarnTypes
  <2>2. \A e \in ledger' : EntryRight(e, shift'.seq)
    BY <1>4, <1>5, <2>1
  <2>3. QED
    BY <2>2 DEF EntriesRight, EntryRight
<1>7. ASSUME NEW o \in Delivered  PROVE Right(o)'
  <2>1. OfOrder(ledger', o) = OfOrder(ledger, o) \cup Written(more(o))
    BY <1>2, <1>4 DEF OfOrder, Written
  <2> DEFINE S == OfOrder(ledger, o)
             cents == extra - PaidExtra(o)
  <2>2. /\ Summable(S \cup Written(more(o)))
        /\ SumOf(S \cup Written(more(o))) = SumOf(S)
    <3>1. Summable(S) /\ cents \in Int
      BY <1>1
    <3>2. \A e \in S : ~(e.kind = "per-delivery-adj" /\ e.of = o /\ e.seq = seq)
      BY <1>3 DEF OfOrder
    <3>3. more(o) = Pair("per-delivery-adj", o, seq, cents, day)
      BY DEF more
    <3> HIDE DEF S, cents
    <3>4. QED
      BY <3>1, <3>2, <3>3, PairMakesNothing
  <2>3. PICK a : /\ a.kind = "per-delivery-adj" /\ a.of = o /\ a.seq = seq /\ a.cents = cents
                 /\ {e \in more(o) : e.party = Driver} = {a}
    BY <1>1, DriversOfPair DEF more
  <2>4. ExtraOf(ledger', o) = ExtraOf(ledger, o) \cup Written({a})
    BY <1>2, <1>4, <2>3 DEF ExtraOf, Written, ExtraKinds
  <2> DEFINE P == ExtraOf(ledger, o)
  <2>5. Summable(P) /\ SumOf(P) = PaidExtra(o)
    BY <1>1, ExtraSummable
  <2>6. a \notin P /\ a.cents \in Int
    BY <1>1, <1>3, <2>3 DEF ExtraOf
  <2> HIDE DEF P
  <2>7. SumOf(P \cup Written({a})) = SumOf(P) + a.cents
    BY <2>5, <2>6, OneMoreWritten
  <2>8. SumOf(P) + a.cents = extra
    BY <1>1, <2>3, <2>5
  <2>9. SumOf(P \cup Written({a})) = extra
    BY <2>7, <2>8
  <2>10. SumOf(ExtraOf(OfOrder(ledger', o), o)) = agreed'[o]
    <3>1. ExtraOf(OfOrder(ledger', o), o) = ExtraOf(ledger', o)
      BY DEF ExtraOf, OfOrder
    <3>2. agreed'[o] = extra
      BY <1>1
    <3>3. QED
      BY <2>4, <2>9, <3>1, <3>2 DEF P
  <2>11. Balance(o)' = Balance(o)
    BY DEF Balance
  <2>12. SumOf(S) = Balance(o) /\ stage'[o] \notin Under
    BY <1>1 DEF Right, Delivered, Under
  <2> DEFINE T == OfOrder(ledger', o)
  <2>13. Summable(T) /\ SumOf(T) = Balance(o)'
    BY <2>1, <2>2, <2>11, <2>12
  <2>14. ExtraOf(ledger', o) = ExtraOf(T, o)
    BY DEF ExtraOf, OfOrder
  <2> HIDE DEF S, cents
  <2>15. QED
    BY <1>1, <2>10, <2>12, <2>13, <2>14, EndsRight
<1>8. ASSUME NEW o \in Orders \ Delivered  PROVE Right(o)'
  <2>1. OfOrder(ledger', o) = OfOrder(ledger, o) /\ ExtraOf(ledger', o) = ExtraOf(ledger, o)
    BY <1>2, <1>4, <1>8 DEF OfOrder, ExtraOf, Written
  <2>2. Right(o) /\ (stage[o] = "DELIVERY_FAILED" => Carrier[o] # "own") /\ agreed'[o] = agreed[o]
    BY DEF BookInv, Right
  <2>3. QED
    BY <2>1, <2>2, StaysRight
<1>9. QED
  BY <1>6, <1>7, <1>8 DEF Delivered

LEMMA TermsBooks ==
  ASSUME BookInv, NEW accept \in BOOLEAN, decideActiveShiftTerms(accept)  PROVE BookInv'
<1>1. /\ ~ShiftRowTaken /\ proposal # None /\ shift.seq < MaxAdjustments /\ proposal' = None
      /\ UNCHANGED <<stage, returnPay, completing, day>>
  BY DEF decideActiveShiftTerms
<1>2. \A t \in completing : ~LocksShift(t.order)
  BY <1>1 DEF ShiftRowTaken
<1>3. Finishing'
  BY <1>1, <1>2 DEF BookInv, Finishing, LocksShift
<1>4. /\ proposal.daily \in Nat /\ proposal.extra \in Nat
      /\ [daily |-> proposal.daily, extra |-> proposal.extra] \in Terms
  <2>1. [daily |-> proposal.daily, extra |-> proposal.extra] \in [daily : Nat, extra : Nat]
    BY <1>1, AmountAssumption DEF BookInv, EarnTypes
  <2>2. QED
    BY <1>1, <2>1 DEF BookInv, EarnTypes
<1>5. CASE ~accept
  <2>1. UNCHANGED <<shift, ledger, agreed>>
    BY <1>5 DEF decideActiveShiftTerms
  <2>2. EarnTypes'
    BY <1>1, <2>1 DEF BookInv, EarnTypes
  <2>3. \A o \in Orders : stage[o] = "DELIVERY_FAILED" => Carrier[o] # "own"
    BY DEF BookInv, Right
  <2>4. QED
    BY <1>1, <1>3, <2>1, <2>2, <2>3, QuietOrders DEF BookInv
<1>6. CASE accept
  <2>1. shift' = [shift EXCEPT !.daily = proposal.daily, !.extra = proposal.extra,
                               !.seq = shift.seq + 1]
    BY <1>6 DEF decideActiveShiftTerms
  <2>2. /\ shift' \in [status : ShiftStatuses, daily : Nat, extra : Nat, seq : 0..MaxAdjustments]
        /\ shift'.daily = proposal.daily /\ shift'.extra = proposal.extra
        /\ shift'.seq = shift.seq + 1 /\ shift.seq \in Nat
    <3>1. shift \in [status : ShiftStatuses, daily : Nat, extra : Nat, seq : 0..MaxAdjustments]
          /\ shift.seq \in Nat /\ shift.seq + 1 \in 0..MaxAdjustments
      BY <1>1, AmountAssumption DEF BookInv, EarnTypes
    <3>2. shift' = [status |-> shift.status, daily |-> proposal.daily,
                    extra |-> proposal.extra, seq |-> shift.seq + 1]
      BY <2>1, <3>1
    <3>3. QED
      BY <1>4, <3>1, <3>2
  <2>3. CASE proposal.retroactive
    <3>1. /\ ledger' = recordPerDeliveryAdjustment(proposal.extra, shift.seq + 1)
          /\ agreed' = [o \in Orders |-> IF o \in Delivered THEN proposal.extra ELSE agreed[o]]
      BY <1>6, <2>3 DEF decideActiveShiftTerms
    <3>2. EntriesRight' /\ \A o \in Orders : Right(o)'
      <4> DEFINE seq == shift.seq + 1
                 extra == proposal.extra
      <4>1. extra \in Nat /\ seq \in Nat /\ seq = shift.seq + 1 /\ shift'.seq = seq
        BY <1>4, <2>2
      <4> HIDE DEF seq, extra
      <4>2. ledger' = recordPerDeliveryAdjustment(extra, seq)
        BY <3>1 DEF seq, extra
      <4>3. agreed' = [o \in Orders |-> IF o \in Delivered THEN extra ELSE agreed[o]]
        BY <3>1 DEF extra
      <4>4. QED
        BY <1>1, <4>1, <4>2, <4>3, AdjustedBooks
    <3>3. EarnTypes'
      BY <1>1, <1>4, <2>2, <3>1 DEF BookInv, EarnTypes
    <3>4. QED
      BY <1>3, <3>2, <3>3 DEF BookInv
  <2>4. CASE ~proposal.retroactive
    <3>1. UNCHANGED <<ledger, agreed>>
      BY <1>6, <2>4 DEF decideActiveShiftTerms
    <3>2. ASSUME NEW o \in Orders  PROVE Right(o)'
      <4>1. Right(o) /\ (stage[o] = "DELIVERY_FAILED" => Carrier[o] # "own")
        BY DEF BookInv, Right
      <4>2. QED
        BY <1>1, <3>1, <4>1, SameLedger, StaysRight
    <3>3. EntriesRight'
      <4>1. ASSUME NEW e \in ledger  PROVE EntryRight(e, shift.seq + 1)
        BY <2>2 DEF BookInv, EntriesRight, EntryRight
      <4>2. QED
        BY <2>2, <3>1, <4>1 DEF EntriesRight, EntryRight
    <3>4. EarnTypes'
      BY <1>1, <1>4, <2>2, <3>1 DEF BookInv, EarnTypes
    <3>5. QED
      BY <1>3, <3>2, <3>3, <3>4 DEF BookInv
  <2>5. QED
    BY <2>3, <2>4
<1>7. QED
  BY <1>5, <1>6

(* Entries of the shift itself are of no order.                                *)
LEMMA DailyBooks ==
  ASSUME BookInv, ledger' \in {ledger, recordShiftDaily},
         NEW status \in ShiftStatuses, shift' = [shift EXCEPT !.status = status],
         proposal' \in {proposal, None}, UNCHANGED <<stage, returnPay, agreed, completing, day>>
  PROVE  BookInv'
<1> DEFINE N == Written(Pair("daily", Driver, 0, shift.daily, day))
<1>1. shift.daily \in Nat /\ day \in 1..LastDay
  BY DEF BookInv, EarnTypes
<1>2. \A e \in N : /\ e.kind = "daily" /\ e.of = Driver /\ e.day = day /\ e.cents \in Int \ {0}
                   /\ e.party \in {Store, Driver} /\ (e.party = Driver => e.cents \in Nat)
  BY <1>1, DriversOfPair, PairDay, PairParty DEF Written
<1>3. \E new \in SUBSET N : ledger' = ledger \cup new
  <2>1. recordShiftDaily = ledger \cup {e \in N : \A f \in ledger : ~SameKey(e, f)}
    BY DEF recordShiftDaily, insertEntries, Written
  <2> DEFINE fresh == {e \in N : \A f \in ledger : ~SameKey(e, f)}
  <2>2. fresh \in SUBSET N /\ {} \in SUBSET N
    OBVIOUS
  <2>3. ledger' = ledger \cup fresh \/ ledger' = ledger \cup {}
    BY <2>1
  <2> HIDE DEF N, fresh
  <2>4. QED
    BY <2>2, <2>3
<1> HIDE DEF N
<1>4. /\ shift' \in [status : ShiftStatuses, daily : Nat, extra : Nat, seq : 0..MaxAdjustments]
      /\ shift'.daily = shift.daily /\ shift'.extra = shift.extra /\ shift'.seq = shift.seq
  BY DEF BookInv, EarnTypes
<1>5. EarnTypes'
  BY <1>4 DEF BookInv, EarnTypes
<1>6. Finishing'
  BY <1>4 DEF BookInv, Finishing, LocksShift
<1>7. EntriesRight'
  <2>1. \A e \in N : EntryRight(e, shift.seq)
    BY <1>1, <1>2 DEF EntryRight
  <2>2. \A e \in ledger : EntryRight(e, shift.seq)
    BY DEF BookInv, EntriesRight
  <2>3. \A e \in ledger' : EntryRight(e, shift'.seq)
    BY <1>3, <1>4, <2>1, <2>2
  <2>4. QED
    BY <2>3 DEF EntriesRight, EntryRight
<1>8. ASSUME NEW o \in Orders  PROVE Right(o)'
  <2>1. o # Driver
    BY AmountAssumption
  <2>2. OfOrder(ledger', o) = OfOrder(ledger, o) /\ ExtraOf(ledger', o) = ExtraOf(ledger, o)
    BY <1>2, <1>3, <2>1 DEF OfOrder, ExtraOf
  <2>3. Right(o) /\ (stage[o] = "DELIVERY_FAILED" => Carrier[o] # "own")
    BY DEF BookInv, Right
  <2>4. QED
    BY <2>2, <2>3, StaysRight
<1>9. QED
  BY <1>5, <1>6, <1>7, <1>8 DEF BookInv

LEMMA ShiftBooks ==
  ASSUME BookInv,
         \/ \E to \in {"PENDING_DAILY", "CLOSED"} : EndShift(to)
         \/ \E approve \in BOOLEAN : decideShiftDaily(approve)
         \/ offerShiftReactivation \/ reactivateShift \/ cancelActiveShiftTerms
  PROVE  BookInv'
<1>1. CASE \E to \in {"PENDING_DAILY", "CLOSED"} : EndShift(to)
  BY <1>1, DailyBooks DEF EndShift, ShiftStatuses
<1>2. CASE \E approve \in BOOLEAN : decideShiftDaily(approve)
  BY <1>2, DailyBooks DEF decideShiftDaily, ShiftStatuses
<1>3. CASE offerShiftReactivation
  BY <1>3, DailyBooks DEF offerShiftReactivation, ShiftStatuses
<1>4. CASE reactivateShift
  BY <1>4, DailyBooks DEF reactivateShift, ShiftStatuses
<1>5. CASE cancelActiveShiftTerms
  <2>1. shift \in [status : ShiftStatuses, daily : Nat, extra : Nat, seq : 0..MaxAdjustments]
    BY DEF BookInv, EarnTypes
  <2>2. shift' = [shift EXCEPT !.status = shift.status] /\ shift.status \in ShiftStatuses
    BY <1>5, <2>1 DEF cancelActiveShiftTerms
  <2>3. QED
    BY <1>5, <2>2, DailyBooks DEF cancelActiveShiftTerms
<1>6. QED
  BY <1>1, <1>2, <1>3, <1>4, <1>5

LEMMA OtherBooks ==
  ASSUME BookInv, DayPasses \/ (\E t \in Terms, r \in BOOLEAN : proposeActiveShiftTerms(t, r))
                    \/ UNCHANGED earnings
  PROVE  BookInv'
<1>1. /\ UNCHANGED <<stage, returnPay, agreed, shift, ledger, completing>>
      /\ day' \in 1..LastDay
  BY AmountAssumption DEF DayPasses, proposeActiveShiftTerms, earnings, BookInv, EarnTypes
<1>2. proposal' # None => [daily |-> proposal'.daily, extra |-> proposal'.extra] \in Terms
  <2>1. ASSUME NEW t \in Terms, NEW r, proposeActiveShiftTerms(t, r)
        PROVE  [daily |-> proposal'.daily, extra |-> proposal'.extra] \in Terms
    <3>1. t = [daily |-> t.daily, extra |-> t.extra]
      BY AmountAssumption
    <3>2. proposal'.daily = t.daily /\ proposal'.extra = t.extra
      BY <2>1 DEF proposeActiveShiftTerms
    <3>3. QED
      BY <3>1, <3>2
  <2>2. CASE proposal' = proposal
    BY <2>2 DEF BookInv, EarnTypes
  <2>3. QED
    BY <2>1, <2>2 DEF DayPasses, earnings
<1>3. EarnTypes'
  BY <1>1, <1>2 DEF BookInv, EarnTypes
<1>4. Finishing'
  BY <1>1 DEF BookInv, Finishing, LocksShift
<1>5. \A o \in Orders : stage[o] = "DELIVERY_FAILED" => Carrier[o] # "own"
  BY DEF BookInv, Right
<1>6. EntriesRight' /\ \A o \in Orders : Right(o)'
  BY <1>1, <1>5, QuietOrders
<1>7. QED
  BY <1>3, <1>4, <1>6 DEF BookInv

LEMMA BooksStep == ASSUME BookInv, [Next]_vars  PROVE BookInv'
<1>1. ASSUME EarningsNext  PROVE BookInv'
  <2>1. ASSUME NEW o \in Orders,
               completeDeliveryReads(o) \/ failDelivery(o) \/ confirmReturn(o)
                 \/ collectDelivery(o) \/ storeReleaseDriver(o)
        PROVE  BookInv'
    BY <2>1, OrderBooks, ReturnBooks, ReleaseBooks
  <2>2. ASSUME NEW t \in completing, completeDelivery(t)  PROVE BookInv'
    BY <2>2, CompleteBooks
  <2>3. ASSUME NEW accept \in BOOLEAN, decideActiveShiftTerms(accept)  PROVE BookInv'
    BY <2>3, TermsBooks
  <2>4. QED
    BY <1>1, <2>1, <2>2, <2>3, ShiftBooks, OtherBooks DEF EarningsNext
<1>2. SettlementNext => UNCHANGED earnings
  BY DEF SettlementNext, Begin, LinkEntry, WriteTotal, CommitClosing, AbortClosing, MarkPaid
<1>3. QED
  BY <1>1, <1>2, OtherBooks DEF Next, vars

LEMMA BooksStart == FinanceInit => BookInv
<1> SUFFICES ASSUME FinanceInit  PROVE BookInv
  OBVIOUS
<1>1. Init
  BY DEF FinanceInit
<1>2. LinkTerms \in [daily : Nat, extra : Nat] /\ LinkTerms \in Terms
  BY AmountAssumption
<1>3. shift = [status |-> "ACTIVE", daily |-> LinkTerms.daily, extra |-> LinkTerms.extra,
               seq |-> 0]
  BY <1>1 DEF Init
<1>4. EarnTypes
  <2>1. [daily |-> shift.daily, extra |-> shift.extra] = LinkTerms
    BY <1>2, <1>3
  <2>2. shift \in [status : ShiftStatuses, daily : Nat, extra : Nat, seq : 0..MaxAdjustments]
    BY <1>2, <1>3, AmountAssumption DEF ShiftStatuses
  <2>3. QED
    BY <1>1, <1>2, <2>1, <2>2, AmountAssumption DEF Init, EarnTypes, STAGES
<1>5. \A o \in Orders : stage[o] \in {"ASSIGNED", "OUT_FOR_DELIVERY"}
  BY <1>1 DEF Init
<1>6. ASSUME NEW o \in Orders  PROVE Right(o)
  <2>1. OfOrder(ledger, o) = {}
    BY <1>1 DEF Init, OfOrder
  <2>2. Balance(o) = 0 /\ o \notin Delivered /\ stage[o] # "DELIVERY_FAILED"
    BY <1>5 DEF Balance, Delivered
  <2>3. QED
    BY <2>1, <2>2, NoEntries DEF Right
<1>7. QED
  BY <1>1, <1>4, <1>6 DEF Init, BookInv, Finishing, EntriesRight

LEMMA BooksInvariance == Spec => []BookInv
<1>1. BookInv /\ [Next]_vars => BookInv'
  BY BooksStep
<1>2. QED
  BY <1>1, BooksStart, PTL DEF Spec

(* Whatever is agreed, delivered, returned or released, in any order and by    *)
(* transactions that overlap: what an order's entries add up to is the         *)
(* platform's share of it (recordOrderLedger and what follows it).             *)
THEOREM NoCentIsLost == Spec => []BooksBalance
<1>1. BookInv => BooksBalance
  BY DEF BookInv, Right, OfOrder, BooksBalance
<1>2. QED
  BY <1>1, BooksInvariance, PTL

(* A delivered order pays the extra that was agreed for it, last of all the    *)
(* one accepted for the past too (recordPerDeliveryAdjustment).                *)
THEOREM ExtraAsAgreed == Spec => []PaysWhatWasAgreed
<1>1. BookInv => PaysWhatWasAgreed
  BY DEF BookInv, Right, ExtraOf, PaidExtra, PaysWhatWasAgreed, Delivered
<1>2. QED
  BY <1>1, BooksInvariance, PTL
-----------------------------------------------------------------------------
LEMMA CommitSettles ==
  ASSUME IInv, BookInv, NEW c \in Closers, CommitClosing(c), NEW e \in closing[c].seen
  PROVE  IsSettled(e)' \/ DriverDebit(e) \/ \E d \in Taker(c, e) : IsPaid(d)'
<1>1. /\ c \in Running /\ ToLink(c) = {}
      /\ items' = items \cup closing[c].wrote
  BY DEF CommitClosing, Running
<1>2. CASE e \notin closing[c].todo
  BY <1>1, <1>2 DEF IInv, NothingForgotten, IsSettled
<1>3. CASE HasItem(c, e)
  BY <1>1, <1>3 DEF HasItem, IsSettled
<1>4. CASE e \in closing[c].todo /\ Settles(e) /\ ~HasItem(c, e)
  <2>1. PICK d : d = Doc(e, closing[c].period)
    OBVIOUS
  <2>2. d \in DOMAIN document /\ document[d].status # "OPEN"
    BY <1>1, <1>4, <2>1 DEF ToLink, Unsettled, IsOpen
  <2>3. document[d].status = "PAID"
    BY <2>2 DEF IInv, Shapes
  <2>4. d \in DOMAIN document' /\ document'[d].status = document[d].status
    BY <2>2 DEF CommitClosing
  <2>5. d \in Taker(c, e)
    BY <2>1 DEF Taker
  <2>6. IsPaid(d)'
    BY <2>3, <2>4 DEF IsPaid
  <2>7. QED
    BY <2>5, <2>6
<1>5. CASE ~Settles(e)
  <2>1. e \in ledger
    BY <1>1 DEF IInv, LinksAreRight
  <2>2. EntryRight(e, shift.seq)
    BY <2>1 DEF BookInv, EntriesRight
  <2>3. e.party = Driver /\ e.cents < 0
    BY <1>5, <2>2, PartiesDiffer DEF EntryRight, Settles, KindOf
  <2>4. QED
    BY <2>2, <2>3 DEF EntryRight, DriverDebit
<1>6. QED
  BY <1>2, <1>3, <1>4, <1>5

(* Of all the entries of its period, a closing that commits has left only what *)
(* a paid document would take and what the driver owes for lower terms.        *)
THEOREM ClosingIsComplete == Spec => CloseLeavesOnlyDebits
<1> DEFINE Complete ==
      \A c \in Closers : CommitClosing(c) =>
        \A e \in closing[c].seen :
          IsSettled(e)' \/ DriverDebit(e) \/ \E d \in Taker(c, e) : IsPaid(d)'
<1>1. IInv /\ BookInv => Complete
  BY CommitSettles
<1>2. QED
  BY <1>1, Invariance, BooksInvariance, PTL DEF CloseLeavesOnlyDebits
=============================================================================
