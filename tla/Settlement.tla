----------------------------- MODULE Settlement -----------------------------
(* finance-settlement.service.ts: closing a period gathers the ledger entries  *)
(* dated in it into one document per party and kind; the administrator then    *)
(* marks the document paid.  A closing is one transaction of many statements:  *)
(* what it wrote is seen by others only at its commit, while a unique index or *)
(* a row lock makes the others wait for it.                                    *)
EXTENDS Earnings

CONSTANTS
  Closers, Periods,  \* requests that close; the sets of days they may name
  MaxClosings        \* bound: closings that start

VARIABLES
  document,   \* of each existing document: [status, total]
  items,      \* [entry, document] rows of the three item tables
  closing,    \* of each closer: its transaction, or None
  closings    \* how many have started

documents == <<document, items, closing, closings>>
vars == <<earnings, documents>>

SettlementInit ==
  document = <<>> /\ items = {} /\ closing = [c \in Closers |-> None] /\ closings = 0

(* A debit of the store is invoiced, a credit is paid out; a debit of the      *)
(* driver fits neither branch of the loop.                                     *)
KindOf(e) ==
  CASE e.party = Store /\ e.cents < 0 -> "invoice"
    [] e.party = Store /\ e.cents > 0 -> "storePayout"
    [] e.party = Driver /\ e.cents > 0 -> "driverPayout"
    [] OTHER -> "none"

Settles(e) == KindOf(e) # "none"

Doc(e, period) == [kind |-> KindOf(e), party |-> e.party, period |-> period]

Absolute(n) == IF n < 0 THEN -n ELSE n

signedTotal(rows) ==                     \* mutant: Math.abs forgotten
  MapThenSumSet(LAMBDA i : i.entry.cents, rows)

TotalOf(rows) == MapThenSumSet(LAMBDA i : Absolute(i.entry.cents), rows)

Dated(period) == {e \in ledger : e.day \in period}

(* The entries a closing reads, in the order the database returns them, which  *)
(* nothing fixes.                                                              *)
Begin(c, period) ==
  /\ closing[c] = None
  /\ closings < MaxClosings /\ closings' = closings + 1
  /\ closing' = [closing EXCEPT ![c] =
       [period |-> period, todo |-> Dated(period), seen |-> Dated(period),
        created |-> {}, wrote |-> {}, totals |-> <<>>, doc |-> None, sum |-> 0]]
  /\ UNCHANGED <<document, items, earnings>>

Running == {c \in Closers : closing[c] # None}

Others(c) == Running \ {c}

hasItemOfPeriod(c, e) ==                 \* mutant: looks at this period's items only
  \E i \in items \cup closing[c].wrote :
    i.entry = e /\ i.document.period = closing[c].period

HasItem(c, e) == \E i \in items \cup closing[c].wrote : i.entry = e

(* A unique index makes an insert wait for another transaction's same key.     *)
Creating(c, d) == \E k \in Others(c) : d \in closing[k].created
Linking(c, e) == \E k \in Others(c) : \E i \in closing[k].wrote : i.entry = e
TotalLocked(c, d) == \E k \in Others(c) : d \in DOMAIN closing[k].totals

IsOpen(d) == d \in DOMAIN document => document[d].status = "OPEN"

(* Entries the loop passes over: a debit of the driver, those that have their  *)
(* item (hasStoreInvoiceItem and its siblings), or ensureStoreInvoice and its  *)
(* siblings found the document paid and the loop continues.  Passing over      *)
(* changes nothing, and an entry once passed over would be again, so it is no  *)
(* step of its own.                                                            *)
Unsettled(c) == {e \in closing[c].todo : Settles(e) /\ ~HasItem(c, e)}

leavesAtPaid(c) ==                       \* mutant: return where the loop continues
  IF \E e \in Unsettled(c) : ~IsOpen(Doc(e, closing[c].period)) THEN {} ELSE Unsettled(c)

ToLink(c) == {e \in Unsettled(c) : IsOpen(Doc(e, closing[c].period))}

ownItems(c, wrote) == wrote               \* mutant: only what this closing added

VisibleItems(c, wrote) == items \cup wrote

(* The document is found open or created, the item linked, and the total read: *)
(* committed items and the closing's own.                                      *)
LinkEntry(c, e) ==
  LET d == Doc(e, closing[c].period)
      wrote == closing[c].wrote \cup {[entry |-> e, document |-> d]}
  IN /\ closing[c] # None /\ closing[c].doc = None
     /\ e \in ToLink(c)
     /\ ~Creating(c, d) /\ ~Linking(c, e)
     /\ closing' = [closing EXCEPT ![c] = [@ EXCEPT
          !.todo = closing[c].todo \ {e},
          !.created = closing[c].created \cup ({d} \ DOMAIN document),
          !.wrote = wrote,
          !.doc = d,
          !.sum = TotalOf({i \in VisibleItems(c, wrote) : i.document = d})]]
     /\ UNCHANGED <<document, items, closings, earnings>>

(* refreshStoreInvoiceTotal's update: it takes the document's row.             *)
WriteTotal(c) ==
  /\ closing[c] # None /\ closing[c].doc # None
  /\ ~TotalLocked(c, closing[c].doc)
  /\ LET d == closing[c].doc
         totals == closing[c].totals
     IN closing' = [closing EXCEPT ![c] = [@ EXCEPT
          !.doc = None,
          !.totals = [x \in DOMAIN totals \cup {d} |->
                        IF x = d THEN closing[c].sum ELSE totals[x]]]]
  /\ UNCHANGED <<document, items, closings, earnings>>

CommitClosing(c) ==
  LET t == closing[c] IN
  /\ t # None /\ t.doc = None /\ ToLink(c) = {}
  /\ document' = [d \in DOMAIN document \cup DOMAIN t.totals |->
                    [status |-> IF d \in DOMAIN document THEN document[d].status ELSE "OPEN",
                     total |-> IF d \in DOMAIN t.totals THEN t.totals[d]
                               ELSE document[d].total]]
  /\ items' = items \cup t.wrote
  /\ closing' = [closing EXCEPT ![c] = None]
  /\ UNCHANGED <<closings, earnings>>

(* The request dies, or the database picks it as a deadlock's victim.          *)
AbortClosing(c) ==
  /\ closing[c] # None
  /\ closing' = [closing EXCEPT ![c] = None]
  /\ UNCHANGED <<document, items, closings, earnings>>

(* markStoreInvoicePaid, markStorePayoutPaid, markDriverPayoutPaid: whatever   *)
(* the status was.                                                             *)
MarkPaid(d) ==
  /\ d \in DOMAIN document
  /\ \A c \in Running : d \notin DOMAIN closing[c].totals
  /\ document' = [document EXCEPT ![d] = [@ EXCEPT !.status = "PAID"]]
  /\ UNCHANGED <<items, closing, closings, earnings>>

SettlementNext ==
  \/ \E c \in Closers :
       \/ \E p \in Periods : Begin(c, p)
       \/ \E e \in ledger : LinkEntry(c, e)
       \/ WriteTotal(c) \/ CommitClosing(c) \/ AbortClosing(c)
  \/ \E d \in DOMAIN document : MarkPaid(d)
=============================================================================
