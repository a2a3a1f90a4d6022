------------------------------ MODULE Finance ------------------------------
(* The ledger, the terms of a running shift and the closing of periods, run    *)
(* together: entries keep arriving while documents are closed and paid.        *)
EXTENDS Settlement

FinanceInit == Init /\ SettlementInit

Next ==
  \/ EarningsNext /\ UNCHANGED documents
  \/ SettlementNext

Spec == FinanceInit /\ [][Next]_vars

DocKeys == [kind : {"invoice", "storePayout", "driverPayout"},
            party : {Store, Driver}, period : Periods]

Closing == [period : Periods, todo : SUBSET ledger, seen : SUBSET ledger,
            created : SUBSET DocKeys,
            wrote : SUBSET [entry : ledger, document : DocKeys],
            totals : UNION {[D -> Nat] : D \in SUBSET DocKeys},
            doc : DocKeys \cup {None}, sum : Nat]

TypeOK ==
  /\ stage \in [Orders -> STAGES]
  /\ returnPay \in [Orders -> Nat] /\ agreed \in [Orders -> Nat]
  /\ shift.status \in {"ACTIVE", "PENDING_DAILY", "REOPEN_ALLOWED", "CLOSED"}
  /\ [daily |-> shift.daily, extra |-> shift.extra] \in Terms
  /\ shift.seq \in 0..MaxAdjustments
  /\ \A e \in ledger : e.cents \in Int \ {0} /\ e.day \in 1..LastDay
  /\ \A t \in completing : t.order \in Orders /\ t.day \in 1..LastDay
  /\ DOMAIN document \subseteq DocKeys
  /\ \A d \in DOMAIN document :
       document[d].status \in {"OPEN", "PAID"} /\ document[d].total \in Nat
  /\ items \subseteq [entry : ledger, document : DocKeys]
  /\ \A c \in Running :
       /\ closing[c].todo \subseteq closing[c].seen /\ closing[c].seen \subseteq ledger
       /\ closing[c].created \subseteq DocKeys /\ DOMAIN closing[c].totals \subseteq DocKeys
       /\ closing[c].wrote \subseteq [entry : ledger, document : DocKeys]
       /\ closing[c].doc \in DocKeys \cup {None} /\ closing[c].sum \in Nat

(* What the entries of an order add up to: the platform keeps its commission   *)
(* of a delivered order and nothing else, pays the trip back of a pool driver  *)
(* itself, and whatever else a driver earns some store owes.                   *)
Balance(o) ==
  CASE stage[o] = "DELIVERED" ->
         (IF o \in Online THEN Subtotal + DeliveryFee ELSE 0) - Commission
    [] stage[o] = "RETURNED" /\ Carrier[o] = "pool" -> returnPay[o]
    [] OTHER -> 0

(* recordOrderLedger, recordReturnLedger, recordHalfFee and the adjustments:   *)
(* after any sequence of them no cent of an order is lost or invented.         *)
BooksBalance == \A o \in Orders : SumOf({e \in ledger : e.of = o}) = Balance(o)

(* recordPerDeliveryAdjustment: accepted for the past too, new terms bring     *)
(* every delivered order to the new extra, also one being completed meanwhile. *)
PaysWhatWasAgreed == \A o \in Delivered : PaidExtra(o) = agreed[o]

(* The documents: an entry is in one of them at most, however periods overlap  *)
(* and closings race, of its own party and kind, and dated in its period.      *)
SettledOnce ==
  /\ \A i, j \in items : i.entry = j.entry => i = j
  /\ \A i \in items : i.document.period \in Periods
                        /\ i.document = Doc(i.entry, i.document.period)
                        /\ i.entry.day \in i.document.period

(* refreshStoreInvoiceTotal and its siblings: once no closing is running, a    *)
(* document's total is what its items add up to.                               *)
TotalsMatchItems ==
  Running = {} => \A d \in DOMAIN document :
                    document[d].total = TotalOf({i \in items : i.document = d})

(* The driver's side of an adjustment downwards.                               *)
DriverDebit(e) == e.kind = "per-delivery-adj" /\ e.party = Driver /\ e.cents < 0

IsSettled(e) == \E i \in items : i.entry = e

IsPaid(d) == d \in DOMAIN document /\ document[d].status = "PAID"

Taker(c, e) == {Doc(e, closing[c].period)}

(* closeFinancePeriod: of the entries dated in the period, all of which it     *)
(* reads, a closing leaves two sorts behind when it commits: those whose       *)
(* document was already paid, and the driver's side of an adjustment           *)
(* downwards.  No race with other closings, payments or late entries makes it  *)
(* leave any other.                                                            *)
CloseLeavesOnlyDebits ==
  [][\A c \in Closers : CommitClosing(c) =>
       \A e \in closing[c].seen :
         IsSettled(e)' \/ DriverDebit(e) \/ \E d \in Taker(c, e) : IsPaid(d)']_vars

-----------------------------------------------------------------------------
(* docs/superpowers/plans/2026-07-10-financeiro-ledger.md:7 says that closing  *)
(* gathers the entries not yet closed in documents: all of them.  The debit of *)
(* a driver is never gathered (finance-settlement.service.ts:152-177).         *)
CloseSettlesAll ==
  [][\A c \in Closers : CommitClosing(c) =>
       \A e \in closing[c].seen :
         IsSettled(e)' \/ \E d \in Taker(c, e) : IsPaid(d)']_vars
=============================================================================
