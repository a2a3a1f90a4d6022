------------------------------ MODULE Earnings ------------------------------
(* finance.service.ts and shift-proposal.service.ts: what a finished order     *)
(* enters in the ledger, and how terms agreed in the middle of a shift reach   *)
(* the orders already delivered.  Amounts are cents; a positive one is owed by *)
(* the platform to the party, a negative one by the party to the platform.     *)
EXTENDS Integers, FiniteSets, FiniteSetsExt, TLC

CONSTANTS
  Orders,          \* deliveries of one store, out with their carrier
  Carrier,         \* "fixed": in the driver's shift, "pool", "own": the store's
  Online,          \* the orders paid through the platform
  Subtotal, DeliveryFee, CommissionBps,
  LinkTerms,       \* what the shift starts with
  Terms,           \* daily rate and extra per delivery that can be agreed
  Store, Driver,   \* the two parties
  LastDay,         \* bound: days the clock advances to
  MaxAdjustments,  \* bound: proposals accepted in the shift
  None

ASSUME PartiesDiffer == Store # Driver

(* Amounts are not negative and a commission is at most the whole (the bounds  *)
(* of admin-stores.ts:161); the daily entry is the driver's, of no order.      *)
ASSUME AmountAssumption ==
  /\ Subtotal \in Nat /\ DeliveryFee \in Nat /\ CommissionBps \in 0..10000
  /\ LinkTerms \in Terms
  /\ \A t \in Terms : t \in [daily : Nat, extra : Nat]
  /\ \A o \in Orders : Carrier[o] \in {"fixed", "pool", "own"}
  /\ Driver \notin Orders
  /\ LastDay \in Nat \ {0} /\ MaxAdjustments \in Nat

VARIABLES
  stage,       \* of each order
  returnPay,   \* orders.return_driver_pay_cents
  agreed,      \* what each delivered order should have paid; no column holds it
  shift,       \* status, daily, extra, seq: the shift's row
  proposal,    \* the one pending shift_term_proposals row, or None
  ledger,      \* ledger_entries
  completing,  \* completeDelivery transactions between reading and commit
  day          \* the date now() would give

earnings == <<stage, returnPay, agreed, shift, proposal, ledger, completing, day>>

STAGES == {"ASSIGNED", "OUT_FOR_DELIVERY", "DELIVERED", "DELIVERY_FAILED", "RETURNED", "RELEASED"}

Init ==
  /\ stage = [o \in Orders |-> IF Carrier[o] = "pool" THEN "ASSIGNED" ELSE "OUT_FOR_DELIVERY"]
  /\ returnPay = [o \in Orders |-> 0]
  /\ agreed = [o \in Orders |-> 0]
  /\ shift = [status |-> "ACTIVE", daily |-> LinkTerms.daily, extra |-> LinkTerms.extra,
               seq |-> 0]
  /\ proposal = None
  /\ ledger = {}
  /\ completing = {}
  /\ day = 1

(* Math.round of a positive amount.                                            *)
commissionCents(subtotalCents, bps) == (subtotalCents * bps + 5000) \div 10000

Commission == commissionCents(Subtotal, CommissionBps)

Entry(kind, of, seq, party, cents, date) ==
  [kind |-> kind, of |-> of, seq |-> seq, party |-> party, cents |-> cents, day |-> date]

(* unique_key: order or shift, kind and party, and the number of an adjustment. *)
SameKey(e, f) ==
  e.kind = f.kind /\ e.of = f.of /\ e.seq = f.seq /\ e.party = f.party

insertEntries(entries) ==
  ledger \cup {e \in entries : \A f \in ledger : ~SameKey(e, f)}

(* A credit to the driver and the store's debit that pays for it.              *)
Pair(kind, of, seq, cents, date) ==
  {Entry(kind, of, seq, Driver, cents, date), Entry(kind, of, seq, Store, -cents, date)}

SaleCredit(o, cents, date) ==
  IF cents > 0 THEN {Entry("sale-credit", o, 0, Store, cents, date)} ELSE {}

creditsTheFee(o, date) ==                \* mutant: the pool driver's fee goes to the store too
  IF o \in Online
    THEN SaleCredit(o, Subtotal - Commission + DeliveryFee, date)
    ELSE {Entry("commission-debit", o, 0, Store, -Commission, date)}

(* Online the platform holds the customer's money and credits the store; else  *)
(* the store holds it and owes the platform's share.                           *)
StoreEntries(o, date) ==
  IF o \in Online
    THEN SaleCredit(o, Subtotal - Commission
                         + (IF Carrier[o] = "pool" THEN 0 ELSE DeliveryFee), date)
    ELSE {Entry("commission-debit", o, 0, Store, -Commission, date)}
           \cup (IF Carrier[o] = "pool"
                   THEN {Entry("driver-fee-debit", o, 0, Store, -DeliveryFee, date)}
                   ELSE {})

CarrierEntries(o, extra, date) ==
  CASE Carrier[o] = "pool" ->
         {Entry("delivery-credit", o, 0, Driver, DeliveryFee, date)}
    [] Carrier[o] = "fixed" -> Pair("per-delivery", o, 0, extra, date)
    [] Carrier[o] = "own" -> {}

(* Nothing is written for an amount of zero.                                   *)
recordOrderLedger(o, extra, date) ==
  insertEntries({e \in StoreEntries(o, date) \cup CarrierEntries(o, extra, date) :
                   e.cents # 0})

LocksShift(o) == Carrier[o] = "fixed"

rowUnlocked == completing # {} /\ day = 0  \* mutant: nobody locks the shift row

ShiftRowTaken == \E t \in completing : LocksShift(t.order)


(* completeDelivery locks the shift before the order ("turno -> pedido") and   *)
(* holds it until the commit; the entry's date is the transaction's start.     *)
completeDeliveryReads(o) ==
  /\ stage[o] = "OUT_FOR_DELIVERY"
  /\ \A t \in completing : t.order # o
  /\ LocksShift(o) => ~ShiftRowTaken
  /\ completing' = completing \cup {[order |-> o, extra |-> shift.extra, day |-> day]}
  /\ UNCHANGED <<stage, returnPay, agreed, shift, proposal, ledger, day>>

completeDelivery(t) ==
  /\ t \in completing
  /\ stage' = [stage EXCEPT ![t.order] = "DELIVERED"]
  /\ agreed' = [agreed EXCEPT ![t.order] = IF Carrier[t.order] = "fixed" THEN shift.extra ELSE 0]
  /\ ledger' = recordOrderLedger(t.order, t.extra, t.day)
  /\ completing' = completing \ {t}
  /\ UNCHANGED <<returnPay, shift, proposal, day>>

Handled(o) == \E t \in completing : t.order = o

(* failDelivery freezes what the return will pay; confirmReturn pays it.       *)
failDelivery(o) ==
  /\ stage[o] = "OUT_FOR_DELIVERY" /\ ~Handled(o)
  /\ Carrier[o] # "own"
  /\ LocksShift(o) => ~ShiftRowTaken
  /\ stage' = [stage EXCEPT ![o] = "DELIVERY_FAILED"]
  /\ returnPay' = [returnPay EXCEPT ![o] =
                     IF Carrier[o] = "fixed" THEN shift.extra ELSE DeliveryFee]
  /\ UNCHANGED <<agreed, shift, proposal, ledger, completing, day>>

recordReturnLedger(o) ==
  insertEntries({e \in IF Carrier[o] = "fixed"
                         THEN Pair("per-delivery-on-return", o, 0, returnPay[o], day)
                         ELSE {Entry("delivery-credit-on-return", o, 0, Driver,
                                     returnPay[o], day)} : e.cents # 0})

confirmReturn(o) ==
  /\ stage[o] = "DELIVERY_FAILED"
  /\ stage' = [stage EXCEPT ![o] = "RETURNED"]
  /\ ledger' = recordReturnLedger(o)
  /\ UNCHANGED <<returnPay, agreed, shift, proposal, completing, day>>

collectDelivery(o) ==
  /\ stage[o] = "ASSIGNED"
  /\ stage' = [stage EXCEPT ![o] = "OUT_FOR_DELIVERY"]
  /\ UNCHANGED <<returnPay, agreed, shift, proposal, ledger, completing, day>>

(* The store lets go of a driver who had already arrived: half the fee for the *)
(* trip.  Who takes the order next is beyond this model.                       *)
HalfFee == (DeliveryFee + 1) \div 2

storeReleaseDriver(o) ==
  /\ stage[o] = "ASSIGNED"
  /\ stage' = [stage EXCEPT ![o] = "RELEASED"]
  /\ ledger' = insertEntries({e \in Pair("half-fee", o, 0, HalfFee, day) : e.cents # 0})
  /\ UNCHANGED <<returnPay, agreed, shift, proposal, completing, day>>

proposeActiveShiftTerms(t, retroactive) ==
  /\ shift.status = "ACTIVE" /\ ~ShiftRowTaken
  /\ t.daily # shift.daily \/ t.extra # shift.extra \/ retroactive
  /\ proposal = None                     \* the partial unique index
  /\ proposal' = [daily |-> t.daily, extra |-> t.extra, retroactive |-> retroactive]
  /\ UNCHANGED <<stage, returnPay, agreed, shift, ledger, completing, day>>

Delivered == {o \in Orders : Carrier[o] = "fixed" /\ stage[o] = "DELIVERED"}

SumOf(entries) == MapThenSumSet(LAMBDA e : e.cents, entries)

ExtraKinds == {"per-delivery", "per-delivery-adj"}

PaidExtra(o) ==
  SumOf({e \in ledger : e.of = o /\ e.party = Driver /\ e.kind \in ExtraKinds})

(* Brings what each delivered order paid up, or down, to the new extra.        *)
recordPerDeliveryAdjustment(extra, seq) ==
  insertEntries({e \in UNION {Pair("per-delivery-adj", o, seq, extra - PaidExtra(o), day) :
                                o \in Delivered} : e.cents # 0})

decideActiveShiftTerms(accept) ==
  /\ shift.status = "ACTIVE" /\ ~ShiftRowTaken
  /\ proposal # None
  /\ shift.seq < MaxAdjustments
  /\ proposal' = None
  /\ IF accept
       THEN /\ shift' = [shift EXCEPT !.daily = proposal.daily, !.extra = proposal.extra,
                                      !.seq = @ + 1]
            /\ IF proposal.retroactive
                 THEN /\ ledger' = recordPerDeliveryAdjustment(proposal.extra, shift.seq + 1)
                      /\ agreed' = [o \in Orders |-> IF o \in Delivered THEN proposal.extra
                                                     ELSE agreed[o]]
                 ELSE UNCHANGED <<ledger, agreed>>
       ELSE UNCHANGED <<shift, ledger, agreed>>
  /\ UNCHANGED <<stage, returnPay, completing, day>>

cancelActiveShiftTerms ==
  /\ proposal # None
  /\ proposal' = None
  /\ UNCHANGED <<stage, returnPay, agreed, shift, ledger, completing, day>>

Unfinished ==
  \E o \in Orders : Carrier[o] = "fixed" /\ stage[o] \notin {"DELIVERED", "RETURNED"}

recordShiftDaily == insertEntries({e \in Pair("daily", Driver, 0, shift.daily, day) : e.cents # 0})

(* endShift leaves the daily rate to the store's decision; closeShift, the     *)
(* store's own call, enters it at once.  Both cancel the pending proposal.     *)
EndShift(to) ==
  /\ shift.status = "ACTIVE" /\ ~ShiftRowTaken /\ ~Unfinished
  /\ shift' = [shift EXCEPT !.status = to]
  /\ proposal' = None
  /\ ledger' = IF to = "CLOSED" THEN recordShiftDaily ELSE ledger
  /\ UNCHANGED <<stage, returnPay, agreed, completing, day>>

decideShiftDaily(approve) ==
  /\ shift.status \in {"PENDING_DAILY", "REOPEN_ALLOWED"}
  /\ shift' = [shift EXCEPT !.status = "CLOSED"]
  /\ ledger' = IF approve THEN recordShiftDaily ELSE ledger
  /\ UNCHANGED <<stage, returnPay, agreed, proposal, completing, day>>

offerShiftReactivation ==
  /\ shift.status = "PENDING_DAILY"
  /\ shift' = [shift EXCEPT !.status = "REOPEN_ALLOWED"]
  /\ UNCHANGED <<stage, returnPay, agreed, proposal, ledger, completing, day>>

(* Too late for the offer it goes back to waiting for the decision.            *)
reactivateShift ==
  /\ shift.status = "REOPEN_ALLOWED"
  /\ \E to \in {"PENDING_DAILY", "ACTIVE"} : shift' = [shift EXCEPT !.status = to]
  /\ UNCHANGED <<stage, returnPay, agreed, proposal, ledger, completing, day>>

DayPasses ==
  /\ day < LastDay
  /\ day' = day + 1
  /\ UNCHANGED <<stage, returnPay, agreed, shift, proposal, ledger, completing>>

EarningsNext ==
  \/ \E o \in Orders : \/ completeDeliveryReads(o) \/ failDelivery(o)
                       \/ confirmReturn(o) \/ collectDelivery(o) \/ storeReleaseDriver(o)
  \/ \E t \in completing : completeDelivery(t)
  \/ \E t \in Terms, r \in BOOLEAN : proposeActiveShiftTerms(t, r)
  \/ \E accept \in BOOLEAN : decideActiveShiftTerms(accept) \/ decideShiftDaily(accept)
  \/ cancelActiveShiftTerms \/ offerShiftReactivation \/ reactivateShift
  \/ \E to \in {"PENDING_DAILY", "CLOSED"} : EndShift(to)
  \/ DayPasses
=============================================================================
