# Delivo: verification project

TLA+ models of the Delivo API (`src/apps/api`, a food-delivery back end: Hono
and Drizzle on Cloudflare Workers over PostgreSQL, Read Committed), the TLC
runs that check them on small instances, and the theorems TLAPS proves about
them for every instance.

## 1. The system

| Part | State | Operations | What is hard |
|---|---|---|---|
| Order status machine (`order-status.service.ts`, `packages/shared/src/order-status.ts`) | `orders.status`, cancellation request, events | store advances, customer / store / cron cancel, calls for a driver | a dozen handlers write the same column; compare-and-set, row locks and neither |
| Dispatch (`dispatch.service.ts`), returns (`return.service.ts`) | `orders.driver_id`, `shift_id`, arrival, frozen return pay | accept, refuse, release, collect, arrive, complete, fail, declare and confirm a return | two drivers at one order; a driver between pool and shift |
| Packages (`batch.service.ts`) | `delivery_batches`, `orders.batch_id` | create, offer, cancel, accept, refuse, release, collect | writes columns the single-order paths write too |
| Shifts (`shift.service.ts`, `shift-proposal.service.ts`) | `driver_shifts`, start authorizations, term proposals | start, end, close, daily decision, automatic approval, reopen | races with accept paths over two tables |
| Store-driver links, offers (`store-driver.service.ts`, `offer.service.ts`) | `store_drivers`, `driver_offers` | invite, confirm, remove, propose terms, accept an offer | two-party agreements, stale proposals |
| Amendments (`amendment.service.ts`) | `order_amendments` | propose, withdraw, approve, reject | unlocked reads, refunds, at most one proposal |
| Ledger and settlement (`finance.service.ts`, `finance-settlement.service.ts`) | `ledger_entries`, invoices, payouts | record, adjust, close a period, mark paid | once-only entries, late entries |
| Payments (`payments/*`) | `payments`, `payment_operations`, `payment_webhook_inbox` | checkout, recover a lost create, apply a snapshot, cancel, refund, reconcile | an external provider, lost answers, retries, leases, reordered snapshots |
| E-mail outbox (`email/outbox.service.ts`) | `email_outbox` | enqueue, claim, send, retry | leases and idempotency |
| Identity (`registration`, `auth-*`, `account-activation`, `password-recovery`, `security-session`, `store-provisioning`, `admin-bootstrap`) | challenges, tickets, pending registrations, refresh tokens | issue, verify, consume, rotate | attempt limits, single use, concurrent verification |
| Rate limiting (`security/rate-limit.ts`) | `rate_limit_buckets` | hit, clean up | concurrent hits at a window's edge |
| Catalog, checkout (`catalog.service.ts`, `order.service.ts`, `CheckoutView.vue`) | stores, products, option trees, cart, idempotency key | edit, replace a menu, quote, order, pay, try again | reads in several statements; lost answers; a key that lives as long as the page |
| Routes, push, media, other pages | none of their own | parsing and I/O | little |

The cron (`src/apps/api/src/index.ts`) calls, in order: the e-mail outbox,
identity cleanup, `cancelStalePendingOrders`, `runPaymentReconciliation`,
`autoApproveStaleShiftDailies`, rate-limit cleanup.

How they interact: handlers share rows, and every interaction goes through the
database. A cancellation (status machine) queues a refund (payments); a
provider's answer (payments) releases or cancels an order (status machine); a
completed delivery (dispatch) writes the ledger and releases the shift; an
approved amendment queues a partial refund.

## 2. Modelling decisions

* One variable per column (or per group of columns that change together); one
  action per service function; its guards are the function's `where` clauses,
  early returns and thrown errors.
* A transaction that locks (`FOR UPDATE`, or an `UPDATE ... WHERE`) every row
  it decides on is one step. A transaction that reads a row it does not lock is
  as many steps as it has such reads.
* Time enters only through the choices it permits (a stale order, an expired
  lease): any moment may be that moment.
* Row ids are model values; texts, coordinates, photos and prices are left out
  where no property is about them.

## 3. Modules

### Delivery: orders, drivers, packages, shifts

| Module | Models | Remarks |
|---|---|---|
| `OrderLifecycle` | what `order-status.ts` promises about a status | the abstract specification; `Visible` adds the two edges the services take in one transaction (`PREPARING` to `AWAITING_DRIVER` when a called order becomes ready, `AWAITING_DRIVER` to `READY` when the call is withdrawn) |
| `DeliveryState` | the columns of `orders`, `delivery_batches`, `driver_shifts` and the drivers' `ledger_entries` that dispatch reads or writes | `ledger` is a set keyed as `ledger_entries.unique_key` is; `insertEntries` drops a taken key, as `ON CONFLICT DO NOTHING` does |
| `OrderFlow` | `order-status.service.ts`, and the status writes of `payments/` and `amendment.service.ts` | |
| `Dispatch` | `dispatch.service.ts`, `return.service.ts`, the driver's part of `finance.service.ts` | |
| `DeliveryBatches` | `batch.service.ts` | |
| `Shifts` | `shift.service.ts` | |
| `Delivery` | their composition, the properties, the inductive invariant `IInv` | |
| `MC_Delivery` | instances for TLC | |
| `DeliveryProofs` | the theorems | |

Each module EXTENDS the one above it, because the code's functions share rows.
`acceptDelivery` and `startShift` are the two transactions that read rows they
do not lock (the other's): each is two steps, and what serializes them is the
lock on the driver's `users` row, held in `holding` between the two.
`acceptShiftDelivery` and `acceptBatch` lock what they read.

Left out of the drivers' lists: the switch with which a driver shows himself
unavailable (`dispatch.service.ts:61`), and the 50 newest rows to which a list is
limited (lines 88 and 192). `CalledDriversSeeTheOrder` is of drivers who are
available and of fewer orders than that.

Mutants stand next to the definitions they replace, marked `mutant`.

### Payments: one online payment, from the checkout to the money going back

| Module | Models | Remarks |
|---|---|---|
| `PaymentState` | the rows of one order in `orders`, `payments`, `payment_operations`; `snapshot-validation.ts`, `transition.service.ts`, `payment.service.ts`, `enqueuePaymentOperation` | `validateSnapshot` is the decision, `OrderAfter` and `StatusAfter` what it does to the rows, `Disposition` and `OwedAfter` the operation a cancelled order owes |
| `PaymentOperations` | `operation-queue.service.ts`, `operation.service.ts`, `retry.ts`, the lease part of `reconciliation.service.ts` | a worker is one invocation: claim, call, read back, settle, each a step, a crash possible between any two |
| `Payments` | `checkout.service.ts`, the snapshot readers (`reconciliation.service.ts`, `webhook-inbox.service.ts`), the decisions on the order (`cancellation.service.ts` and the handlers that end it), the provider; the properties | |
| `MC_Payments` | instances for TLC | |
| `PaymentProofs` | the inductive invariant and the theorems | |
| `QueueProofs` | three inductive invariants and the theorems: what is recorded, in which order, and what comes back | |

How state and actions correspond to the code:

* **Operations by business key.** `payment_operations.business_key` is unique,
  so an operation is named by it: `cancel`, `refund`, and one per amendment.
  `opStatus[k] = "NONE"` is a row not yet written; `born` orders the rows as
  `created_at` does. `leased[k]` says that `leased_until` lies ahead.
* **Reads and their application are two steps.** A refresh, a webhook item, a
  recovery and the request itself each read the provider without a lock and
  apply the snapshot in a later transaction. What was read waits in `reads` and
  is applied later, out of order, or never (`ApplyRead`, `DropRead`,
  `RefreshFails`). A webhook may read at any time, which covers notifications
  that are duplicated, late or lost; its inbox rows are not modelled.
* **Settlement is one transaction**, `SettleOperation`: the snapshot, the
  operation's new status and the operation that a late cancellation escalates
  to. The code updates the operation by id, whoever holds the lease by then, and
  so does the model. The escalation's own order update finds the order already
  cancelled, which `CancelledFirst` in the proofs establishes.
* **Queueing throws** (`Refuses`) while an operation of the payment is under
  review; the transaction around it is undone with it. A guard stands for the
  throw in handlers; in a worker it is `SettleFails` or `RecoveringFails`.
* **The provider** is the environment: it answers, loses an answer, carries out
  a call at once or never, ignores a repeated idempotency key, and changes state
  on its own (`CustomerPays`, `ProviderDecides`, `RefundByHand`). It is modelled
  from how `payments/` uses it and marked external. A failed call and a failed
  read are one step: the code treats them alike.
* **Left to chance**: back-off times and deadlines. An operation that is due
  only later may be claimed at once; a PIX may expire at any read.
* **Left out**: the `reviews` stage of the reconciliation, whose condition only
  its own failures can bring about; amounts that do not match and identities
  that do not match (one outcome, REVIEW_REQUIRED); `IN_PROGRESS` stands for the
  statuses from `ACCEPTED` to `OUT_FOR_DELIVERY`, which payments treat alike.
* **Counters** stop at the number the code compares them with (`Tried`).

### Finance: what is owed, and the documents that settle it

| Module | Models | Remarks |
|---|---|---|
| `Earnings` | `finance.service.ts`, the terms of a running shift in `shift-proposal.service.ts`, and the handlers that write the ledger | amounts in cents; one shift of one driver, whose orders ride in it, come from the pool or are the store's own |
| `Settlement` | `finance-settlement.service.ts` | one closing is a transaction of many statements; what it wrote is seen at its commit |
| `Finance` | both together, the properties | |
| `MC_Finance` | instances for TLC | |
| `FinanceProofs` | two inductive invariants and the theorems | |
| `Sums` | lemmas about finite sets and sums, for all the proofs | |

`completeDelivery` is two steps: it locks the shift's row, then commits; the
date of its entries is the transaction's start. A closing reads the entries
(`Begin`), links them one by one in any order (`LinkEntry`, then `WriteTotal`),
and commits or aborts. Unique keys and locked rows of another closing are guards
that make it wait. `agreed` is not a column: it remembers what each delivered
order should have paid, for `PaysWhatWasAgreed`. Here an order that was released
is not taken again; `Delivery` models that.

### Agreements: links, offers, authorizations, starts

| Module | Models | Remarks |
|---|---|---|
| `Schedules` | the agenda arithmetic of `packages/shared/src/offers.ts` | days of `DAY` units; a dated or weekly item may cross midnight |
| `Agreements` | `store-driver.service.ts`, `offer.service.ts`, the authorizations of `shift-proposal.service.ts`, the start and reopening of `shift.service.ts`; the properties | what binds a driver locks the `users` row and reads in one step (`...Reads`), and writes in a later one |
| `MC_Agreements` | an instance for TLC | |
| `AgreementsProofs` | four inductive invariants and the theorems | |

The money terms of links and offers are left out (`Earnings` has those of a
shift); so are the orders of a shift (`Shifts` has them).

### Identity: accounts, codes, tickets, sessions, mail

| Module | Models | Remarks |
|---|---|---|
| `IdentityState` | the rows, `auth-challenge.service.ts`, `auth-ticket.service.ts`, the enqueueing of mail | a code is right or wrong; mail rows are named by their dedupe key |
| `Registration` | `registration.service.ts` | `confirmReads` and `confirmRegistration`: the look at the users and the insert |
| `Accounts` | `password-recovery`, `account-activation`, `store-provisioning`, `admin-bootstrap` services, and the changes of an account's or a store's status | |
| `Sessions` | `auth.service.ts`, `security-session.service.ts` | the claim of a token and the insert of the next are two steps |
| `EmailOutbox` | `email/outbox.service.ts`, `identity-cleanup.service.ts` | claim, render, send, write the outcome: a step each, a crash possible between any two |
| `Identity` | their composition and the properties | |
| `MC_Identity` | scenarios for TLC | |
| `IdentityProofs` | six inductive invariants and the theorems | |

Time is in minutes and passes in jumps between the `Instants` at which anything
happens, in any step. The cleanup deletes one row at a time, at any moment, in
any order: its batches and their limits permit all of these.

### Storefront: limits, menu, checkout, amendments

| Module | Models | Remarks |
|---|---|---|
| `ShopState` | the rows of one store's shop and the customers' pages | |
| `RateLimits` | `security/rate-limit.ts`, and the limits on logins, quotes and orders | one step for each statement of the limiter |
| `Catalog` | `catalog.service.ts`, the prices, opening hours and fees of `packages/shared` | a tree of options is what one call wrote; `replaceProductOptions` holds the product's row until `commitProductOptions` |
| `Checkout` | `stores/cart.ts`, `CheckoutView.vue`, `quoteOrder` and `createOrder` of `order.service.ts` | a quote reads groups, options and matrix in three steps; the answer may be lost, the server may die |
| `Amendments` | `amendment.service.ts` | `proposeAmendment` reads order, proposals and items without a lock: four steps |
| `Storefront` | their composition, the passing of time, the properties | |
| `MC_Storefront` | scenarios for TLC | |
| `StorefrontProofs` | four inductive invariants and the theorems: the menu, the orders, the limits, the types | |

Left out: pick-ups (no fee, no address), names, photos, search, sorting and the
validation of texts. The fate of an online payment is `createOnlinePayment` and
`paymentEnds`, in one step each; `Payments` has its detail. The store's security
status is in `Accounts`. An order's life after `READY` is in `Delivery`.
`OneOrderPerVisit` is about one visit to the page: the key of an order lives as
long as the page does.

## 4. Runs

| Run | Instance | Shows |
|---|---|---|
| `delivery_shift` | 2 orders of one store (one paid online and delivered, one pickup), 2 drivers, 2 shifts of the same driver | `TypeOK`; a shift holds its orders until they are finished; one active shift per driver; the pay of a delivery is written once and only for what happened; `StartExcludesPool` over the two-step transactions; the refinement `ImplementsLifecycle` |
| `delivery_package` | 2 deliveries, 1 package, 1 driver, 1 shift, orders symmetric | package and orders agree; a collected package is out whole; whoever an awaiting order's call is for, is at work and has not refused it finds the order on his list |
| `payment_races` | a PIX of one cent, two workers that may outlive their leases, one read on its way, refunds by hand | order and payment agree, no order is released uncharged, an ended order's money has its operation, nothing regresses, under every interleaving of create, recovery, webhook, refresh, cancellation and workers |
| `payment_amendments` | a card of two cents, two amendments of one cent, two workers, two attempts, refunds by hand | types and refund targets; what is recorded as done is done; operations run in turn, with workers that keep to their leases |
| `payment_settles` | a PIX of two cents, one amendment, one worker that may crash, two attempts, fairness | a live order gives back only what was approved; an ended order's money settles or is flagged |
| `finance` | a delivery in the shift and one from the pool (paid online), terms that go down, two overlapping periods, one closer that closes twice | no cent of an order is lost or invented; every delivered order pays what was last agreed; an entry is settled once; of all the entries a closing read, it leaves only those of a paid document and the debits of a driver |
| `find_lost_total` | one order, two closers at once | the divergence of section 6 |
| `agreements` | two drivers, two links, an offer of one slot, one late authorization; an agenda dated a Saturday, its change to the Saturday's night, an offer for every Sunday's morning | from today's dates on nobody is bound twice to the same hours, across midnight and the week's end; no shifts overlap, a running shift keeps its link and hours, an offer's slots are counted right |
| `identity` | one address, ten scenarios with a few calls of each kind | who waits for a code has one, the last sent; a registration is confirmed exactly when its account exists; dead codes are not queued, final mail stays so; one live token per session |
| `find_lost_activation` | the activation scenario alone | the divergence of section 6 |
| `storefront` | one customer, six scenarios | the options of a product come from one call; one visit, one order; a ready order keeps its items; a block ends on time |
| `find_refund_twice` | the scenario of two sessions that amend one order | the divergence of section 6 |

Two orders are needed for a package and enough for it: every property quantifies
over one order and one package or over one order and one shift, and the proofs
cover larger instances. Two shifts of one driver are what `OneActiveShift` and
the reopening need. Deadlock is not checked in these runs: a store whose orders
are all finished really stops. No bound limits the state space of the delivery
runs: every column is finite.

Bounds of the payment runs: `MaxReads` snapshots on their way (the code has no
limit; one already races with the two workers' own reads and with the recovery's
create, and the two workers hold two more), `MaxTries` attempts (the code's
`MAX_PAYMENT_OPERATION_ATTEMPTS`, smaller here; with one, the first retry is
already the review, with two there is a retry that is not), amounts of one or
two cents (partial and full refunds differ from two on). The proofs hold for
every value of these. A settled payment really stops, so deadlock is not
checked.

`SerialOperations`, `SucceededMeansDone` and `EndedMoneySettles` are checked
without slow workers, and so is `RefundsAreOwed`. The code guarantees no such
thing: a batch of 25 operations with calls of 8 seconds can outlive the lease of
five minutes. A worker that does can reopen an operation that another completed
(`CompletedStaysCompleted`, section 6), and then `SerialOperations` is violated.
What is left of them with slow workers is proved, not run: what is recorded as
done is done (`DoneIsDone`), the provider is asked for one operation only once
what the one before it was for is so (`OneAfterTheOther`), and no more is given
back than is owed (`OnlyWhatIsOwed`).

`finance`: days are 1 and 2 and the periods `{1}` and `{1, 2}`, so that they
overlap and entries come late for the first. Rates that go down are what makes
an adjustment negative, a debit of the driver that no document takes. One closer
is enough for `SettledOnce` and `CloseLeavesOnlyDebits` across two closings with
payments between them; the theorems cover any number of closers. One adjustment
of an order is enough for each of the entries it writes, its debit included; that
several in a row add up is in the theorems (`NoCentIsLost`, `ExtraAsAgreed`),
which hold for any number, and not in the run.

`agreements`: a day of three units is the least in which an interval, a night
that crosses midnight and a longer end can meet or miss each other. The four
instants are a Saturday and the Sunday's midnight: the night between them is the
one that also crosses the end of a week, so both the comparison of the dated
night with the weekly morning and the extension into that morning have to look
over it. One weekly agenda, a dated one, an offer and an authorization are one of
each way to become bound.

`identity` and `storefront` start from scenarios: an initial state and the
number of calls of each kind still to come. A scenario brings together the
calls that share rows; anything may happen between them, in any order, and what
needs no call (the cleanup, the right code typed in, a worker's next statement)
is not bounded. The limits are as small as lets them be reached, reached again
and outlast their window; `MAX_ATTEMPTS` is 2 instead of 5. The instants lie
before, at and after the deadlines that the code compares (a cool-down of one
minute, codes of ten, registrations and retention of a day, rows kept a week; in
`storefront` the ends of a quarter, of an hour and of opening hours past
midnight). Requests, dispatches, forms and open sessions are symmetric.

Fairness of `payment_settles`. Weak: the recovery of a lost create, the lease
recovery and the claims come round with every cron tick; leases end by
themselves. Strong: each step of a worker and the application of a read; the
code gives no more than that an invocation is not interrupted, and a call does
not fail, at the same point of every attempt. Nothing is assumed of the
provider, of the customer, or of whether a webhook is ever sent.

## 5. Proofs

`DeliveryProofs` proves, from `NullIsNoRow` and `RowsHaveOwners` (null is no row;
every row has the owner the schema's `NOT NULL` columns give it) and for any
sets of orders, drivers, stores, shifts and packages:

* `Invariant`: `Spec => []IInv`. `IInv` is the conjunction of the safety
  properties with two facts they need: `OnlyAcceptedOrdersMove` (an order gets a
  driver or a package only after the store accepted it, so the cancellations of
  unaccepted orders cannot touch a package), and `HoldersAreRight` (what a
  two-step transaction read still holds while it has the `users` row).
  `ShiftHoldsItsOrders` needs `BatchAgreesWithOrders` (releasing a package clears
  the shift of exactly the orders of that driver), `OneDeliveryPay` needs
  `PayFollowsTheGoods` (a second delivery entry would need a second end), which
  needs the lifecycle's finality.
* `TypeCorrect`, `PackagesAgree`, `PackagesLeaveWhole`, `ShiftsHoldTheirOrders`,
  `CallsAreSeen`, `OneShiftAtATime`, `PaidOnce`, `PaidForSomething`: the
  invariants of the runs, from `Invariant`.
  `CallsAreSeen` needs `CallIsKept`: a refusal stands only on a call to one
  driver, which outside a package names him, so no older refusal or package can
  hide the next call.
* `PoolOrShift`: the action property `StartExcludesPool`.
* `Refinement`: `Spec => Lifecycle!Spec` (`ImplementsLifecycle`), where
  `Lifecycle` is `INSTANCE OrderLifecycle WITH status <- status`; by `LifecycleStep` (the orders
  whose status changed are the abstract step's `moved`).

The proof that `Next` preserves a conjunct is one lemma per conjunct
(`BatchStep`, `ShiftHoldsStep`, ...), with one step per action that can disturb
it; the actions that leave its variables alone are dispatched together.

`PaymentProofs` proves, from `PaymentAssumption` (finitely many amendments, a
positive amount, each amendment's refund between one cent and the amount, the
two fixed keys distinct from the amendments) and for any number of workers,
attempts and reads, with slow workers and refunds by hand or not:

* `Invariance`: `Spec => []IInv`. Besides `TypeOK`, `OrderFollowsPayment` and
  `EndedMoneyIsQueued`, `IInv` says: a worker under way serves a row that exists,
  of a payment the provider knows (`WorkersServe`, `ProviderHasIt`); a snapshot
  on its way or in a worker's hands that says approved comes from a provider
  that has charged (`SnapshotsAreTrue`), and so does a row that says so
  (`RowIsTrue`); the cancellation of a payment exists only for a cancelled order
  (`CancelledFirst`), without which a cancellation's snapshot, applied without
  releasing, could leave an approved order waiting; an order that failed at the
  door had been paid (`FailedWasPaid`).
* `PaymentTypeCorrect`, `OrderFollows`, `ReleasedCharged`, `EndedQueued`: the
  invariants of the runs. `RowNeverRegresses`: the action property
  `NothingRegresses`.

`TypeStep` shows the types, one lemma per group of actions. `MoneyStep` shows
the rest for the row: `ApplyEffects` says once what a snapshot makes of order
and payment, `OwedCovers` and `TooLateOwesRefund` that what it queues covers
that, and the steps that touch neither are dispatched by `SameKeepsMoney`.
`WorkersStep` and `ReadsStep` carry the facts about snapshots, because
`ProviderKeeps`: a charge once made is not unmade. The largest of finitely many
numbers (`MaxTarget`, `Latest`) is found by well-founded descent
(`Sums!LargestBounded`).

`QueueProofs` rests on that invariant and `PaymentAssumption`, and proves of the
operations, for any number of them, of workers and of attempts:

* `DoneIsDone` (`SucceededMeansDone`) from `DoneInv`. Snapshots are behind the
  provider and never ahead of it (`SnapshotsHold`: what one says came back has
  come back, and a payment that it says was not taken stays so), and so is the
  row (`RefundedIsBack`); hence what a worker reads from one to call an operation
  done is true when it writes, and stays true.
* `OneAfterTheOther` (`EffectsInTurn`) from `TurnInv`, with slow workers too. An
  operation is begun only by a claim (`OnlyClaimsBegin`), and the claim finds its
  predecessor recorded as done, hence done (`DoneIsDone`). A worker that settles
  late may rewrite that record, but what is done at the provider stays done
  (`DoneStays`). So however leases run out, whoever calls the provider, or called
  it, for an operation does so after its predecessor's effect. (Of a refund behind
  a cancellation this says nothing: a cancellation that came too late counts as
  done once the refund is queued.) That only one
  operation is `PROCESSING` at a time, `SerialOperations`, is true only of workers
  that keep to their leases, and only model-checked.
* `OnlyWhatIsOwed` (`RefundsAreOwed`), assuming `~MerchantRefunds` as the run does
  (what a merchant refunds by hand nobody approved), from `BackInv`: until the
  full refund is carried out, the provider has given back exactly the sum of the
  amendments it carried out (`GivenBack`), each of which has its row; and the
  full refund is queued only for an order that ended (`RefundOfEnded`).

`FinanceProofs` proves, for any orders, terms, amounts, adjustments and periods
and any number of closers, from `AmountAssumption` (amounts and rates are natural
numbers, terms have both rates, there is a day), which `Invariance` and
`EntriesSettleOnce` do not need:

* `Invariance`: `Spec => []IInv`, where `IInv` has `SettledOnce` and what it
  rests on. `LinksAreRight`: a closing links each entry that it read at most
  once, to the document of its party and period. `NothingForgotten`: what left
  its list was linked by it. `LinkedOnce`: no running closing links what is
  settled or what another one links, because the unique index makes it wait.
  `Shapes`: the rows have their columns.
* `EntriesSettleOnce` (`SettledOnce`).
* `ClosingIsComplete`, the action property `CloseLeavesOnlyDebits`, from both
  invariants. A closing reads all entries of its period. What it can link and has
  not is still on its list (`NothingForgotten`), and it commits only when there is
  nothing left to link; what it does not gather is, by the sign and the owner of
  every kind of entry (`EntriesRight`), a driver's debit. That these stay behind
  is section 6 (`CloseSettlesAll`).
* `NoCentIsLost` (`BooksBalance`) and `ExtraAsAgreed` (`PaysWhatWasAgreed`), both
  from `BookInv`. `Finishing`: a delivery under way of the shift's own orders
  holds the shift's row, so the extra it read is still the extra when it commits.
  `EntriesRight`: every adjustment has the number of a proposal already decided,
  so the key of the next is free and `insertEntries` drops none of its entries.
  `Right` is what the entries of one order add up to, in all and in the driver's
  extra: an adjustment is by the difference between the new extra and the sum of
  those paid so far, and the store's entry cancels the driver's.

`AgreementsProofs` proves, from `DayAssumption`, `AgendaAssumption` (an agenda is
finite, its hours are hours of the day, and it is weekly or dated, as
`DriverScheduleSchema` demands), `OfferAssumption` (finitely many drivers and
authorizations, at least one slot) and `NoneAssumption` (no row and no date are
values of their own), for any agendas, links and authorizations:

* `OfferSlots` (`OfferKeepsCount`) from `SlotsInv`: an acceptance under way has
  the offer's row, so the room it saw is still there when it writes
  (`AcceptsRight`).
* `ShiftsApart` (`ShiftsDoNotOverlap`) and `ShiftsHaveLinks`
  (`ShiftKeepsItsLink`) from `BookInv`. `startShift` compares with the shifts of
  three dates only; that suffices because every shift begins on its date and
  lasts a day at most (`Window`), also an extended one, so that shifts two dates
  apart cannot meet (`FarWindows`). `TxnRight` says what a transaction read still
  holds when it writes: for a start, that the link is confirmed with the hours
  found and that no shift of the driver overlaps them; for a change of terms,
  that nobody works under the old ones. It holds on because no two transactions
  have the same driver's row or the same link's (`Apart`).
* `DriversBoundOnce` (`BoundOnceFromToday`) from `HoursInv`: by what recurs every
  week, by dates from today on and by late starts still allowed, a driver is never
  bound twice to the same hours. A date of yesterday whose night still runs is in
  neither, since the code's comparison leaves it out; with it the property does
  not hold (`NoDoubleBooking`, section 6). What binds a driver to a link is thus
  the `Current` part of its agenda and the authorizations still to be used
  (`BoundTo`); it only shrinks as days pass (`CurrentShrinks`).
  `BoundOnce` says that the hours of two confirmed links of a driver, from today's
  dates on, do not meet (`AllClear`); `Fitting` says the same of what a
  transaction is about to add, from its look at the other links to its write,
  while it has the driver's row. `LinkSound` and `AuthsFollow` say that a link
  with dates only expires after the last of them, so one that expired asks for
  nothing. The heart is `NeverMeet`: `itemsConflict` compares two items in the
  weeks around one of them only (`itemIntervals`), and items that do not conflict
  there meet in no week, across midnight and the end of the week: occurrences
  that meet begin on the same or on neighbouring days (`NeighbouringDays`) and
  move together by whole weeks (`Moved`) to where the comparison looks
  (`NearAnchor`).
* `AgreementTypes` (`TypeOK`) from `RowsInv`, with `HoursInv`.

`StorefrontProofs` proves, from `ScenarioAssumption` and `NoneAssumption` (an
initial state that the code can reach), for any customers, requests, orders,
products, menus and limits:

* `OneTree` (`MenuIsOneTree`) from `MenuInv`: of each product one replacement
  runs at a time, and it deletes whatever tree there is.
* `OneOrder` (`OneOrderPerVisit`) from `VisitInv`. Its heart is `GivenUp`: a page
  takes a new key only after the order of the last one was cancelled; so when the
  key has number `n`, each number before it has a cancelled order. It is kept by
  the pages, by the requests on their way (whose key may be an old one) and by
  the orders; `WaitsRight` says that the answer a page waits for is the one to
  its present key, without which a late refusal could take away a living order.
* `ReadyStay`: the action property `ReadyOrdersStay`.
* From `PolicyAssumption` (each limit that the code names has a policy of whole
  numbers) and `InstantAssumption`, for any policies and instants,
  `BlocksEndOnTime`, the action property `BlockEndsOnTime`, from `LimitInv`: a
  block ends at most a cool-down from now, and its row is not deleted before
  (`RowRight`). The end of a subject's block is the latest in its rows (`Ends`);
  a request counted in another window writes that same end into its new row, so
  deleting the old one does not shorten the block, and no failure that was let in
  earlier prolongs it (`CountingKeepsEnd`).
* `StorefrontTypes` (`TypeOK`) from `TypeInv` with the others and
  `StartAssumption` (the menu and the orders of an initial state, and the menus to
  come, are such as the schemas of `packages/shared` accept). A request's price is
  a whole number also of a menu that it read in pieces, as what it holds of each
  reading is a menu again, without options or prices (`WithOptionsTyped`,
  `WithMatrixTyped`), and what it selects in it is there (`SelectedTyped`); a
  replacement ends on a product that is still there, since a deletion waits for
  it (`DeleteProductTyped`); a proposal may ask for less than nothing back, but
  only what is positive is added to an order's refund (`ApproveTyped`).

`IdentityProofs` proves, from `SizeAssumption`, `NameAssumption`, and
`ScenarioAssumption` and `StartAssumption` (an initial state that the code can
reach), for any addresses, registrations, numbers of codes, tokens and workers,
and any instants:

* `OneCodeEach` (`OneWayIn`) from `CodeInv`. A code that counts is the last of
  its flow (`LastOne`), so two that count are one; a ticket for the first
  password stands alone (`SetupsRight`), without another or a code that could
  give one; a confirmation that has read has its rows (`ConfirmsRight`).
* `NoDeadMail` (`DeadCodesAreNotQueued`) from `MailInv`: no step makes a code dead
  and leaves its message queued, and none puts one back (`DeadWereDead`).
  `MailIsFinal`, the action property `FinalMailStays`, follows from `MailGoes`,
  what a step may make of one message.
* `OneTokenEach` (`OneLiveToken`) from `TokenInv`: of a family at most one token
  is unused, revoked or not, and who is exchanging it is alone.
* `AccountsAreConfirmed` (`ConfirmedHasAccount`) from `AccountInv`: nothing but a
  confirmation makes an account from a registration, and nothing changes which
  one it was made from.
* `OpenFlowsRecover` (`OpenFlowIsRecoverable`) from `WayInv`: the last code of an
  open registration can be replaced and the cleanup leaves it until the
  registration ends. It holds because a code's expiry or invalidation and the
  day that the cleanup waits reach as far as the registration itself.
* `IdentityTypes` (`TypeOK`) from `TypeInv` with the others: an administrator's
  code is of an administrator's account (`CodeTyped`), as an account with a code
  keeps its role (`AccountsTurn`); a message in the queue has an attempt left, so
  the attempt that a dispatch counts is one of the five, whatever an earlier
  dispatch of the same message still does (`MailTyped`, `WorkerTyped`).

`Sums` has what several proofs need of finite sets and sums. The library's
theorems of induction take an operator as a parameter and cannot be cited, so a
fact about every finite set is proved by its least counterexample
(`SmallestSubset`, from `LargestBounded` by well-founded descent over the
naturals): a fold adds up to the same sum in whatever order (`SumExists`), which
gives what one more or one less element does to it (`SumAdds`, `SumRemoves`).

Only model-checked:

* `EndedMoneySettles` of `Payments`, being liveness under fairness.
* `SerialOperations` of `Payments`, for workers that keep to their leases.

## 6. Findings

With a run:

* `find_lost_total` (`TotalsMatchItems`): a closing sums a document's items in
  one statement and writes the total in the next; of two closings of one period
  the second writes a sum without the first one's items.
* `find_lost_activation` (`PendingStoreCanBeActivated`): a store that was not
  activated within a day of its last code can not be sent another: the cleanup
  deleted the code that the resending starts from. `bootstrapAdmin` has the same
  gap.
* `find_refund_twice` (`RefundIsTheReduction`): a proposal that read the order
  before another was approved and the items after it gives the first reduction
  back again.

Stated in the modules, and violated by the model, without a run of their own:

* `Delivery!OutForDeliveryHasDriver`: the store can send a delivery on its way
  with nobody assigned; nobody can then complete it.
* `Delivery!ConfirmedReturnIsPaid`: releasing a package clears the driver even of
  orders that already failed; the confirmed return pays nobody.
* `Delivery!ShiftExcludesPool`: a reopened shift can be active over a delivery
  from the general pool.
* `Delivery!AwaitingDriverIsSeen`: an order can wait for a driver and be on
  nobody's list. `listShiftDeliveries` (`dispatch.service.ts:185`) hides a call
  from the driver who refused it, a call to one driver or to the store's own is
  shown only to who has a shift there, and nothing calls anybody else when that
  driver refuses or ends the shift. The store sees the refusal
  (`StoreOrdersView.vue:453`), of the other two nothing. The property that holds,
  `CalledDriversSeeTheOrder`, is of those whom the call is for.
* `Finance!CloseSettlesAll`: `closeFinancePeriod`
  (`finance-settlement.service.ts:149`) reads every entry of the period, but a
  driver's entry below zero, which an adjustment downwards writes, gets no item
  (lines 152 to 177) in this closing or in any later one, so the driver is paid
  the amount before the adjustment.
  `docs/superpowers/plans/2026-07-10-financeiro-ledger.md:7` says that closing
  gathers the entries not yet closed.
* `Agreements!NoDoubleBooking`: `driverActiveSchedule`
  (`store-driver.service.ts:31-33`) and `assertNoScheduleConflict` leave out dates
  before today, so after midnight a night dated yesterday that still runs does not
  count: a driver in it can accept another store's offer for its last hours.
  `docs/superpowers/plans/2026-07-11-ofertas-vagas.md:18` wants the overlap looked
  for against all of the driver's agenda in force, overnight windows included, and
  `packages/shared/src/offers.ts:66` says that a night occupies the day next to it.
* `Payments!DisputedReleasesNothing`: a snapshot read before a chargeback and
  applied after it takes the payment out of review and releases the order.
* `Payments!CompletedStaysCompleted`: a worker that outlived its lease settles by
  id and puts an operation another worker completed back in the queue.
* `Payments!LateApprovalIsRecorded`: while an operation of the payment is under
  review, the approval of a cancelled order cannot be recorded: queueing its
  refund throws, and the transaction with it.
* `Payments!RefundProgressGrows`: a snapshot read before a partial refund and
  applied after it takes `refunded_amount_cents` back.
* `Identity!FamiliesEndWhole`: `rotateRefreshToken` (`auth.service.ts:156`) reads
  the user without a lock and then inserts the new token, so a logout, a password
  reset or a block that waits for the old token's row does not see the new one,
  which goes on being exchanged.
  `docs/superpowers/plans/2026-07-11-p0-authorization-session-foundation.md:401`
  says: "Lock user before issuing replacement".

Met while modelling, stated nowhere:

* A payment refunded by hand before its first snapshot releases its order: the
  REFUNDED snapshot is treated as paid (`transition.service.ts:107`), where
  `docs/superpowers/specs/2026-07-15-mercado-pago-orders-hardening-design.md:285`
  retains the order's state.
* `retryPayment` (`reconciliation.service.ts:108`) writes
  `reconciliation_state` by id and can take a payment out of review.
* The recovery of a PIX calls the provider inside its transaction
  (`checkout.service.ts:239`).
* An operation whose settlement always throws keeps its lease until it runs out
  and is claimed again without coming to a review by itself
  (`operation.service.ts:133`), as long as the operation under review stays so.
* `cancelStalePendingOrders` (`order-status.service.ts:49`) cancels all stale
  orders in one transaction: one payment under review keeps them all.
* `storeResolveCancelRequest` (`order-status.service.ts:235`) decides on a row it
  read without a lock.
* Entries and adjustments that come after their document was paid wait for
  another period (`finance-settlement.service.ts:64`).
* `reactivateShift` (`shift.service.ts:213`) does not look at the link again,
  which may be gone by then: `ShiftKeepsItsLink` exempts reopened shifts.
* Payment rows are locked before orders in some handlers and after them in
  others, shifts and orders likewise: the database ends one of two that wait for
  each other (`cancellation.service.ts:79`).
* A quote that reads while a menu is replaced can see groups without options, or
  flavours without their matrix (`catalog.service.ts:217`), and price by that.
* The checkout page (`CheckoutView.vue:35`) makes its key when it opens: after a
  reload an order whose answer was lost is placed again; an edited cart under
  the old key gets the first order for an answer; a refused PIX keeps its key.

## 7. Not modelled, and the plan

Done: Delivery, Payments, Finance, Agreements, Identity, Storefront, each with
its run. Left, in this order:

1. An abstract payment (`waiting`, `paid`, `owed`, `settled`) that `Payments`
   refines.
2. LockOrder: which handlers lock payment, order, shift and driver rows in which
   order, and which of them can wait for each other in a circle.
3. The rows and leases of the webhook inbox (`webhook-inbox.service.ts`), now a
   read at any time; the `reviews` stage of the reconciliation.
4. Delivery and Payments composed for several orders (`cancelStalePendingOrders`
   in one transaction); the customer's cancellation request as a dialogue.

Not modelled, and why:

* HTTP routes and middleware: parsing, authentication, the call of one service
  function each. The cron entry point: each job it calls is an action of the
  module of that job, at any moment.
* Push notifications and media: best-effort I/O; nothing waits for its result.
* The other pages of the front ends: they show what the server answers and keep
  no state of their own. The cart and the checkout page are in `Checkout`.
* Rate-limit scopes besides logins, quotes and orders: the same statements under
  other keys. The audit log: nothing reads it.
* Cryptography (codes, tokens, the webhook's signature), HTTP, the templates of
  mail; distances in floating point (a distance is a number of tenths of a
  kilometre).
* The migrations: the modules have the columns and unique keys that the handlers
  use.
