# A verification of the shop's money and goods

TLA+ modules for the parts of this repository where a mistake costs money:
refunds, payments of an order, purchases from suppliers, deliveries, environments
that the shop rents for customers, and the queue that drives them. TLC checks each
module on a small instance; TLAPS proves the most important properties for every
value of the constants. Paths below are relative to the repository; `features/...`
and `server/...` stand below `src/`.

## 1. The system

A shop for digital goods in TypeScript. It runs on Cloudflare (Workers, D1, a
queue, a minute cron) or as one Bun process over SQLite with its own queue and
timer. A D1 `batch` is one transaction; everything read before it is not part
of it. There are no row locks: a write that depends on a read repeats the read
value, a status or a version in its WHERE clause, and misses when it has changed.

Several actors write the same rows: requests of customers, webhooks of payment
providers, the minute cron, queue consumers (at least once, several at a time),
callbacks of suppliers, and administrators. Any of them may die between two
statements; messages and answers may be lost, late or repeated.

### Inventory

| Part | State | Operations | Works with |
|---|---|---|---|
| Refunds `features/shop-payments/server/refunds.ts` | `refunds` rows, order status and version, outbox events | request, retry, confirm by hand, publish, claim, provider call, record | queue, providers, fulfilment, wallet |
| Node queue `server/runtime/node/queue.ts`, `server/queue/routing.ts` | `node_queue_messages`, handlers in flight, one timer | send, poll, claim, ack, retry, dead letter, start, stop | every queue handler |
| Order payments `features/shop-payments/server/service.ts`, `features/promotions/server/balance.ts`, `features/shop-orders/server/{expiration,transition}.ts`, triggers in `drizzle/` | orders, attempts, holds, coupon uses, receipts, stock | checkout, hold, attempt, wallet payment, events, reconciliation, expiry, cancellation | providers, wallet, stock, coupons |
| Supplier orders `features/suppliers/server/{process,orders-admin,dujiao-callback}.ts` | `supplier_orders` row, task lease, cards | run, claim an account, submit, reconcile, import, callback, reselect | queue, suppliers, refunds, fulfilment |
| Fulfilment `features/fulfillment/server/{process,outbox,admin}.ts`, `features/redeem-warehouse/server/convert-delivery.ts` | `delivery_records`, stock entries, grants, order status and version, `delivery.requested` events | request, send and mark, take a message, read or convert codes, count, commit; start and complete by hand, retry | orders, stock, outbox, queue, warehouse, refunds |
| Hosted environments `features/claude-env/server/{scheduler,admin-actions,relay-api}.ts` | `claude_env_subscriptions`, `claude_env_periods` | the steps of the minute cron: take up, refund, buy, poll, activate, extend, synchronise, expire; reports of the relay; actions of administrators | orders, refunds, an outside provider, a relay |
| Wallet `features/wallet/server/ledger.ts` | balance and its version, entries | credit and debit with an idempotency key | payments, refunds, supplier API |
| Warehouse `features/redeem-warehouse/server/` | sale capacity with a generation, bulk lines | refresh, reserve, bulk purchase | checkout, an outside warehouse |
| Notifications `features/notifications/server/` | outbox events, leases | send, defer, give up | outside services |
| Entitlements `features/entitlements/server/ledger.ts` | grants | grant, extend, revoke | deliveries, refunds |
| Scheduler `server/scheduled/`, `server/runtime/node/scheduler.ts` | run in flight | one run per minute | everything above |
| The rest: catalogue, customers, access, support, guides, settings, interface | their own rows | single writes and queries | none of the protocols above |

`PROJECT.json` lists every part with what is modelled of it, or why it is not.

### What is hard here, and what makes each part correct

* **Refunds.** Two workers hold one refund when a claim runs out during a
  provider call; answers come out of order; an administrator confirms while a
  worker waits; events are published twice; a failed refund is retried after
  other refunds. Correct: no more is returned than was paid, one worker at a
  time can record an outcome, success is final, the order's status mirrors its
  refunds, and a refund comes to an end.
* **Node queue.** Handlers outlast their lease, the process dies, the timer is
  not armed when every slot is full. Correct: an accepted message is performed
  or put aside after all attempts, a superseded handler changes nothing, and the
  consumer does not sleep through work.
* **Order payments.** Up to five ways to pay one order race with its expiry; the
  amount asked for depends on a hold that may change; payments arrive after the
  order closed. Correct: a fulfilled order was paid in full, no balance is made
  or lost, holds, coupon uses and codes follow the order, a payment the shop
  knows of is answered.
* **Supplier orders.** An answer that is lost after the supplier took the money,
  callbacks that race with the run, refunds and administrators that write
  between any two statements; a supplier that says no to what it has sold.
  Correct: no second account is asked while the first has not said no, cards come
  from a purchase, a refund ends the delivery.
* **Fulfilment.** A worker reads the order, converts codes over the network and
  counts what is open, and only then commits; a second worker, an administrator,
  a retry, a refund or a release of the codes comes in between, and messages are
  sent twice. Correct: an order is completed when everything is delivered,
  grants follow deliveries and refunds, a converted delivery owns its codes, a
  closed order is left alone, and a requested delivery does not wait in silence.
* **Hosted environments.** Calls that cost money may take effect without an
  answer; the process may die in them; administrators write by the row's id what
  they decided on an older row; the refund meets a purchase, a test or an
  extension under way. Correct: one purchase for each permission, no more terms
  than were paid, nothing runs on after its refund, and a claim or a renewal
  that is stuck is shown to somebody.
* **Wallet, warehouse, notifications** (not modelled): mutations with one
  idempotency key, a capacity that is refreshed while it is reserved, a lease
  shorter than the send it protects.

Each hazard stands in `PROJECT.json` at the line where it bites, with the
properties that would notice it, or with a note why no property covers it.

## 2. Modules and plan

| Module | Content | State |
|---|---|---|
| `Sums`, `SumsProofs` | sums of amounts over a finite set, and the lemmas about them | done |
| `Refunds`, `MCRefunds`, `RefundsProofs` | the refund ledger of one order | done |
| `AtLeastOnce` | what a durable queue promises (abstract) | done |
| `NodeQueue`, `MCNodeQueue`, `NodeQueueProofs` | the SQLite queue, refines `AtLeastOnce` | done |
| `OrderPayments`, `MCOrderPayments`, `OrderPaymentsProofs` | payment of orders | done |
| `PurchaseOnce` | what buying an item from a pool of suppliers promises (abstract) | done |
| `SupplierOrders`, `MCSupplierOrders`, `SupplierOrdersProofs` | the purchase for one order item, refines `PurchaseOnce` | done |
| `Deliveries`, `MCDeliveries`, `DeliveriesProofs` | deliveries of one order, by workers and by hand | done |
| `HostedEnvironments`, `MCHostedEnvironments`, `HostedEnvironmentsProofs`, `HostedTermsProofs` | a rented environment and its renewals | done |
| supplier orders over the node queue | 30-minute task lease against the message's retries | open |
| `SaleCapacity` | generation counter against checkouts | open |
| `OwnerSaleAlerts`, `Wallet` | lease and idempotency | open |
| `Entitlements`, split refunds, the reconciliation list | extensions of the first modules | open |

How they fit together. Each module follows one order (or one subscription) and
sees its neighbours through what they write to it: `Refunds` through the order's
status, `OrderPayments` ends where `Deliveries` begins (a paid order whose codes
are reserved or not), `Deliveries` and `SupplierOrders` have the refund as one
action with the statements that `Refunds` leaves out, and the messages of all of
them behave as `AtLeastOnce` promises, which `NodeQueue` implements.

Theorems: every invariant and action property that a passing run checks is
stated by a theorem (section 9), three of them under a hypothesis that the
section names. What is left to TLC is liveness.

Sums. The prover cannot use induction over a finite set, so a sum written as a
fold is closed to it. `Sums` counts money unit by unit instead: `SumOver(f, S)`
is the number of pairs of an `x` in `S` and a unit of `f[x]`, and the library's
theorems on cardinality give what proofs need of a sum (`SumsProofs`: it is
additive over disjoint sets, monotonic, and moves with one amount). An
assumption in `MCRefunds`, which TLC evaluates, compares it with the sum of the
community modules.

Conventions. A D1 batch or a single statement is one action; what the code reads
earlier and uses later is kept in a variable, so that it can be stale. A bound on
a counter is a constant that begins with `Max` and stands in a guard. A
definition whose comment begins with `SLIP` is a plausible mistake in the
definition after it; substituting it must break the property named for it in
`PROJECT.json`. No module uses a RECURSIVE operator.

## 3. Refunds

*Correspondence.* `status`, `attempt`, `before`, `manual`, `due` and `traded`
are columns of `refunds` reduced to what the guards ask; `order` is the order's
status. The version of the order is not counted: `reading` holds the requests
whose read is current, `behind` those whose read is exactly one write old, which
the balance refund mistakes for its own write; `rest` is what such a request
has read the succeeded refunds to leave open, by which its batch decides on the
order's status (a stale batch of another request may have added a succeeded row
without a new version). `job` holds what a worker has
read, so a record may be stale. `BeginRequest`/`CommitRequest` are the two
halves of `requestShopRefund`, `CommitWalletRefund`/`MissWalletRefund` its
balance form, `BeginRetry`/`CommitRetry` the retry, `Claim`, `ProviderAnswers`,
`Settle` and `Ack` the queue handler, `Publish` and `PublishUnmarked` the outbox.

| Run | Question | Result |
|---|---|---|
| `refunds_storm` | everything at once, two refunds (half and whole), two workers, all fundings | 5 properties hold |
| `refunds_calm` | two halves and the race for the balance, with fairness | 4 properties hold |
| `refunds_crash` | does a refund end after a crash? | no: the message is acknowledged as a duplicate |
| `refunds_wallet` | does a succeeded balance refund return money? | no: a stale batch inserts it |

*Bounds.* Two refunds are the least that compete for a balance, two workers the
least that overlap on one refund. `MaxAttempts` 2 stands for 5: what differs is
only which attempt is the last. One retry, one repeat and one confirmation
suffice for each overlap. `MaxPending` lets a provider answer "pending" so often
only: the code has no cap on these checks (`scheduleRefundCheck`), so the end of
a refund is claimed for providers that decide at last. The calm run has neither retry nor repeat, because its
properties are false with them.
*Fairness.* Events become due and the cron publishes them, workers take
messages, providers answer or time out: each has a timer in the code. Requests
of administrators are not fair.
*Calm.* The proofs of the calm properties do without the run's bounds: they
hold for any number of refunds, amounts, workers and confirmations in every state
before the first retry by hand, duplicate event or redelivery (`Calm`), at an
order that was not paid from the balance. The hypothesis cannot be weakened:
with `MaxRetries` 1 or `MaxRepeats` 1 in `RefundsCalm.cfg` TLC refutes each of
the three invariants.
*Left out.* The split of a refund over cash, reward balance and channel;
entitlements and after-sale cases closed in the same batch; forced transitions
of administrators. Misses of the balance's own version are stutters. `traded` says
that a recorded ZPAY refund carries the payment's trade number; the name that the
code makes up when ZPAY shows no such number, which no two refunds share, is not told
apart.
*Seen, without a run:* a retry of an old failed refund takes the order out of
`refunded` (`refunds.ts:513`), a status that `shop-orders/status.ts:13` calls
final; when ZPAY answers with one trade number for two refunds of a payment, the
unique index on the provider's refund id rolls the second record back each time
(`epay.ts:370`; the action `FinalizeRejected`).

## 4. Node queue

*Correspondence.* `status`, `attempts` and `lease` are the columns; a lease token,
a fresh UUID in the code, is the number of the claim. The clock is replaced by
`available` and `lapsed` (what has become due) and by `ahead` (in which order),
with ties either way. `tasks`, `acks` and `retries` are the handlers in flight
and what they said; `timer` and `stopped` belong to the consumer. `Start` is
both the start of a new process and of the same consumer after `stop()`.

`node_queue` checks that the queue implements `AtLeastOnce` (`KeepsPromise`, with
liveness, under `Promise == INSTANCE AtLeastOnce WITH ...`), that only exhausted
messages are put aside, that a late end of a superseded handler is inert and
that the consumer never sleeps with work and a free slot. Two messages, two
slots and two attempts let a message be claimed again while its first handler
runs; two overruns, one crash and one stop can each fall between any two steps.
*Fairness.* Time passes, leases lapse, the host restarts the process, timers
fire and handlers return. A handler that never returns keeps its slot for good,
and a message that kills the process is claimed for ever (it is put aside only
when a handler returns). Neither is in reach of the model: the liveness result
holds under the stated bounds on overruns and crashes only.

## 5. Order payments

*Correspondence.* One variable per column that a guard reads (`order`, `use`,
`hold`, `cash`, `attempt`, `receipt`, `delivery`, `reserved`), the balance and
the coupon's counter, and sets of reads (`offers`, `current`, `outdated`,
`settling`, `review`): a value stays in its set, so any number of requests may
use it at any later time. A status of an order is entered at most once, so a
compare-and-set on status and version is one on the status. Batches that abort
when their compare-and-set misses are one action; batches that go on are two
(`CompleteTooLate`, `ReleaseTooLate`). Triggers (`order_balance_lifecycle`,
`mixed_payment_failure_release`, the funding guards) are operators called by the
actions that fire them. `Transition`, `TransitionFailed` and `TransitionPaid` are
`transitionShopOrder` from `pending_payment`; what administrators do to a paid
order is in `Deliveries` (`MoveOrder`, with the release of its codes).
`ExpireTooLate` is an expiry run whose compare-and-set missed because the order
had expired otherwise: its event row does not conflict, and its statements on
coupon and attempts ask for an expired order of that version only.

| Run | Question | Result |
|---|---|---|
| `payments_storm` | two attempts, wallet, hold, expiry and transitions of administrators for one order; a second order competes for the balance | 5 properties hold (1.8 million states) |
| `payments_late` | late payments, the three purposes of a coupon, stock reserved at payment, reconciliation | 3 properties hold (1.4 million states) |

*Bounds.* Total 2 and balance 3 make a balance that pays one order in full, a
part of the other, or parts of both. Two attempts for one order are the least
that race. The second order has none; it takes the balance and gives it back, for
which being cancelled stands for every other end (`Bounded` in `MCOrderPayments`). The late run has one attempt and adds what the storm leaves out: the
coupon with limit 1, which the second order can take, and one piece of stock.
*Fairness.* Only the cron's reconciliation is fair, and only while it selects the
attempt. Its query (`service.ts:549`) asks for a `pending` or `expired` attempt
with a saved `provider_payment_id`, of an enabled channel of epay or gmpay
(`Queryable`), created in the last 24 hours, and takes the oldest twenty.
`Recent` are the attempts it selects, and `Lapse` takes one out for good: a day
has passed, the channel was disabled, or twenty older attempts wait before it.
`ChargeIsAnswered` promises nothing for a charge of another provider or one that
has lapsed; only its webhook can then report it. Order pages may still ask.
*What administrators may do.* An order that is declared paid counts as paid in
full without a payment. It gets no delivery, its coupon use stays reserved, and
its later payments are refused: so `PaidInFull` and `CouponUsesCounted` speak of
orders that have a delivery. An order that is declared failed keeps its hold,
since no trigger names that status, until an attempt of it ends: the customer
cannot use that balance, and no later payment takes it (`HoldFollowsOrder`). An
order that an administrator lets expire keeps its use of a standard coupon; an
expiry run that read it before releases the use, and a payment that read it in
between consumes it without counting (`uncounted`).
*Left out.* Free orders, top-ups, currency quotes, limits per customer,
fallback to suppliers, entitlements; cash and reward balance are one balance;
fulfilment is one step. *Seen but not stated as a property:* a batch of the
wallet that comes too late still takes stock, also for an order that is closed,
and still consumes the coupon use of its order; `createShopPayment` hands out a checkout address although its own
UPDATE missed; a second charge of a paid order is answered 409 and leaves no
record; the cancellation inside a checkout that fails on its balance
(`features/promotions/server/balance.ts:119`) leaves the order's codes reserved.

## 6. Supplier orders

*Correspondence.* `state`, `account`, `locked` and `upstream` are the row;
`upstream` names the account whose order number is stored. `pc`, `asked`, `left`
and `answer` are the run: `Load`, then `Reconcile` for a selected account, or
`Select` and for each candidate `Skip` or `Claim`, `Submit`, `Apply`; cards pass
through `KeepIdentity` and `Import`. `Fulfill` is the batch of
`fulfillSupplierOrder`: cards and delivery follow the exact step to `supplied`.
`lease` is the task lease, `message` the deliveries left of the queue message
(messages sent while another is open are merged). `Consider` and `Act` are the
two halves of an administrator's action, whose write repeats no condition.
`purchase` is the truth at each supplier. A supplier may lose its answer, refuse,
deliver at once, or accept and fill or cancel later; and it may take the order and
have its answer replaced by an error. `denied` remembers the accounts that did so:
it is not in the code, and no action reads it. `Deliver` is `processDelivery`, which
counts the cards and closes the delivery of a refunded order; `RetryDelivery` is
the retry by hand, which asks for neither.

*False rejections.* `dujiao-next.ts:310`, `gmshop-edge.ts:200` and `acg.ts:175`
throw `supplier_request_failed` for every HTTP status but 200, and `process.ts:727`
takes that one code for a definitive failure. A 5xx or a gateway's timeout after
the supplier took the order therefore releases the account, and the next one is
asked: the code does buy twice then, and forgets the first purchase unless a later
run comes back to its account. When the callback of such a purchase comes before
the release, the release reopens an order that is already supplied. `shared-stock.ts`
states the rule that would exclude this (line 219) and follows it.

`suppliers` checks, through crashes, callbacks, stale writes, retries and a refund,
that an account with a purchase stays selected unless its supplier denied the
purchase (so a second account is asked only after a no), that cards come from a
filled purchase and nothing is delivered without them, that a lock is final, that
nothing but a retry by hand moves a delivery after the refund, which is then closed,
and that the purchase implements `PurchaseOnce` (`BuysOnce`): seen from the
suppliers, the goods and the delivery alone, money is spent at one account at a
time but for those that deny it, goods are taken once, and they are delivered once
and not after the refund. `PurchaseOnce` lets money be spent after a refund, since
the code does.
`suppliers_refund` looks for a purchase that begins after the refund and finds
one: a rejection applied after the refund sets the order back to `selecting`,
and the loop goes on with the next account. `Manual` is FALSE there, so that
the run itself is the cause.

*Bounds.* Two accounts are the least that can be bought from twice; after a
rejection the second behaves like any later one. Two deliveries of the message
give a run after a crash; administrators send new ones without limit.
*Assumptions.* A request number that a supplier knows buys nothing more: it is made
from the order and the account. A lease outlives its run, because every call in a
run times out long before 30 minutes; so one run is active at a time. *Left out.* Prices, budgets, account
health and cooldowns (any candidate may be skipped), credentials, callback
receipts and signatures. *Deadlock* is not checked, since the order does come to
rest. *Seen:* a reselect written over a submission in flight makes the run miss
its row, so the supplier's order number is lost although the account stays
selected; a purchase that is cancelled upstream after it was accepted is never
released; a crash outlives every retry of the message.

## 7. Deliveries

*Correspondence.* `delivery`, `codes`, `grant` and `event` are the status columns
of `delivery_records`, `stock_entries`, `entitlement_grants` and the outbox;
`converted` counts the codes of an item that the warehouse has replaced;
`message` holds the tries left of each queue message. A worker's record
(`worker`) holds what `processDelivery` has read: the order's status and version,
how many codes it has seen. `Take`, `Path`, `ReadStock`, `Convert`, `Count` and
`Commit` are its stretches between two awaits, `Commit` the batch in which every
statement has its own guard; `Send` and `Mark` are `publishPendingDeliveries`;
`OpenManual`, `StartManual` and `CompleteManual` the manual delivery, whose batch
goes on when its first statement missed; `RetryDelivery` the retry of an
administrator; `MoveOrder` a transition of the order with the codes it releases;
`RequestRefund`, `RestoreOrder`, `RefundOrder` what `Refunds` does to the order,
with `cancelOpenFulfillmentStatements`.

| Run | Question | Result |
|---|---|---|
| `deliveries` | a converted and a manual item, two processes, one of which may be an administrator; refund, transitions, retry, crashes, events sent twice | 6 properties hold (386,787 states) |
| `deliveries_race` | is an order completed once all is delivered? | no: two workers count each other's delivery as open |

*Bounds.* Two items are the least for which the count matters, and two processes
the least that overlap; both may work on one item. Two codes make a conversion
that stops half-way. Two tries give a message that comes back after a crash and
one that becomes a dead letter; one retry by hand gives a second event beside
the first one. The order rests at version 2: two writes of others can fall
between any two steps of a worker. The race needs none of this and has the
smallest instance.
*Fairness.* The outbox is drained after every batch and each minute, the queue
hands out messages, and a worker goes on (its calls time out). Crashes,
administrators and refunds are not fair; a message may use up its tries, which
`PendingIsHandled` allows for (`DeadLetter`).
*Left out.* Downloads, replacement of delivered content, deletion of drafts, and
the deliveries of upgrades and agent access. The warehouse, which is outside the
repository, answers a source reference with the same code each time. `ConvertFails`
is one failure for all that the loop over the codes may throw (no token, a refusal, a
timeout, an answer or a content of the wrong form). *Seen:* a
manual batch asks for the delivery's status only (`process.ts:516`), so an item in
`processing` is still delivered after the order was refunded; the write of the
order misses then and, as `GrantsFollow` proves, the grants stay closed. The
second retry of a delivery that was closed without an attempt fails on the name
of its event (`admin.ts:217`).

## 8. Hosted environments

*Correspondence.* `sub` is the row of the subscription and `period` the rows of
its terms, reduced to what the guards ask (`before` is `status_before_suspend`,
`state` is `iproyal_order_state`, `alerted` the two alert flags, `units` is
`units_extended`). `run` is where each run of `runClaudeEnv` stands and what it
has read; the names of its places follow the steps of the cron (`After`).
`ReadItem`/`Insert` are `processPaidItem`; `ReadRefund`, `Revoke`, `Stop` are
`handleRefunds`; `CancelRenewal`, `Handled` are `handleRenewalRefunds`;
`ClaimOrder`, `PostOrder`, `OrderRefused`, `OrderLost`, `Ordered`, `PollOrder` and
`Assign` are `placeOrder` and `pollOrder`; `ReadStale`/`MarkUnknown` are
`alertStalePosting`; `Report` is a self-test, `ReadTested`/`Judge` the activation,
which a request of the relay runs too; `ReadPeriods`, `ClaimPeriod`, `Prolong`,
`Refused`, `Silent`, `Prolonged` are `extendPeriods`; `RefreshExpiry`,
`ReadExtending`/`MarkExtending` (which asks for the alert alone, so that a period
that has moved on may be marked), `Expire`, `CancelUnapplied` the last steps. Each
action of an administrator is a read that decides (`Begin...`) and a write by the
row's id. `orders` and `extended` are the provider's truth. `miscounted` and
`overlapped` are not in the code, and no action reads them: the first counts the
writes of a term whose run had read another count than the row has by then
(`Counts`), and the terms that a purchase's late write sets back (`Ordered`); the
second remembers that a run started while another went on.

`hosted_environments` (433,522 states, about two minutes) checks for a
subscription and a renewal of two terms that one address is bought, that no more
terms are added than were paid, that nothing runs on after the refund, and that
claims and renewals do not wait in silence.

*Bounds.* A renewal of two terms is the least that can stop half-way. One refund
(of the first item or of the renewal) and one upset (an administrator's read and
write, or a death) fall at any point between the steps; the proofs have no such
bound. `MCHostedEnvironments` chooses between the two builds: in the Node build
one run of the cron at a time (`inFlight` in `server/runtime/node/scheduler.ts`)
beside a report of the relay, the administrator, the refund and the death; in the
Cloudflare build two runs that overlap, with nobody else. Both in one state space
would be out of TLC's reach; that they mix freely is left to the proofs.
There is no clock: a date may have come or not whenever it is asked, and the
five minutes of a claim are over when the next run looks at it.
*Fairness.* The cron starts each minute, and a run goes on until it ends or dies,
since each call has a timeout of 20 seconds. This assumes that the jobs before it
in the same cron (`server/scheduled/index.ts:51-104`) do not throw: one that does
ends the run before these steps, each minute anew. Neither customers nor
administrators nor the relay are fair.
*Left out.* Traffic and its add-ons, reminders, relays and their slots, orders of
guests that wait for a decision, days added by hand, the time zone of a
replaced address. Relays, stock and balance only appear as a run that passes
over an order it could place. A shop without a token of the provider, in which
`extendPeriods` returns at once (`scheduler.ts:1139`) and renewals wait for good.
Which address there is: `ip` says only that there is one, so a replaced address
that is rejected by the score of the old one (`scheduler.ts:1046`) goes unnoticed.
*What `ExtendedAsPaid` says.* Whether an item is done is decided by the count
that a run read before its calls. In the Cloudflare build two runs that overlap
are enough to add a term too many: both read 0 of 2, the one extends and writes
`pending`, the other claims the row (only the status is asked), extends and, by its
old 0, writes `pending` again; a third term follows. So the bound is exact until
runs have overlapped, and afterwards each write on a count that has moved
(`miscounted`) may cost one term more, and nothing else may. The theorem has no
hypothesis; it rests on one invariant for each case (`Pace`, `Ledger`). A permission to buy
again makes the first term void: after it, a late write of an administrator can
have the first item extended from the start once more, so the property then
speaks of the renewals only.
*What `RefundedIsStopped` lets pass.* Any write of an administrator after the
refund counts as a decision to go on (`restarted`), also one that was decided
before the refund and lands after it: the code cannot tell the two apart.
*Seen, without a run:* `expireSubscriptions` acts on the stored date although the
date could not be read a moment before; activation writes back the date it read
before asking the services (`scheduler.ts:1054`); a death between the expiry and
its second batch leaves the renewals of an expired subscription open for good;
a suspended subscription that is suspended again by a stale write forgets what
it was. The two hazards at `scheduler.ts:922` and `admin-actions.ts:691` are in
`PROJECT.json`.

## 9. Proofs

All theorems follow the same argument: an inductive invariant `Inv` contains the
property, `InvInit` and `InvNext` prove it, and a last temporal step concludes.
They hold for every value of the constants under the named assumption of the
module, and for any number of crashes and repeats. Where a theorem needs more,
its statement says so: `Calm` and `funding # "wallet"` in `RefundsProofs`.

| Module | Theorems | What the invariant adds to the properties, and why |
|---|---|---|
| `RefundsProofs` | `TypeCorrect`, `AttemptsExclude`, `ConfirmationExcludes`, `SuccessIsFinal` | a busy worker holds an attempt that was given to it (`Held`) and no two hold the same one (`Distinct`), since a claim takes the next number: an older worker is not current. A request with a current read sees an order that can be refunded and a row that does not exist yet (`Reads`), and such a row has no attempts (`Untouched`) |
| `RefundsProofs`, returns | `RefundedReturnsAll`, `SuccessIsPaidOut` | a worker that is to record a success with `full` returns with the succeeded refunds all that was paid (`FullHolds`): the sum it read may be old, but succeeded refunds stay so. A provider that answered has returned the money (`AnswerMeansReturned`). Together `ReturnInv` |
| `RefundsProofs`, ledger | `CalmReservesWithinPaid`, `CalmRefundingInProgress`, `CalmRefundedIffReturned` | while nothing was repeated, a refund has one event, message, worker or confirmation that will move it (`Carried`), at most one refund is in progress, and it fits beside the succeeded ones, as does every request whose read is current (`Balanced`). Together `LedgerInv`; a calm state has only calm ones behind it |
| `SumsProofs` | (lemmas) | what a sum is when one element or one amount changes |
| `NodeQueueProofs` | `TypeCorrect`, `DeadAfterAllAttempts`, `ConsumerAwake`, `SupersededHandlersAreInert`, `AtLeastOnceSafe` | every handler works for a claim that was made of a message that was sent (`Claimed`); what was acknowledged was performed (`Performed`). The last theorem is the safety part of the refinement |
| `OrderPaymentsProofs` | `TypeCorrect`, `HoldsFollowOrders`, `PaidInFullAlways`, `AcknowledgedPays`, `DeliveriesHaveCodes`, `CouponsCounted`, `BalanceIsKept` | old reads keep a relation to the row (`ReadsHold`), an open quote and the hold make up the total until the hold closes (`QuotesHold`), a use is taken at checkout and released only with its order (`UsesFollowOrder`), an attempt that was charged was inserted for its order (`AttemptsInserted`), only a
payment of an order that an administrator let expire is entered in `early`, and only a
bought order has a delivery (`DeliveriesFollowOrder`). What is held and what was spent make up the balance with what is left, for any number of orders: each step moves one order's share |
| `SupplierOrdersProofs` | `TypeCorrect`, `NeverBoughtTwice`, `CardsAreBought`, `RefundEnds`, `LocksHold`, `Implements` | what the run believes is true (`RunKnows`: the account it asked is selected, what it claims has not bought unless it denies it, a rejection means no purchase or a denied one, cards mean a filled one), administrators never write `supplied` or `refunded`, and a delivery waits only while there are neither cards nor a refund (`RowIsSound`). `Implements` maps each step to one of `PurchaseOnce` or to a stutter |
| `DeliveriesProofs` | `TypeCorrect`, `CompletedIsDelivered`, `GrantsFollow`, `CodesAreOwned`, `ClosedIsClosed` | what each process holds was true when it read it (`ProcessesAreSound`), only manual deliveries are filled by hand (`ManualIsApart`), a worker about to complete the order has counted everything else as delivered, and that stays so at the version it read (`CountIsSound`); a completed status that a failed refund restores was earned (`BeforeIsSound`) |
| `HostedEnvironmentsProofs` | `TypeCorrect`, `PurchasedOnce`, `RefundStops` | a run holds an item where it needs one, and the subscription exists where it acts on it (`RunsSound`, likewise `DeedsSound`). A free claim and the runs that hold one (`Buying`) are paid for by the first purchase and the permissions (`Budget`, a count over any finite number of runs). A run that is about to write that it saw the refund has seen it, and a status it saw at rest is at rest now (`Stopped`) |
| `HostedTermsProofs` | `ExtendsAsPaid` | a period that waits or failed has a term left, and at most one term is not yet counted (`Paced`); what the run has read of the periods is still so (`Read`) and the term it asks for is left, also after an administrator asked for it again (`Asks`); before the address is bought nothing is extended (`FirstSold`). All this as long as no run has overlapped another (`Pace`); for any number of runs, the terms given, one for each run that has claimed an item and one while it waits are covered by what is paid, asked for again and left out of the count (`Ledger`) |

Only model-checked: every liveness property (`RefundingEnds`, `KeepsPromise`
beyond its safety part, `ChargeIsAnswered`, `PendingIsHandled`, `ClaimIsReported`,
`RenewalSettles`), because neither fairness nor ENABLED can be proved with the
installed provers. That `SumOver` is the usual sum is checked by TLC on small
sets: for all sets it would need induction.

## 10. Findings

Four places where a run refutes what the repository says of itself; the line, the
quotation and the run are in `PROJECT.json`:

1. `refunds.ts:576` a refund whose worker died is never asked for again.
2. `refunds.ts:383` a stale balance refund is recorded as succeeded without money.
3. `suppliers/server/process.ts:646` a rejection reopens a refunded purchase.
4. `fulfillment/server/process.ts:177` an order whose items are delivered at the
   same time stays `fulfilling`, and its reward never matures.

## 11. Not modelled

By far the most of the repository is pages, forms, queries, schema and generated
code: single reads and writes without a protocol, which a model would only repeat.
Of what does have a protocol, these parts are open: the split of a refund over
cash, reward balance and channel; the wallet ledger's mutations; the sale
capacity's generation counter; the leases of notifications and of builds; the
deliveries of upgrades and agent access; the supplier API for downstream shops,
which uses the order, wallet and delivery tables again; supplier top-ups; periods
and renewals of entitlements. The reason of each stands in `PROJECT.json`.

## 12. Running it

`tlc -workers 2 -config X.cfg M` for each run of `PROJECT.json`; the longest takes
about two minutes. `tlapm M.tla` for each module that ends in `Proofs`; the longest
takes about three minutes.
