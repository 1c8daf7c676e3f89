# Palermo, verified: stock, payment and the rest of the shop

This directory is a TLA+ development of the Palermo perfume shop, a Next.js
modular monolith over PostgreSQL (Prisma), with Supabase Auth for identities and
Stripe in test mode for payments. Paths below are relative to the repository;
`modules/` stands for `src/modules/`.

- [1. The system](#1-the-system)
- [2. The modules](#2-the-modules)
- [3. How the model relates to the code](#3-how-the-model-relates-to-the-code)
- [4. The runs](#4-the-runs)
- [5. Where the code and its documents disagree](#5-where-the-code-and-its-documents-disagree)
- [6. The proofs](#6-the-proofs)
- [7. What is not modelled, and the plan](#7-what-is-not-modelled-and-the-plan)

## 1. The system

All requests run in stateless server processes. All shared state is rows of one
PostgreSQL database at READ COMMITTED, so concurrency is what happens between
the statements of two handlers. There are no background jobs, no queues and no
in-memory state shared between requests.

| component | state | operations | talks to |
|---|---|---|---|
| Checkout (`modules/commerce/checkout`) | orders, items, reservations, the first payment row | `submit` (with replay of an idempotency key) | cart, stock, pricing |
| Payment (`modules/commerce/payment`) | payment row: status, attempt number, provider reference; invoices | `initiate`, `webhook` (`failed`, `succeeded`) | Stripe, stock, orders, loyalty |
| Inventory (`modules/inventory`) | balances (on hand, reserved), reservations, batches, movements | `recordBatch`, `releaseBatch`, `reserve`, `release`, `expire`, `commit` | rows shared with checkout and payment |
| Loyalty and referrals (`modules/participation/loyalty`) | accounts, ledger, referrals | `referralCode`, `applyReferral`, the two rewards | called by payment |
| Orders (`modules/commerce/orders`) | cancellation request of an order | `cancel`, reads | order rows |
| Delivery (`modules/delivery`) | shipment and its events | create, `transition` | order rows, a simulator |
| Cart (`modules/commerce/cart`) | cart with a revision, its lines, its promotion | add, update, remove, apply promotion | catalogue, checkout |
| Identity (`modules/identity/service.ts`) | customers, sessions, passkeys, challenges | register, verify, login, logout, deactivate, reset, passkeys, `principal` | Supabase Auth |
| Profile (`modules/identity/profile-service.ts`) | addresses, preferences, fragrance identity, revision | updates | catalogue |
| Catalogue (`modules/catalogue`) | perfumes, variants, their creation requests | idempotent creation, updates with revisions, archiving, reads | |
| Promotions (`modules/promotions/content`) | promotions; content and its status | create, update; `generate`, `review` | video provider, cart |
| Reviews (`modules/participation/reviews`) | review and its status | `create`, `update`, `moderate` | |
| Support (`modules/support`) | conversations and their messages | `ask`, `feedback` | AI provider with a timeout |
| Discovery (`modules/discovery`) | quiz attempts, recommendation runs | scoring, `recommend`, persistence | AI provider, catalogue |
| Wishlist, reporting, order administration | unique rows; reads; delegates to delivery | | |
| Checkout page (`modules/commerce/checkout/presentation`) | stages, keys, polling | `submitCheckout`, `initiatePayment`, `verifyOrder` | cart, checkout, payment over HTTP |
| Cart page, inventory screens, quiz, support and administration screens | what they show, requests in flight | clicks, answers, retries | their services over HTTP |
| Catalogue population (`prisma/catalogue-*.ts`) | the catalogue's rows, opening stock | scripts that may be run again and at once | catalogue, inventory |
| Demonstration data (`prisma/*demo*.ts`) | all tables, demo identities | `db:seed`, `demo:reset`, `demo:check` | Supabase Auth |

What is hard in it, and what makes each part correct:

- **Stock.** Three handlers claim units by comparing `reserved` with an `onHand`
  that they read earlier, two give units back, one sells them. Balances must
  agree with reservations, and no unit may be promised twice.
- **Payment attempts.** The attempt number is chosen before the provider is
  called and written after. Webhooks of the attempt that is being replaced
  arrive meanwhile, twice, late, or in the other order. A payment must be
  verified, confirmed, sold and invoiced together, once, and only for a charge.
- **Rewards** follow the payment in separate transactions: they must reach every
  paid order although the process may die in between.
- **Fulfilment.** Cancellation, payment and dispatch of one order race.
- **Carts, profiles, catalogue**: optimistic revisions, forms filled from an older
  read, idempotency keys, loads that take two queries.
- **Identity**: a login in progress while the account is deactivated or its
  password reset; touches of one session; one-time challenges.
- **Outside calls** (AI, video, identity): claimed rows around a call that may be
  late, fail, or never return.
- **Pages**: answers that come in another order than the clicks, are lost, or
  arrive for a stage the page has left; a key kept for a request that has changed since it was refused.
- **Scripts** that write beside the running shop and may be repeated.

The hazards, each at its line with the properties that guard it, are listed
under `hazards` in `PROJECT.json`.

## 2. The modules

| module | what it is |
|---|---|
| `StockUnits` | orders, their lines, and quantities as sets of units |
| `StockLedger` | the abstract promise about stock: lines are held where supply is left, released, and sold together out of their holds |
| `Payments` | checkout, payment initiation, webhooks, rewards, batch release and the provider, interleaved; its properties and its refinement of `StockLedger` |
| `MCPayments` and `MCPayments*.cfg` | small instances for TLC |
| `StockUnitsTheorems` | lemmas about quantities, proved |
| `PaymentsProofs` | the inductive invariant of `Payments` and the theorems it gives, proved |
| `OrderLife` | the abstract promise about an order: confirmed, shipped, delivered in turn, and cancelled or shipped but not both |
| `Fulfilment` | the confirmation of an order, cancellation requests, shipment creation and transitions, interleaved; its properties and its refinement of `OrderLife` |
| `MCFulfilment` and `MCFulfilment.cfg` | a small instance for TLC |
| `FulfilmentProofs` | the inductive invariant of `Fulfilment`, its theorems and its refinement, proved |
| `CartCheckout` | a customer's carts in several tabs and the orders that checkout makes of them, while prices and promotions change; its properties |
| `MCCartCheckout`, `MCCart*.cfg` and `MCCheckout.cfg` | small instances for TLC |
| `CartCheckoutProofs` | the inductive invariant of `CartCheckout`, its theorems and its refinement of `OnceOnly`, proved |
| `Server` | the request processes and the idle request that the service modules share |
| `Identity`, `Passkeys` | customers' accounts and sessions against the provider; an administrator's passkey ceremonies |
| `Profile`, `Catalogue`, `Inventory` | the three services with revisions, idempotency keys and unique references, under concurrent requests |
| `Promotions`, `Reviews` | a service together with the administrators' screen that drives it |
| `Support`, `Discovery` | a service together with the customer's screen and the AI provider |
| `CheckoutPage`, `CartPage`, `BatchDesk` | pages with several requests on their way, over a summary of the service they call |
| `Population`, `DemoReset` | the catalogue's scripts; the commands for the demonstration database |
| `MCServices` and `MCServices.cfg` | small instances of all of those but `DemoReset`, in one run |
| `MCPromotions.cfg`, `MCDemoReset.cfg` | instances of `Promotions` and `DemoReset` by themselves |
| `OnceOnly` | the abstract promise of an idempotency key: the first request accepted under it decides its result for good |
| `IdentityProofs` | theorems of `Identity` and `Passkeys`, proved |
| `InventoryProofs` | theorems of `Inventory` and `Population`, and the refinement of `OnceOnly` by recorded batches, proved |
| `ServicesProofs` | theorems of `Promotions`, `Catalogue`, `Profile`, `Support`, `Discovery` and `Reviews`, and the refinement of `OnceOnly` by creations, proved |
| `PagesProofs` | theorems of `CartPage`, `CheckoutPage` and `BatchDesk`, proved |

`Payments` extends `StockUnits`, and instantiates `StockLedger` with the
refinement mapping `held <- LinesIn("ACTIVE")`, `sold <- LinesIn("COMMITTED")`,
`supply <- Supply`. `PaymentsProofs` extends `Payments` and `StockUnitsTheorems`.
`Fulfilment` starts where `Payments` leaves an order: what the two share is the
step from `PLACED` to `CONFIRMED`, which is all that `Fulfilment` keeps of payment
(`Confirm`), so that it may happen whenever an order is placed. It instantiates
`OrderLife` with the stage of the order's status and the set of orders that have
a cancellation key. `CartCheckout` ends where `Payments` begins, at the commit of
`submit`: what an order's creation does to carts and answers is in the first, what
it does to stock and payment in the second. Each leaves the other's refusals
open (`Abandon`), so the whole handler's outcomes are among those of both.
`Inventory` has the service's own operations on the rows that `Payments` shares
with it; of the service, `Payments` itself keeps `releaseBatch`, whose effect meets
the order path in production. `Population` writes the perfumes that `Catalogue` edits;
the two are checked apart.

Three modules instantiate `OnceOnly`, with
the results of the keys that have been used and the successes answered under them:
`CartCheckout` (`Checkouts`: a key's order, as the request it was made for), `Catalogue`
(`Creations`: the request row of an operation and key) and `Inventory` (`Recordings`:
the batches with a key, as the requests that ask for them).

`Payments`:

| variable | in the code |
|---|---|
| `clock` | `this.now()` |
| `order[o]` | `Order.status`; `NONE` before the row exists |
| `reservation[o][v]` | the `InventoryReservation` row of order and variant |
| `balance[v]` | the `InventoryBalance` row |
| `batch[b]` | `ProductionBatch.status` |
| `movement` | unique references of the order's `InventoryMovement` rows |
| `payment[o]` | `Payment.status`, `attemptSequence`, `providerReference` |
| `invoice[o]` | `Invoice.paymentReferenceSnapshot` |
| `issued`, `declined`, `charged` | the provider: intents a customer may confirm, and the events it reported |
| `ledger`, `qualifying` | identities of loyalty entries; `Referral.qualifyingOrderId` |
| `call[p]` | what the request in process `p` has read and not yet written |

| actions | in the code |
|---|---|
| `CheckoutRead`, `CheckoutCommit` | `CheckoutService.submit` |
| `InitiateRead`, `InitiateBegin`, `InitiateEnsure`, `InitiateCommit` | `PaymentService.initiate` with `ensureActiveReservations`: before the provider call, after it, the stale reads of the balances, the commit |
| `FailRead`, `FailCommit` | `PaymentService.failed` |
| `SucceedRead`, `SucceedCommit`, `SucceedRace` | `PaymentService.succeeded` |
| `AwardOrder`, `ReferRead`, `QualifyCommit` | `awardParticipation` |
| `ReleaseBatch` | `InventoryService.releaseBatch` |
| `Decline`, `Charge` | Stripe |
| `Abandon` | any way a request ends without writing |
| `Tick` | time |

`Fulfilment`:

| variable | in the code |
|---|---|
| `status[o]`, `paid` | `Order.status`; orders whose `Payment.status` is `SUCCEEDED` |
| `cancellation[o]` | `Order.cancellationIdempotencyKey`, set together with `cancellationRequestedAt` |
| `shipment[o]`, `events[o]` | `Shipment.status` and its `TrackingEvent` rows |
| `promised` | orders whose customer `cancel` answered with success |
| `call[p]` | the cancellation, creation or transition that `p` is serving, with what it read |

| actions | in the code |
|---|---|
| `Confirm` | the order update of `PaymentService.succeeded` |
| `CancelReplay`, `CancelRead`, `CancelCommit`, `CancelMissed`, `CancelReload` | `OrdersService.cancel`: the early answer, the reads, the claim, the claim that matched no row or met the unique index, and the answer from the row as it is then |
| `CreateRead`, `CreateCommit` | `DeliveryService.create` |
| `MoveRead`, `MoveCommit` | `DeliveryService.transition` |
| `Abandon` | refusals, rollbacks, and the answers of a lost race, none of which write |

`CartCheckout`:

| variable | in the code |
|---|---|
| `cart[c]`, `items[c]` | a `Cart` row (status, revision, promotion) and its `CartItem` rows |
| `price[v]`, `eligible` | `PerfumeVariant.priceMinor`; promotions that `isPromotionEligible` accepts now |
| `order[k]` | the order with idempotency key `k`: the request it was made for (`requestFingerprint`), its items, promotion and unit prices |
| `shown`, `answers` | history: the carts the API returned, the answers of `submit` |
| `call[p]` | the mutation or checkout that `p` is serving, with what it read |

| actions | in the code |
|---|---|
| `GetCart` | `CartService.get` |
| `MutateElsewhere` | `ensure`, which makes a cart, and the CONFLICT of `validateMutation` |
| `MutateRead`, `MutateCommit`, `MutateAnswer` | `addItem`, `updateQuantity`, `removeItem`, `applyPromotion`: what they check on the cart they read; the transaction of `mutate`; the cart it answers with |
| `SubmitReplay`, `SubmitRead` | `submit` up to its transaction |
| `SubmitCommit`, `SubmitMissed`, `SubmitUnique` | the transaction, its `CART_REVIEW`, and its unique conflicts |
| `SubmitReplayed`, `SubmitReview`, `SubmitThrows` | how `submit` answers after those |
| `SetPrice`, `SwitchPromotion` | `updateVariant` of the catalogue; `updatePromotion` and a promotion's dates |

The service and page modules. Each has `Init`, `Next` and variables under a prefix of its
own, so that `MCServices` can extend them all.

| module | state and the code's rows | actions and the code's operations |
|---|---|---|
| `Identity` | `account`, `provider`, `session[t]`, `now`; `acked`: the password of the last acknowledged reset; `idCall[p]` | `IdRegister` (row, provider, link or undo), `IdLogin` (provider, activate, create session), `IdReset` (revoke, change password, revoke again), the principal's read, touch and reread, `verify`, `logout`, `deactivate`; `IdAbandon` ends a process between any two |
| `Passkeys` | `challenges`, `passkeys`, `active`, `hour`; `outcomes`: completed ceremonies; `pkCall[p]` | `Options`, `OptionsCreate`; `VerifyChallenge` reads the challenge, `Consume` claims it, `SignIn` opens the session |
| `Profile` | `customer`, `profile`; `seen[p]`: what a tab shows; `pfCall[p]` | `GetProfile` with its ensure; `LoadCustomer`, `LoadProfile`: the two queries of an answer; `Submit`, `Mutate`: a form and its claim |
| `Catalogue` | `perfume`, `variant`, `request` (creation keys); `form[p]`, `created`, `ctCall[p]` | `Open`, `Opened`; `Create`, `CreatePerfume`, `CreateVariantLoad`, `CreateVariant`, `CreateReplay`; `EditLoad`, `EditCommit`, `ConfirmArchive` |
| `Inventory` | `stock`, `hold`, `batch`, `movement`, `time`; `invCall[p]`, `invAnswers` | `ReserveRead`, `ReserveCommit`; `EndRead`, `EndCommit`, `EndLost`, `EndReplay` for `release`, `expire` and `commit`; `RecordRead`, `RecordCommit`; `ReleaseRead`, `ReleaseCommit` |
| `Reviews` | `review`, `posted`; `screen[d]`, `loads[d]`, `decided[d]` | `PostReview`, `EditReview`, `Moderate`; the screen's reads with answers in any order (`ListForModeration`, `Shows`), `Decide` and how it ends |
| `Support` | `conversation`, `ratings`; `transcript`, `intent`, `orders`, `sending`, `asks` | `ask` in its steps (`StartConversation`, `RecordQuestion`, the provider's reply, its timeout, its late reply, `RecordReply`); the screen's `AskTurn`, `RetryTurn`, `SendFeedback` |
| `Promotions` | `promotion`, `content`; `card[m]`, `given`, `claims`, `job[p]` | `CreatePromotion`, `UpdatePromotion`, `SaveCard`; `ClaimContent`, `ProviderAnswers`, `StorePreview`, `StoreFailure`, `JobLost` for `generate`; `ReviewContent` |
| `Discovery` | `live`: quiz and catalogue; `shape`, `view`, `serving[p]`, `since[p]` | the view's steps; `GetCandidateContext`, `ProviderRecommends`, `ProviderFails`, `PersistProvider`, `Generate` (the fallback), `StoreRun`; `PerfumeRetired`, `ValueRetired`, `QuizReplaced` |
| `CheckoutPage` | `page`: stage, cart, order, secret, verification runs; `calls` in flight; `shop`; `used` keys | one action per click, per answer, per effect; `LoadPage`; `PaymentSettles` and `CartChangesElsewhere` around it |
| `CartPage` | `tab[t]`, `sent[t]` over the cart `held` | `LoadTab`, `ClickRow`, `ServeChange`, `ChangeAnswered`, `CartRead`, `TabLoaded` |
| `BatchDesk` | `desk`, `balances`, `asked` over `releasedWith` | reads of both lists, `SelectBatch`, `ConfirmRelease`, and their answers |
| `Population` | `catalog`, `balance`, `movements`, `quiz`, `run[p]`, the `manifest` | `Validate`, `CheckProduct`, `WriteProduct`, `WriteQuiz`, `CommitRun`, `RollBack`, beside `Sell`, `AdministratorSaves` and `ReviseManifest` |
| `DemoReset` | `rows`, `reset` | `Seed`; `StartReset`, `Rebuild`, `Provision`, `ValidateAccounts`, `Verify`; `Check`; `SiteUsed` |

## 3. How the model relates to the code

**A handler is its reads and one commit.** Under READ COMMITTED a statement sees
the rows that were committed when it started, and a row that a transaction
changed stays locked until it ends. So a handler becomes one or more read steps,
which keep a possibly stale snapshot in the call record, and one atomic step
that evaluates each conditional `updateMany` against the rows as they are
committed then and writes all of it. What a handler only read (an `onHand`
literal, a reservation it decided to keep) is *not* looked at again: that is
where the races are. A condition that fails throws and rolls everything back;
this, a deadlock victim, an expired transaction and a dead process all leave the
database as it was, and are `Abandon`. The database's own checks (the balance's
CHECK, unique indexes, the invoice trigger) are guards of the commit.

**`now()`** is called several times in one transaction, between its read and its
commit. `succeeded` therefore remembers when it read and accepts a hold that
was live at any time since.

**Events are sets.** A reported event stays in its set and may be handled any
number of times, by several processes at once, and in any order: loss followed
by redelivery, duplication and reordering all come of it.

**An intent is the pair of order and attempt.** The provider's idempotency key is
made from the payment and the attempt, so asking twice gives one intent. (Keys
are kept for a day; attempts are taken to be shorter.) A customer can only
confirm an intent whose client secret a committed `initiate` returned.

**Abstracted data.** In `Payments` an order stands for the cart it comes from and is
created once, which is `OrderTakesCart` of `CartCheckout`; prices, addresses and
snapshots are left out. `lastProviderEventId` is never read and
the payment status `EXPIRED` never written, so neither is kept. Points are the
set of ledger identities, because an account is only changed by inserting an
identity. The several selects of one Prisma `include` are taken at one time.

**Carts.** Customers share no cart rows, so `CartCheckout` has one; a visitor's cart
runs the same code and is never checked out. A line's customisation is part of
its identity. A row's id is the revision whose mutation made it: unlike a random
UUID it needs no supply, and like one it is never used twice in a cart. A
mutation's argument is any that `Change` has, not only what the page would send. A
request's fingerprint covers its key, cart and revision (and addresses and
method, which no property tells apart). A promotion is switched at any time.

**Cancelling is asking.** `cancel` records a request and changes no status, so an
order that was placed but not paid can still be paid after it, and the model
lets it. What the request prevents is the dispatch. No handler writes
`PROCESSING`; conditions that name it keep it.

**Pages** keep a set of requests on their way. A request is served at some time,
its answer arrives at some later time or never, and answers to different
requests arrive in any order; what makes a page ignore one (a run number, an
`active` flag, a disabled button) is a guard. A page's module has only as much of
the service as decides its answers. Loading the checkout page again
(`CheckoutPage.LoadPage`) and rereading a tab's cart (`CartPage.LoadTab`) drop the
requests that the old page had on their way: those already served have had their
effect, but one that the service would process only after the reload is left out.
What such a request could still do to a cart or an order, another tab's changes and
the services' own modules do.

**Bounds.**
- `payments`: `MaxClock` ticks, `MaxAttempt` attempts, `MaxQuantity` and `MaxBatch` units. Two
  attempts are what a retry race needs; with a window of one tick, one tick lets
  holds lapse and a second lets reactivated holds lapse again. Its constraint
  `OneTwoOrThreeOrders` unites three instances: one order with three requests (a
  retry, the webhook it overtakes, a duplicate delivery), two attempts and two
  ticks; two orders of a referred customer with two requests and either a second
  attempt or a batch and a tick; three orders that contend with two requests.
  0.3 million states.
- `fulfilment` needs no bound: a cancellation is recorded once and a journey has four
  steps, so its two orders, two keys and three requests (two that race and one
  that overtakes both) are explored completely.
- `checkout`: `MaxRevision` bounds a cart's revision: enough for two tabs to add, change,
  remove and submit in turn; `MaxQuantity` stands for 99, and 2 is enough for two
  additions to meet the limit. `InBounds` unites one cart with two lines and a
  promotion, and two plain carts in turn with two keys. 1.5 million states.
- `services`: two requests or two tabs at a time throughout. A session lives three
  ticks and idles two; two tokens let an old session meet a new login; three
  ticks pass, so that a session ends either way; two advances of `authVersion` are both
  revocations of a reset, or one and a deactivation; a customer is new or returns with preferences,
  and three revisions of a profile are two changes of it; three challenges make two
  outstanding and a replaced one; three purchases over pages of two reviews give a
  second page; two asks are a lost one and its retry; three claims of a content are
  a failure, its retry and one more; two editions of a manifest (the second may give stock
  to a product installed sold out, or take it away), one sale, two runs; two calls of each kind and two verification runs with two reads
  each on the checkout page; five revisions of a cart in two tabs. The components share no state; the
  variable `part` picks one, so that the run is the sum of thirteen instances and not
  their product, and loses no interleaving that could matter. 3.0 million states.

The proofs need none of these bounds.

**Deadlock** is not checked: with its clock and attempts used up, and customers
free to do nothing, the system may stop. No handler waits in this model, but for a
population run, whose locks are its guards.

**Fairness** (`Fairness` of `Payments`, used by `settlement` and `lapse`): time passes, requests end, and a
success event is delivered again until it is acknowledged, which Stripe does for
days; strong fairness because a delivery may meet a server that has no process
free or a transaction that is rolled back, and a later one then gets through.
Nothing is assumed of customers, of declines, or of administrators.

## 4. The runs

| run | question |
|---|---|
| `payments` | `TypeOK`. `StockAccounting`: each balance equals what reservations say. `NeverOversold`. `PaidTogether`: verified, confirmed, sold, invoiced and moved together, for a charged intent. `FailedHoldsNothing`: a failed payment holds no stock, lapsed holds included. `AttemptsInOrder`: attempts advance by one, and an event settles only its own attempt. `SettledIsFinal`: nothing that was settled changes, the referral's qualifying order included. `ImplementsLedger`: every step is a step of the abstract ledger. |
| `settlement` | Under fairness. `ChargesSettle`: a charge of the current attempt, whose holds are all live, is settled unless it is lost in one of three ways (below). `PaidIsRewarded`: every paid order is rewarded, also when the process died after the payment. |
| `fulfilment` | `TypeOK`. `PromisedStaysHome`: once a customer was told that the cancellation is requested, the goods stay. `OrderFollowsShipment`: the two statuses agree, and only paid orders ship. `EventsTellJourney`: the events are the journey so far, each once. `CancellationIsOnce`: a key marks one order. `ImplementsLife`: every step is a step in the life of an order. |
| `checkout` | `TypeOK` (a quantity is one the service accepts). `LinesAreMerged`: two tabs that add one line make one row. `OrderedAsShown`: what is ordered is what was shown for the submitted revision. `OrderTakesCart`: a cart becomes one order and is not changed afterwards. `AnswersStayTrue`: a request that was sent to review never becomes an order, one that was ready stays the order of its key. |
| `services` | The components around the order path; see the next table. |
| `retry`, `lapse`, `holds`, `prices`, `variants`, `promotions`, `demo_reset` | Each shows one disagreement; see the next section. |

| component | property of `services` |
|---|---|
| Identity | `ResetEndsSessions`: after an acknowledged reset no session of an older password is usable, nor can a login under way open one. `ServedAreEligible`: a request is served only if its session is eligible when it is touched. `NotTurnedAnonymous`: a request that loses the race to touch a session is not taken for a visitor's. |
| Passkeys | `ChallengeServesOnce`: one challenge, one outcome, however many requests answer it. |
| Profile | `CurrentIdentityFits`: a fragrance identity that is not stale was made from the current preferences. |
| Catalogue | `OpenedRevisionIsCurrent`: a form with the current revision shows current data, although a load takes two queries. `CreationsAreOnce`: every step of the catalogue is a step of `OnceOnly`, so that all copies of one creation name one perfume or variant, and the recorded one. |
| Inventory | `BooksAgree`: balances are what movements and active reservations say, summed as sets of pieces. `InventoryAnswersStayTrue`: a success that was answered stays true. |
| Batch screen | `ReleaseNeverRefused`: neither lost answers nor others' releases make a release fail. |
| Reviews | `OwnDecisionShown`: a list shown after a decision is not older than it. |
| Support | `LateReplyDropped`: a reply after the timeout is not added to the conversation. |
| Discovery | `OneRunPerAnswer`: a submission leaves one run, however provider and transaction end. `NothingRetiredMeanwhile`: no perfume that was retired while the provider thought is recommended. |
| Promotional content | `OneGeneration`: one generation at a time, and the preview is of the last one. |
| Population | `StockIsOpenedOnce`: what is on hand of a product is the opening movement of its installation less what was sold, or it was installed without stock and has none; no later run or edition gives units back or raises a balance. |
| Checkout page | `KeyServesOneRequest`: a key is never sent for a second request, although a refused one is sent again after cart or method changed. (After a lost answer the page must be loaded again and makes a new key, so it never repeats a request under its key.) `ConfirmedIsPaid`: only a paid order is confirmed. |
| Cart page | `ClickMeansWhatItShowed`: a change that the service makes is a change of what its customer saw. |

`ChargesSettle` names every way in which such a charge is lost: a hold lapses before the
event gets through; a decline of the same intent, made before its charge, is reported late, so
that `failed` fails the payment and releases live holds (`payment/service.ts:361-397`); or a
retry that read lapsed holds goes on to the next attempt after another request had
reactivated them. The property is violated if any of the three is left out. It says that
nothing else loses a charge while events are redelivered. The instance's clock stops at
`MaxClock`, so a hold taken at the last tick does not lapse: it stands for every event that
arrives in time, and for it the first loss is no way out.

The claim's comparison alone does not prevent overselling: a handler that read
`onHand = 2` may commit after another order was sold. It is the table's check
`reserved <= onHand` that refuses it; without that check `payments` oversells.

Processes, and in `checkout` and `fulfilment` carts, orders and keys, differ only by
name and are taken for symmetric; the liveness runs use no symmetry.

## 5. Where the code and its documents disagree

- **`retry`** `modules/commerce/payment/README.md:23-26` says that after a retry the
  repeated webhook finishes the original attempt. The retry takes a new attempt
  number and reference, so the repeated event is refused for ever. In the trace the
  hold lapses while the first attempt is being initiated, the customer is charged for
  that attempt, and a retry reactivates the hold under the second one. No decline is involved:
  the property excludes intents that had one.
- **`lapse`** The SRS (`docs/srs/use-cases/cart-order-delivery.md:239`, `:209`) says the
  reservation of an expired or abandoned payment is released. Nothing calls
  `InventoryService.expire`; only the same order's next payment releases it.
- **`holds`** `ensureActiveReservations` checks last that every reservation is
  active (`modules/commerce/payment/service.ts:259-262`). A decline that commits
  between this check and the update of the payment, whose `where` accepts
  `FAILED`, leaves a pending attempt whose reservations are released.
- **`prices`** The SRS (`:203`) says that a customer confirms a changed price. A price
  is not part of the cart's revision, which is all `submit` claims, so an order can
  be made at a price that was never shown.
- **`variants`** The cart service keeps one variant with two customisations as two
  lines and calls the cart eligible; `submit` reserves for each line, and the second
  reservation of an order and variant meets a unique index
  (`modules/commerce/checkout/service.ts:131`). The checkout always throws.

- **`promotions`** An eligibility rule that the code does not know closes a promotion to
  everyone (`modules/commerce/promotion.ts:17`). A promotion that was created with one
  through the API and is saved from its card on the screen, whose form has no
  such field, is written with the default `{}` (`modules/promotions/content/service.ts:101`)
  and is open to everyone.
- **`demo_reset`** The documented reset of the demonstration
  (`docs/srs/development-environment.md:143`) always fails: its `TRUNCATE`
  (`prisma/reset-demo.ts:95`) has no `CASCADE` and omits two tables that reference one
  it names, and its verification expects other permissions than the seed writes.

`ImplementsLedger`, `StockAccounting` and the rest hold in spite of these: stock is
never wrong, but a charge may be left without an order.

The models also reach states that are unfortunate, where no document says
otherwise plainly enough to make a run of it:

- A registration whose process ends between the provider's answer and the link of
  the row leaves the email taken by an account that nobody can verify
  (`modules/identity/service.ts:41`).
- Content whose process ends during the provider call stays `GENERATED`: nothing
  accepts it again (`modules/promotions/content/service.ts:118`).
- A review that its author edits after a moderator read it is approved unread
  (`modules/participation/reviews/service.ts:77`; the use case has the administrator
  assess it first, `docs/srs/use-cases/admin-derived-modules.md:521`).
- Two clicks on *Reload checkout*: the second answer may arrive after the order was
  placed, and puts the page back to `CHECKOUT_READY` over a cart that is gone
  (`checkout-page.tsx:102`, `:196`). A reload before the payment forgets the order as
  well. The order is placed and its page does not proceed to the payment.
- Going from one topic of the support screen that takes an order to another clears the
  loaded orders without loading them again: *Loading your orders* stays
  (`modules/support/ui/support-assistance.tsx:92-97`). A retried turn sends the follow-up
  products of the transcript as it is now, with the history as it was.
- A promotion's card shows the stored UTC dates as local ones and stores them back: each
  save from the screen moves them by the offset of the time zone
  (`modules/administration/ui/admin-promotions.tsx:173`). The second edit of a variant in one
  visit is refused, because the list keeps the perfume's first revision
  (`modules/administration/ui/catalogue/admin-variant-list.tsx:50`).
- A population run upserts an archived perfume back to life without advancing its
  revision (`prisma/catalogue-population.ts:389-397`), so that a form opened before the run
  is still accepted.
- An edition of the manifest that gives opening stock to a variant that was installed
  without books the movement and leaves the balance at 0 (`:456`, `:488`), so that the
  movements then say more than is on hand. `ReviseManifest` makes such editions, and
  `StockIsOpenedOnce` states what holds of them all the same. No document promises that the
  two agree, so no run is written against it.

## 6. The proofs

`tlapm` proves, for every finite set of orders, any variants, quantities, batches,
processes, customers and bounds that satisfy `StockUnitsAssumption` and
`PaymentsAssumption`:

| theorem | statement |
|---|---|
| `TypeCorrect` | `Spec => []TypeOK`; in particular no balance becomes negative |
| `StockIsAccountedFor` | `Spec => []StockAccounting` |
| `NothingIsOversold` | `Spec => []NeverOversold` |
| `QuantityChange` | changing one order's lines changes a variant's quantity by that order's share |
| `PaymentsSettleTogether` | `Spec => []PaidTogether` |
| `FailuresLetGo` | `Spec => []FailedHoldsNothing` |
| `SettlementIsFinal` | `Spec => SettledIsFinal` |
| `AttemptsFollow` | `Spec => AttemptsInOrder` |
| `StockRefinement` | `Spec => ImplementsLedger` |

The first four rest on `StockInv`, the conjunction of

- `TypeOK`;
- `UnplacedHoldsNothing`: an order that was not placed has no reservation. Checkout
  writes its reservations over whatever was there, so without this the books
  could change by more than it adds;
- `CallsAndOrders`: what the call records say about their orders, so that a commit
  step knows the rows it did not read again still belong to a placed order;
- `SoundBalances`: `reserved <= onHand`, the database's check; with the next one it
  gives `NeverOversold`;
- `StockAccounting`.

The argument: a handler changes the lines of one order only. `QuantityChange` splits
the units of a variant into that order's and the others', which are untouched;
each handler's lemma shows that what it adds to or takes from a balance is
exactly what its order's share changes by. Sums over orders are cardinalities of
sets of units, since induction over data is beyond the prover's reach.

The others need more about payments: `SettlementInv` adds

- `EventFacts` of every call: the event a webhook is about was reported by the provider,
  and a retry continues with the attempt it read or the next one;
- `OrderFacts` of every order: exactly the placed orders have a payment, exactly the
  confirmed ones a successful one; and a payment is settled with all of its rows or none.

Only four transactions write the rows of an order that exists (those of checkout, `initiate`, `failed`
and `succeeded`), so the proofs are about those four and a
lemma that the rest leaves `OrderFacts` alone. `SettledIsFinal` follows because none
of the four writes to an order whose payment is settled. For the refinement, `CheckoutCommit` and
`InitiateCommit` are `Hold` (`TakesHold`; that the lines fit is `FitsSupply`, from
`StockAccounting` and the database's check), `FailCommit` is `Release`, `SucceedCommit` is
`Sell` of exactly what the order held, `ReleaseBatch` is `Restock`, and everything else
stutters.

For `Fulfilment`, for any orders, keys and number of processes:

| theorem | statement |
|---|---|
| `TypeCorrect` | `Spec => []TypeOK` |
| `CancelledIsNotShipped` | `Spec => []PromisedStaysHome` |
| `StatusesAgree` | `Spec => []OrderFollowsShipment` |
| `EventsAreTheJourney` | `Spec => []EventsTellJourney` |
| `RequestsAreOnce` | `Spec => CancellationIsOnce` |
| `Refinement` | `Spec => ImplementsLife` |

The invariant is `FulfilmentInv`: the types, `OrderFacts` (paid exactly when out of
`PLACED`; order and shipment agree; an order with a cancellation is still in a
cancellable status) and `CallFacts`, what a request still knows of the order it
read: that it is paid, and that its move follows the status it expects.
`CallFacts` is what makes the claims enough: `MoveIsOneStep` shows from it that a
claim on the expected status can only be one of three moves, and the rest of the
argument, the refinement included, is about those three and the cancellation.

For `CartCheckout`, for any carts, lines, keys, prices, limit and processes:

| theorem | statement |
|---|---|
| `TypeCorrect` | `Spec => []TypeOK`, the limit of a line included |
| `LinesStayMerged` | `Spec => []LinesAreMerged` |
| `OrdersWereShown` | `Spec => []OrderedAsShown` |
| `CartsAreOrderedOnce` | `Spec => []OrderTakesCart` |
| `AnswersHold` | `Spec => []AnswersStayTrue` |
| `CheckoutRefinement` | `Spec => CheckoutsAreOnce` |

The invariant is `CartInv`. What makes it inductive is that a revision, once left,
never comes back: `ShownFacts` (what was shown is what the cart holds while its
revision stands), `CallFacts` (what a request read still holds if its claim will
match) and `Doomed` (a checkout whose revision is gone, or whose cart at that
revision is empty or holds a variant twice, cannot succeed any more). An answer
that sends a customer to review, or throws, is only given to a doomed request;
`DoomedStands` is why it stays true. In the refinement of `OnceOnly` the commit of a checkout
is `Accept`, a replay of the key's own request is `Repeat` (`ReplayRepeats`), and every other
answer, a conflict over the key included, stutters.

For `Identity`, any processes, tokens, times and numbers of passwords:

| theorem | statement |
|---|---|
| `ResetsEndSessions` | `IdSpec => []ResetEndsSessions` |
| `ServedWhileEligible` | `IdSpec => ServedAreEligible` |
| `NoneTurnedAnonymous` | `IdSpec => NotTurnedAnonymous` |
| `DeactivationIsFinal` | a deactivated account stays deactivated, whatever was under way |
| `ActivityIsMonotone` | the activity of a session never moves back |

`IdInv` has the types; `AccountFacts`; `SessionFacts` (a session's version is not newer than
the account's, and if it is the account's, its password is not older than the one the
last reset set); `CallFacts`, what a request remembers: the same of a login that still has
to create its session, and that a request that goes to touch a session read it live; and
`OneRegisters`, that one registration at most is between its row and its link. A reset
revokes twice, and the second revocation advances the version after the password has
changed: every login accepted with the old password read an older version, and the
comparison at its end refuses it. This is what makes `ResetEndsSessions` inductive.

For `Passkeys`, any number of concurrent requests and challenges of an administrator: `ChallengesServeOnce`
(`PkSpec => []ChallengeServesOnce`). `PkInv` says that a sign-in to come has consumed its
challenge for itself: no other sign-in has it, and it is in no outcome yet.

For `Promotions`, any contents and workers: `GenerationsAreOne` (`PmSpec => []OneGeneration`)
and `DecisionsAreFinal` (a reviewed content is never overwritten). `PmInv` says that a
worker's claim is the last one of its content, that nobody else works on it, and that it
cannot be claimed again until the worker has ended or is lost.

For `CartPage`, any tabs and rows: `ClicksMeanWhatTheyShowed`
(`CgSpec => ClickMeansWhatItShowed`). `CgInv` says that what a tab shows, or named its
change after, was held by the service, and is what it holds if the revisions agree.

For `Inventory`, any variants, reservations, batches, keys and requests:

| theorem | statement |
|---|---|
| `BooksAgreeAlways` | `InvSpec => []BooksAgree` |
| `InventoryAnswersHold` | `InvSpec => []InventoryAnswersStayTrue` |
| `RecordingRefinement` | `InvSpec => RecordingsAreOnce` |
| `ReferencesAreUnique` | a movement's reference is of one movement |
| `EndsAreFinal` | a reservation that has ended keeps its status and quantity |

`InvInv` has `RowsFit` (a movement is that of one committed reservation or released batch, and a
reservation holds units of a balance that exists); `CallReads`, what a request still knows
of the rows it read; `AnswerTrue`, the answers; and `Books`, which says the same as `BooksAgree`
also of a variant without a balance, so that the first release may make it. A quantity is a
set of pieces, a sum the cardinality of their union: `PiecesAdd` shows what one more row adds,
and a handler's lemma that its one row is what its balance moves by. That a movement is new
comes from `RowsFit`: its reservation was active, or its batch recorded. For the refinement
`RecInv` adds `KeysAreUnique`, because two requests may look for the same key at once and find nothing.

For `Population`, any products, runs and editions:

| theorem | statement |
|---|---|
| `StockStaysOpenedOnce` | `PnSpec => []StockIsOpenedOnce` |
| `EditionsAreWhole` | `PnSpec => []WholeEdition`: the quiz and the products are of one edition, but for what an administrator saved since |
| `NoSlugTwice` | `PnSpec => []SlugsAreUnique`: no two perfumes get one slug |

`PnInv` adds to the property that nothing is booked of a product before it is installed
(`BookFits`), and that one run writes at a time, with movements that fit until it commits
(`OneWriter`): the opening movement it found, or none, is still the one there when it commits. `CatalogInv` adds what a run has written so
far: rows of its own edition, whose slugs nobody else has, since its rows are locked.

For `Catalogue`, any perfumes, variants, keys and administrators:

| theorem | statement |
|---|---|
| `OpenedRevisionsAreCurrent` | `CtSpec => []OpenedRevisionIsCurrent` |
| `CreationRefinement` | `CtSpec => CreationsAreOnce` |
| `KeysCreateOnce` | `CtSpec => []CreatesOnce`, the same of the answers alone |
| `RevisionsAdvance` | whatever changes of a perfume or its variants, its revision advances by one, and no perfume disappears |

`CtInv`: a row that was read was once the perfume's, and still is if the revisions agree
(`RowWasHeld`, `FormFacts`), which holds because every change advances the revision; what a request
may rely on (`CtCallFacts`: a perfume that it saw exists, a variant stays of its perfume); and every
answer is recorded under its key (`AnswersRecorded`).

The other services and pages:

| theorem | statement | why it is inductive |
|---|---|---|
| `IdentitiesFit` | `PfSpec => []CurrentIdentityFits` | `PfInv`: a mutation that may still claim its revision has read the present preferences |
| `LateRepliesAreDropped` | `SpSpec => LateReplyDropped` | `SpInv`: a conversation holds exactly what its ask's step has recorded (`AskRecorded`) |
| `RepliesAreShownAsRecorded` | a turn shown as done has the recorded question and reply of an ask of its own, and ratings are of answered asks (`ShownIsRecorded`) | `TranscriptInv`: an ask that was answered is never served again |
| `SubmissionsLeaveOneRun` | `DsSpec => []OneRunPerAnswer` | `DsInv`: nothing is stored before the last transaction |
| `RetiredPerfumesAreNotAnswered` | `DsSpec => []NothingRetiredMeanwhile` | `DsInv`: since the provider answered, what is public now was public at some time |
| `ModeratorsSeeTheirDecisions` | `RvSpec => []OwnDecisionShown` | `RvInv`: the list waited for or shown was read after every decision that was reported (`DeskOK`) |
| `KeysServeOneRequest` | `CpSpec => []KeyServesOneRequest` | `CpInv`: keys are numbered as they are made, and the page's key is kept with its request (`KeyFacts`) |
| `ConfirmedOrdersArePaid` | `CpSpec => []ConfirmedIsPaid` | `CpInv`: only a placed order has a payment, and a reply that it succeeded is true, however late (`ReplyFacts`) |
| `ReleasesAreNeverRefused` | `BdSpec => []ReleaseNeverRefused` | `BdInv`: a batch's key is its own, and a batch was released with it or by others (`BatchKeys`) |
| `ReleasesAreShown` | the stock shown under a notice of a release counts that release (`ToldIsShown`) | `TellInv`: any read of the stock that may still be shown was served after the releases told of |

Each of these invariants is one the model checker passed before it was proved.

**Assumptions.** The constants' assumptions are named in their modules: bounds are natural
numbers, lifetimes and limits positive, batches of the screen finite in number. The others say
that a sentinel is not one of the values it stands beside: no key, order, time or row of a table
is `NoRow`, `Absent`, `NoReview`, `Missing`, `Nothing`, `NoAsk` or `Unreleased`
(`NoRowIsNone`, `AbsentIsNoRow`, `NoReviewIsNoRow`, `MissingIsNoPerfume` and the like), which in the
code is `null` against a value.

**Only model-checked:** `ChargesSettle` and `PaidIsRewarded`. Liveness under fairness and `ENABLED`
are outside what the prover handles. Every other property of the runs that pass is stated by a
theorem here, for all values of the constants. Of the runs that show a disagreement nothing is proved.

## 7. What is not modelled, and the plan

Possible next steps:

1. **Theorems** on the pages beyond what the runs ask: which answers a quiz or a card of
   the screens may still show when several are late.
2. **`Inventory` with `Payments`**, to ask whether a job calling `expire` would repair the
   `lapse` run without breaking the rest.
3. **Row locks**: a refinement of the commit steps into their statements, for the lock
   orders of checkout, `initiate` and `failed`.
4. **Pricing** as operators against a reference definition.

Left out, with the reason:

- referral codes, `applyReferral` and subscription: single statements whose unique index
  decides their races; and what the webhook answers when an award is refused: the
  award itself is modelled;
- row locks and deadlocks: PostgreSQL ends one of two transactions that wait for each other,
  which is `Abandon`, so safety is checked in spite of them and progress is not;
- pricing: a pure function within ranges that the services validate;
- the wishlist: two operations on one unique row; reporting, the public catalogue, order
  lists and the administration of orders: reads, with the changes delegated to
  `DeliveryService`, which is modelled;
- login and sign-up forms, and the recording form for batches: one request per submission;
- cookies, parsing, headers, rendering, the wording of prompts and answers;
- literal data of the catalogue and the quiz, the demonstration's history, API mocks;
- the round trip of a promotion's dates through the browser's time zone, and the limit
  of a hundred perfumes that the quiz scores, which need what small instances lack.
