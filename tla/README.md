# SkladBase: TLA+ models and proofs

SkladBase is a stock keeper for small shops: a FastAPI backend on async
SQLAlchemy 2.0 and PostgreSQL, opened as a Telegram Mini App. This directory
models what its backend keeps and who may change it when: the stock with the
orders and waybills that move it, the subscriptions, the shops and their teams, the
catalogue with its templates and photos, the support dialogue and the limiter of
requests. TLC checks the models on small instances; TLAPS proves their safety
properties for every instance, that concurrent endpoint calls are serializable
among them. Liveness stays with TLC.

Contents: [the system](#the-system), [modules](#modules),
[what the model takes from the environment](#what-the-model-takes-from-the-environment),
[runs](#runs), [proofs](#proofs), [findings](#findings),
[what is not covered](#what-is-not-covered), [plan](#plan).

## The system

Three processes share one database: the web application (uvicorn, many
requests at a time on one event loop), the scheduler (`app/worker.py`, six
kinds of cron jobs) and the support bot (polling). They share no memory. What one
request does between two `await`s of the database may meet anything another
request, or a cron job, commits in between.

| component | state | operations | interacts with |
|---|---|---|---|
| Stock service `services/inventory.py` | `Variant.on_hand`, `reserved`, `low_stock_notified_at`; `Reservation`; `StockMovement` | reserve, release, fulfill, ship, update_ttn, pick_up, not_picked_up, sell_direct, restock, write_off | called by the endpoints of `api/inventory.py`, by the orders, by waybills and by parcel tracking; row locks |
| Orders `services/orders.py` | `Order` (unique idempotency key, status) | create_website_order, confirm_order, cancel_order | several calls of the stock service in one transaction; outgoing webhook after the commit |
| Stock jobs `tasks.py` | same rows | release_expired_reservations, np_tracking, low_stock_scan | write the rows themselves, without locks (the first and the last), or call the stock service between requests to Nova Poshta |
| Waybills `services/np_shipping.py`, `novaposhta.py`, `api/np.py` | documents at Nova Poshta; `Reservation.ttn`; key and sender of the shop | create_ttn, tracking, settings | remote API, then `ship()` or `pick_up()` |
| Subscriptions and billing `services/subscriptions.py`, `api/payment_webhooks.py`, `billing/` | `Subscription`, `Payment` | trial, record_payment, past_due, cancel, expire, three cron jobs, webhooks of three providers | providers deliver webhooks late, twice or never |
| Promo codes | `PromoCode.used_count`, redemptions | redeem | subscriptions |
| Shops and team `services/bootstrap.py`, `api/team.py` | `Shop`, `Membership`, `Role`, `Invite` | bootstrap of a shop (several commits), invites, roles, permission overrides | catalogue seed, trial |
| Catalogue `services/catalog.py`, `api/catalog.py`, `seed.py` | `Product`, `Variant` | create, edit, archive, delete; limits of the plan | subscriptions (plan), reservations |
| Templates `services/templates.py` | `ProductTemplate.field_schema` | create, patch, remove, validation of axes | catalogue |
| Photos `api/catalog.py`, `services/media.py` | `ProductPhoto`, `Variant.photo_url`; files in an object store | upload, delete | catalogue, the store |
| Rate limiter `security/rate_limit.py` | a window of instants per key, in memory | hit | every endpoint |
| Support bot `bot/` | FSM state and `support_map` in memory; bans | messages, replies, moderation | Telegram, rate limiter |
| Finance `api/finance.py` | none: sums of `StockMovement` | reports | relies on the journal |
| Authentication, public catalogue, frontend | none | stateless checks, reads, user interface | |

What makes each correct:

* **Stock.** Never more promised than there is; `reserved` is exactly what
  active reservations earmark; the journal accounts for every unit; a sale is
  booked once; a settled reservation stays settled.
* **Orders.** One key, one set of reservations; all positions or none; decided
  once; a decided order keeps nothing earmarked.
* **Concurrency of both.** Requests running at a time have the effect of the same
  requests one after the other, and every request ends.
* **Subscriptions.** A payment extends a period once; who does not pay loses
  access in the end; who paid keeps it.
* **Catalogue.** What the plan does not cover is for reading only, and nothing is created
  beyond it; a deletion loses no earmarked unit and no last variant; a product is
  described by its template.
* **Photos.** A row has its file, a gallery its limit and its order.
* **Team.** A shop has one owner and its trial, everybody's role exists, one joins by a
  good invite, and overrides go with the role they were made for.
* **Support.** An answer, a ban or a close reaches the author of the message replied to,
  and no command of the administrator goes to a user.
* **Rate limiter.** Never more than the limit within a window, and no refusal without need.
* **Waybills.** What Nova Poshta delivered is settled in the end.

The hard behaviours are all of one kind: a value read before an `await`, used
after it. `PROJECT.json` lists them one by one with the line where they bite.

## Modules

    Inventory          one step per transaction of the stock service
       ^
    Orders             website orders on top of it
       ^      ^
       |      StockProofs (of Inventory, too)
       |      ^
    StockTx   |        the same transactions, statement by statement, by
       ^      |        concurrent sessions, with the cron jobs and waybills
       StockTxProofs

    WindowLimit        what a limiter of requests promises
       ^
    RateLimit          the limiter, a refinement of it
       ^
    Support            the support dialogue, with a limiter of its own
       ^
       SupportProofs   (of RateLimit, too)

    Subscriptions      one step per transaction of billing     SubscriptionsProofs
    Team               shops, members, roles, invites          TeamProofs
    Gallery            photos: rows and files                  GalleryProofs
    Templates          schemas and products made from them     TemplatesProofs
    Catalog            products and variants under a plan      CatalogProofs
    Waybills           documents at Nova Poshta, tracking

A module EXTENDS the one above it, `RateLimit` instantiates `WindowLimit`. Those of
the second group stand alone: what they read of each other's tables (the plan's limit,
which variants are reserved, whether a shop is served) is a small variable of its own
that moves at any time, which allows every behaviour of the component it stands for.
The `MC...` modules give the functions among the constants (opening stock, thresholds,
lengths of periods) and the symmetry for TLC.

### Inventory

State: `onHand`, `reserved` and `notified` per variant (the columns `on_hand`,
`reserved`, `low_stock_notified_at IS NOT NULL`), `resv`, the reservation rows,
and `journal`, the `StockMovement` rows as the running sum of their deltas per
variant and type. The journal splits `sale` rows by whether they carry a
`reservation_id`, as `api/finance.py` has to tell a direct sale from a
reservation's. A row keeps of `expires_at` whether it is set, and of `ttn`
whether it is filled in; an unused id is the row `Unused`.

One action per operation of the service, plus `ReleaseExpired` and `LowStockScan`,
the two jobs that change the same rows. Guards are the code's checks, in
particular where the code checks `available` and where `on_hand`, and where it
checks nothing: `ship()` and `release()` check the status only, and the expiry
job clamps `reserved` at 0 where `release()` does not.

`reserve`, `release` and `fulfill` act on a *set* of reservations, because the
service calls of an order run with `commit=False` in one transaction. The units
a set stands for are counted as the cardinality of a set of pairs
(`Units`, `QtyOn`) and not by a recursive sum, so that the same definition serves TLC
and the prover.

Names, prices, buyers, comments, the author of a movement and `sale_source` are
left out: no rule here depends on them. So is the tenant: one shop is modelled, and
every query of the code filters by `shop_id`.

### Orders

Adds `order`, the status of the order with a given idempotency key. `Place`
reserves every position or none, and for a known key does nothing (the code returns the
existing order). `Confirm` and `Cancel` act on the reservations still active,
possibly none: the shop may have handled some of them one by one meanwhile.
`ReserveManually` is the endpoint of `api/inventory.py`, and `StockStep` collects
the endpoints and jobs that know nothing of orders. `ImplementsInventory` is the
refinement: hide `order`, and every behaviour is one of `Inventory`. No mapping
is needed beyond dropping the variable.

### StockTx

The same requests in the steps between which others can get in. A session
(`tx[s]`) has a program counter, the reservations still to be processed, the
copies of rows it loaded (`vseen`, `rseen`), and what it changed and did not
commit yet (`wrote`, `done`, `units`); `lock` says who has which row.

The service calls are told apart by data, not by code: `Calls` gives for each one the
status it demands and sets, how the two counters move per unit, which counter is
checked, and the movement it writes. `LockReservation` is `_locked_reservation()`
and the check that follows, `LockVariant` is `_locked_variant()` and the check and
change that follow, `Commit` writes the changed columns with the values of the
*copy*. `ReadVariant` and `ReadReservation` are what a query returns to a session, the copy if
there is one; `Loaded` puts an object into its identity map. The request kinds differ in what they read before they lock:

| kind | code | reads before it locks |
|---|---|---|
| `api` | endpoints of `api/inventory.py` | nothing that survives |
| `place` | `create_website_order()` | each variant, for its price |
| `confirm`, `cancel` | `confirm_order()`, `cancel_order()` | the order's status, the list of its active reservations |
| `ttn` | `create_ttn()` | reservation and variant, then asks Nova Poshta |
| `np` | `np_tracking()` | all shipped reservations; it commits parcel by parcel and keeps them |
| `expire` | `release_expired_reservations()` | everything; it takes no lock before its flush |
| `scan` | `low_stock_scan()` | the variants; likewise |

`Kinds` selects those that take part in a run, `Solo` those of them that run only
while no other request does. `Abort` is the crash, lost connection or failing remote
call at any statement; the database undoes the transaction.

### Subscriptions

State: `sub`, the row of each shop (status, plan, provider, period, `auto_renew`,
`renewal_reminder_sent`); `left`, how much of its current period is left; `invoice`,
the transactions as the providers know them; `ledger`, those that have a row in
`payments`; `stars`, whether Telegram has a recurring Stars subscription;
`redeemed`, the promo redemptions.

`left` is `current_period_end - now`, and `Tick` takes one unit from it. The code
compares `current_period_end` with `now` and with `now` plus a constant only, and always
strictly, so that nothing is lost; -1 stands for every period that is over. This keeps
the state space finite without a bound on time.

| action | code |
|---|---|
| `StartTrial`, `BootstrapDies` | the end of `bootstrap_shop()`, and its crash after `seed_demo_catalog()` committed the shop |
| `PayInvoice`, `StarsRenews`, `StarsEnds` | the providers: a checkout is paid or declined, Telegram renews or ends |
| `Webhook` | the three handlers and `record_payment()`, first or repeated delivery (a repetition stutters) |
| `ChargeDue`, `ChargeDueDies` | the card job with any subset of the due cards approved, the others `mark_past_due()`; and its end without the only commit |
| `ExpireSubscriptions`, `SendReminders` | the two other jobs |
| `Cancel`, `Redeem` | `cancel_subscription()`, `redeem_promo()` |

A webhook of WayForPay is booked whatever its `transactionStatus` says, because the
handler does not read it; so an invoice that is `declined` can be booked.
`record_payment()` calls `_transition()`, which never refuses, as every status may
become active. Amounts, currencies, the card token, `is_comp` and `raw` are left out.

### Team

State: per shop whether it exists and has a subscription (`shop`), its roles (`role`),
its memberships with role and overrides (`member`), and the invites. A person opens at
most one shop, so a shop is named by that person. `req` is what a running request read
and is about to write: to open a shop, to join by an invite, to assign a role, to set
overrides, to delete a role. `Open` and `StartTrial` are the two commits of
`bootstrap_shop()`; `Die` may come between them, and `cut` remembers where it did.

`AssignCommit` and `PermitCommit` write the columns that differ from what the request
loaded (`Merged`), since SQLAlchemy sends only those. What meets a request that is
running: the removal of a member ends those that loaded its row (`Forget`), the deletion
of a role those that would write it into a membership (`Giving`); an assignment of the
role the member has already writes no `role_id`, and its cleared overrides are committed all the
same. The rights of a role are left out, no property depends on them; `newer` is a
history, the overrides that others wrote since an assignment loaded the membership.

### Catalog

State: `product` (numbered in the order of `created_at`), `variant`, which variants are
reserved (`held`) or named by an item of a website order (`ordered`), the `limit` in
force, and the requests in their two steps. `Frozen` is `frozen_product_ids()`: all live
products but the newest `max_products`. `PlanMoves` is a change of the subscription,
`StockMoves` the stock service.

No request of the catalogue takes a lock, and none waits in the model: what a request
has read may change before it writes. `overtaken` is a history of that: a sibling of the
variant to be deleted went (`sibling`), the variant was reserved (`reserved`), a variant of the
same product was written after the axes had been compared (`axes`), a product
came, or came back, or the plan moved, after the products had been counted (`room`). The properties name
these cases one by one, each allows only its own. No action reads `overtaken` or `free`.

### Gallery

A file, named by its random key, is in the store or not, and some row names it or none
does. Each upload is `Upload` (the checks), `Put` (the store), `Place` (the next
position, for products) and `Save` (the commit); a photo of a product is deleted from
the store first and from the database then, that of a variant the other way round. A
deletion in the store may fail unnoticed, any request may `Die` at any step, and an
insert for a product or variant deleted meanwhile is refused.

### Templates

A schema is a function from keys to fields; `field_schema` is two lists, and no key is
in both or twice (`validate_field_schema()`). `Keeps` is what a template with products
must keep when it is edited, `Fits` is `_validate_axis_values()`. A removal that commits ends
the requests that still need the row (`Using`). Requests overlap as they like: `overtaken`
holds those whose template changed, or got its first product, since they looked,
and `raced` the templates that one of them wrote to, or made a product from.

### RateLimit and WindowLimit

`WindowLimit` is the promise: it remembers every admission and admits another exactly if
the last `MaxRequests` do not all lie within `Window`. `RateLimit` is `hit()` with its
queue per key, emptied lazily from the front, and `reset()`. `admitted` and `refused`
record its answers; `KeepsPromise` says they are those of `WindowLimit`.

### Support

Extends `RateLimit`, as the bot limits the messages of a user with an instance of the
same class. `active` is the FSM state, `target` is `support_map`, and both are empty
after `Restart`; `banned` and `mutedUntil` are in the database. `chat` and `twin` are the
chat of the administrator at Telegram, which of its messages came from whom and which
two belong together: outside of the program, the yardstick for `target`. Which
handler takes an update is computed from the filters and the order of registration
(`Passes`, `Handlers`, `Takes`), and a handler stops at each message it sends (`task`).

### Waybills

The documents at Nova Poshta (`doc`), the status and number of each reservation, key and
sender of each shop, the requests for a document, and the cycle of `np_tracking()`: shops
one after the other, for each a listing (`by_ttn`, one reservation for each number), an
answer, and one step per result. Keys of `GoodKeys` are accepted by Nova Poshta, those
of other shops were once, so their answers are refused.

## What the model takes from the environment

* **PostgreSQL, READ COMMITTED.** A plain `SELECT` sees committed rows. A
  `SELECT ... FOR UPDATE` and an `UPDATE` wait for the row's lock and hold it to the end
  of the transaction. An `INSERT` of a key another transaction has inserted waits for
  that transaction. A circle of waiting sessions is broken by aborting one. (SQLite,
  the development default, runs one writer at a time and is not modelled.)
* **SQLAlchemy's identity map.** A session keeps one object per row for as long as
  the program refers to it (the map is weak). A second `SELECT` of the row, with
  `FOR UPDATE` too, returns the object as loaded before unless
  `populate_existing` is given, and the code never gives it. The copy that
  `_enforce_variant_product_writable()` loads dies when the function returns, so the
  endpoints do read fresh; the variant in a local variable of
  `create_website_order()` does not. `expire_on_commit=False` keeps copies
  across commits.
* **The flush** writes only changed columns, as absolute values, variants
  before reservations.
* **Clock.** Deadlines are a flag: any reservation that has one may be overdue by the
  time the job runs.

* **Providers of payments.** They deliver a webhook any time after the transaction and
  any number of times, in any order. WayForPay wants a signed answer and otherwise
  repeats it (`billing/providers.py:184-187`). For a charge by token
  (`charge_recurring()`) the answer to the request is all there is: its
  `orderReference` is no `ref`, so a webhook of it would be ignored.

* **Nova Poshta, Telegram, the object store.** Any call may fail, also after it had
  its effect. Nova Poshta's statuses are final (`picked`, `returned`), and documents it was not
  asked to make have no status.
* **Death of a process** between any two steps of a request; what is in memory (the
  limiter, the FSM, `support_map`) is lost at a restart.

All of these are modelled from how `src/app` uses them, and marked external in
`PROJECT.json`.

## Runs

| run | asks | result |
|---|---|---|
| `orders` | The stock service and the orders above it, in any order: do counters, reservations and journal agree, are orders settled once and completely, and do they implement Inventory? | 648 k states, holds |
| `tx_api` | Split into statements, do concurrent endpoint calls still have the effect of one-step transactions? | 1.2 M states, holds |
| `tx_orders` | Concurrent place, confirm and cancel: what survives the stale copies, and does every request end? | 15 k states, holds |
| `subscriptions` | Payments, codes, cancellation and jobs in any order: is every paid day counted once, does nobody expire early, does who stops renewing expire, is what was paid booked? | 84 k states, holds |
| `team` | First requests, invites, roles and overrides, two requests at a time: one owner, roles that exist, entry by invite, no old overrides under a new role, a trial for each shop? | 103 k states, holds |
| `catalog` | Requests that count before they write, under a plan that changes: what do freezing, the limit, deletion and the comparison of axes guarantee when requests overlap? | 655 k states, holds |
| `gallery` | Two stores without a common transaction: does a row have its file, and how far is the limit of photos exceeded? | 253 k states, holds |
| `templates` | Schemas edited and removed next to products made from them: are the products still described? | 197 k states, holds |
| `support` | Two updates at a time, failing sends, a restart: does a reply reach the author, and does the limiter do what it promises? | 237 k states, holds |
| `waybills` | Is every delivered parcel settled in the end, with shared numbers, refused keys and cycles that die? | 128 k states, holds |
| `tx_oversell`, `sub_grace` | one claim each of the roadmap and of a docstring | violated, see [findings](#findings) |

Bounds, and why they are enough:

* `orders`: two orders and the shop itself compete for one variant of three units, of which one is
  earmarked without a reservation (the demo seed makes such rows). Reservations of
  one or two units meet every guard at its edge; three of them let one be
  shipped, one active and one settled together, and let an order hold two positions.
  `MaxRestock` bounds the only action that adds units from outside; one unit reopens
  every guard that compares with stock. No action reads two variants; that orders over
  several variants keep the counters of each is proved (`OrdersImplementInventory`), and
  `Inventory_safety.cfg` checks the stock service alone with two.
* `tx_*`: two sessions and two reservations. A stale copy needs a reader and one
  writer; no property here needs a third session. `tx_api` takes one unit of stock,
  so that every check of a counter is at its edge. The id of a
  reservation whose transaction was rolled back is used again (PostgreSQL would
  skip it), so that a bounded set of ids lasts; restocks are limited in number and made one at a time,
  so that the bound on them means the same in `StockTx` and `Inventory`. `tx_orders`
  uses one variant. Two orders over two variants in opposite order can
  wait for each other as well; that variant of the run (two variants, four
  reservations, 147 k states) ends every request too and is not kept.
* `subscriptions`: one shop, since no operation of one shop reads another's row, two
  transactions and one code of each kind. Two transactions are a checkout and the charge
  that follows, or two checkouts whose webhooks overtake each other. A month is three units and a year
  four, the trial and the grace two; the card job acts in the last unit and the reminder in
  the last two, so that every comparison can go either way. The same
  properties held with three transactions (847 k states), and with two shops
  and one code (1.4 M), in runs too long to keep. `sub_grace` has two shops and one transaction.
* `team`: one shop with an owner and one other person, one invite, one right, one role
  besides the two of the system: rights are independent of each other, and so
  are persons other than the owner. Two sessions let one request change what the other has read.
* `catalog`: two products, one of them of the demo catalogue, three variants and two values of the
  axes; a plan for one product and one for any number, so that a product freezes and thaws
  while it is edited. A third product would only be frozen twice over. `MaxOrdered = 1`
  lets one variant at a time be named by orders, which refuses its deletion; two
  sessions suffice for one request to overtake another.
* `gallery`: one product, one variant, four files and a limit of two: two uploads that
  both saw room, a replaced photo of the variant, and deletions in between.
* `templates`: one template of two keys with one value, one product: each request
  reads one template and writes one product, and two sessions overtake each other. The
  options of an enum are looked at by `Fits` alone, and no property depends on them, so that one
  value does; fitting and unfitting requests differ in their keys.
* `support`: a user and the administrator, who may write to the bot as a user too; three
  messages in the administrator's chat, a pair and the beginning of another.
  `Window = 0` still tells an edge from its outside; `RateLimit` alone was run with
  two attempts per window of two ticks (22 k states), and the general case is proved.
* `waybills`: two parcels of one shop, one of a shop whose key is refused, one document, so that two
  reservations share its number whenever both carry one.

`CHECK_DEADLOCK FALSE` appears where the bounded ids are used up and the requests of
the run come to an end: in `tx_orders` and `tx_oversell` every order can be decided and no
id is left; in `team`, `catalog`, `gallery`, `templates` and `support` no person, variant, file,
product or message is left to come; in `waybills` a shop without a key whose parcels are all settled
has nothing to do.

**Fairness.** In `tx_orders`, `SF(Step(s))`: PostgreSQL
queues the sessions that wait for a row, so one whose lock becomes free
again and again is served. `WF(Victim(s))`: its deadlock detector runs. Nothing is
assumed about requests arriving, about crashes, or about how remote services answer
(no remote service takes part in that run). In `subscriptions` and
`sub_grace`: time passes, the daily expiry job runs (`scheduler.py` restarts it every
24 hours), and a provider repeats a webhook until it is accepted. Nothing is assumed of
owners, banks and Telegram's renewals, nor of the card job. In `team`: a request that
runs goes on (`WF(Finish(n))`), and may die instead. In `waybills`: the job is started
every ten minutes (`WF(StartCycle)`), and no step of it is prevented every time
although each may fail any number of times (`SF` of the listing, of the answer
to a key that is good, of the refusal of one that is not, and of each result); a key may be refused
forever, and of which shop comes next nothing is said.

Each property has a mutant in `PROJECT.json`: an operation with one check, lock
or line lost (the definitions marked "Slip" in the modules), which the property catches.

**Beside the runs** are nine configurations that were checked and are kept for whoever changes the code:
`Inventory_safety.cfg` (the stock service alone with two variants, 1.2 M states) and
`StockTx_jobs.cfg` (the expiry job and the endpoints lock in opposite order; every
request ends, 25 k states) hold; `Inventory_lowstock.cfg`, `StockTx_decided.cfg`,
`StockTx_np.cfg`, `StockTx_expire.cfg`, `Catalog_last.cfg`, `Catalog_reserved.cfg` and
`Team_overrides.cfg` end with the counterexamples told under findings. The last three are the
unconditional forms of `KeepsAVariant`, `EarmarksKept` and `OnlyNewOverridesSurvive`.

## Proofs

Each module of proofs holds for all values of the constants that satisfy the named assumptions
of the module it extends. What they have in common: an inductive
invariant that strengthens the one a run checks, a lemma for each action or for each
part it can disturb, and the theorems at the end. Where a property speaks of what a request read and writes
later, the invariant says of every running request what is still true of it.

### Stock and orders

`StockProofs` holds for all constants that satisfy the named
assumptions of `Inventory`: finite sets of variants and reservations, "no variant"
and "no order" outside of them, opening earmarks that do not exceed opening stock.

| theorem | says |
|---|---|
| `TypeCorrect` | types, the reservation rows included |
| `NeverOversold` | `0 <= reserved <= on_hand` |
| `EarmarksAddUp` | `reserved` is the opening earmark plus the units of active reservations |
| `StockAddsUp` | shelf plus transit is what the journal accounts for |
| `SalesAddUp` | sale movements of reservations are the fulfilled reservations |
| `FulfillNeverRefused` | the check `on_hand < qty` in `fulfill()` never fires |
| `SettlementIsFinal` | fulfilled and released reservations never change |
| `OrdersImplementInventory` | `OrderSpec => Spec`, so all of the above hold with orders |
| `OrdersNeverOversell` | the first of them, spelled out |
| `KeyBuysOnce` | once an order exists, its set of reservations is fixed |
| `OrdersTyped` | types, the status of the orders included |
| `DecidedHoldsNothing` | a fulfilled or canceled order has no active reservation |

The argument. None of the safety invariants is inductive alone: `release()` checks no
counter, so `0 <= reserved` follows only if `reserved` is known to be the
sum over active reservations; `fulfill()` needs that sum to be at most
`on_hand`, and `ship()` moves both. The inductive invariant is `Balanced`: for each
variant the equations of earmark, stock and sales together with
`reserved <= on_hand`. It is preserved per variant, by arithmetic, once it is
known what an action does to the *counts*. Two lemmas say that: moving a set
from one status to another moves exactly its units (`RelabelCounts`), and
handing out new rows adds theirs (`AddsCounts`); both come from one fact, that the
units of two disjoint sets add up (`QtySplit`, from the cardinality of a disjoint
union). Then there is one lemma per action. `ReleaseExpired` shows in
passing that its clamp at 0 never acts.

`OrdersImplementInventory` is a step simulation: each action of `Orders` is an
action of `Inventory` or leaves its variables alone. `KeyBuysOnce` needs the
lemma `RowOwners`: a reservation gets its order in the step that creates both.
`DecidedHoldsNothing` follows from three facts: a decision takes everything the order holds at that
moment (`DecisionTakesAll`), no other step makes a reservation active again
(`ActiveBefore`), and only an order that does not exist yet gets reservations (`RowOwners`).

### Transactions, statement by statement

`StockTxProofs` holds for any sessions, too. The first three theorems hold for
any `Kinds` and `Solo`, whatever overlaps; the others if `OnlyApiOverlaps`, which says that the
kinds besides `api` are in `Solo`.

| theorem | says | if other kinds run alone |
|---|---|---|
| `TxTyped` | types of rows, counters, locks and sessions | |
| `TxKeyBuysOnce` | once an order exists, its set of reservations is fixed | |
| `TxDecidedHoldsNothing` | a fulfilled or canceled order has no active reservation | |
| `TxSerializable` | `TxSafe => Serializable`: the behaviours are those of `Orders` | yes |
| `TxStockAddsUp` | `NeverOversold`, `EarmarksAddUp`, `StockAddsUp`, `SalesAddUp` and `FulfillNeverRefused` hold between any two statements | yes |
| `TxSettlementIsFinal` | fulfilled and released reservations never change | yes |

The condition is the boundary the findings draw: each of the other kinds reads rows before it
locks them, and `Serializable` is false of it next to others. `StockTx_api.cfg` meets the
condition. The endpoints are what runs next to each other all day, and they
may die at any statement.

`TxInv`, the invariant of the first part, says where a request of each kind may be and
in which call (`Programmed`), that the rows it works on exist, or do not yet if it makes them
(`RowsKnown`), and what the lock on the order's key protects: until a placement commits, its order
does not exist, and no other session makes the same rows (`OrderKnown`, `RowsApart`). It
also says that a decision has listed every reservation the order holds: only a placement adds
one, and the order was there before. Hence a decided order holds nothing, even if two decisions
overlap.

`SerialInv`, that of the second part, says what the copies of a session are worth. A
copy of a variant is the stored row with the call applied for the units the session took so far
(`CopiesDue`), and these are the units of the reservations it is done with (`UnitsDue`). The check on
a counter, made unit by unit, holds for all of them and of the row as it is stored now (`Checked`).
That stays true because an endpoint has the lock of every row it holds a copy of
(`Owned`), and every other kind the database to itself (`Solos`). So a commit, which writes
columns of the copies, takes each row from its stored value to the value after the call, for all
units together. That is one action of `Orders`, by a lemma for each request
(`CommitSimulates`); every other statement leaves the database alone. That calls on
one variant in a row come to one call for all their units is `AfterAdds`.
`SerialInv` was an invariant of `tx_api` before it was proved (1.2 M states).
With the refinement of `Inventory` by `Orders` everything proved of the stock service
carries over.

### Limiter and dialogue

`SupportProofs` holds for every set of keys, every limit of at least one and every
window, and for any users, messages and updates handled at a time.

| theorem | says |
|---|---|
| `NeverDenser` | `AtMostPerWindow`: any `MaxRequests + 1` admissions in a row span more than `Window` |
| `LimiterKeepsPromise` | `RateSpec => KeepsPromise`: the lazily emptied queue answers like the full history |
| `DialogueImplementsLimiter` | `SupportSpec => RateSpec`, and so both of the above hold of the dialogue (`SupportNeverDenser`, `SupportKeepsPromise`) |
| `SupportTyped` | types of the dialogue |
| `AnswersReachAuthors` | what the administrator replies to leads to its author or to nobody |
| `CommandsAreTaken` | no command of the administrator is sent to a user |

For the limiter the history is what makes the argument inductive: the queue is the end of
the list of admissions, everything before that end is older than the window, and
the list is ordered and spread (`RateInv`). Then the queue is full after
the expired entries left it exactly if the history has `MaxRequests` entries within the window
(`FullAlike`), and a step of `hit()` is an `Admit` or a `Refuse` of the promise.

In the dialogue, a message in the chat of the administrator and the context line above it are stored
one after the other, with a failing send or a restart in between. The invariant says that
`target` never names anyone but the author (`Pairs`), that a context line without its
copy belongs to one handler only (`Alone`), and that a handler which is answering or closing
has the author of the message replied to (`Meant`). `CommandsAreTaken`
comes from the order of registration alone: the handler of replies is the eleventh
(`CommandsComeFirst`).

### Subscriptions

For any shops, plans and codes, any lengths of trial, grace and periods, and any number of
transactions; of the lengths only that cards are not charged earlier than the grace is long.

| theorem | says |
|---|---|
| `SubscriptionsTyped` | types; the ledger has rows of transactions that exist |
| `OnlyOpenOnesRenew` | `auto_renew` is on only for a paid plan of a renewing provider, neither canceled nor expired |
| `PaidTimeIsServed` | nobody is expired with time left |
| `EveryDayAccounted` | time grows by what new payments and redemptions grant, by the trial or by the grace |

`SubInv` (types and the two invariants) is inductive as it stands. `EveryDayAccounted` counts units
again: a step that adds no row of a shop grants nothing to it
(`NothingGranted`), a row adds its period (`PeriodGranted`), a code its days
(`CodeGranted`). The card job books several shops in one step, in an order that
`SetToSeq` chooses; `Numbering` shows that it names each of them once.
That a refused card takes no time away needs `ChargeAhead <= GraceLen`.

### Shops and teams

For any people, shops, roles and invites, and any number of requests at a time.

| theorem | says |
|---|---|
| `TeamTyped` | types, what running requests hold included |
| `OneOwnerEach` | a shop has exactly one owner |
| `RolesAreThere` | every membership names a role of its shop |
| `GuestsAreInvited` | one joins by an invite that was good when the request began |
| `AssignmentClears` | who gets another role keeps no override but those written since the assignment loaded the membership |

`TeamInv` adds to `OneOwner` and `RolesResolve` that invites and members belong to
shops that exist (`Opened`, `Staffed`), and for each request what the database guarantees
of the rows it holds (`Holding`): the role it is about to write is still there, since the deletion of a
role ends the requests that would, and so is the member; an invite was good
when the request began, because revoking it puts the request into `late`.

### Photos

For any products, variants, files, limit and number of requests at a time.

| theorem | says |
|---|---|
| `Typed` | types, and the positions in use have an upper bound |
| `PicturesStay` | a row lacks its file only if somebody asked for its deletion |
| `UploadsComeLast` | a photo comes after those that were there when its upload began |
| `AlmostTheLimit` | the limit is exceeded by the uploads in flight at most |

`Linked` strengthens the first for requests between the store and the database. For the order,
`Unclaimed` says that the random key of an upload is nobody else's, and `Ordered` that the position it chose is
still after those photos; that a next position exists is `NextIsLast`, from `Bounded` and the
well-foundedness of the natural numbers. For the limit, `Room` counts photos and uploads
of a product together: a save moves one from the uploads to the photos, and a deletion only takes away.

### Catalogue

For any products, variants, limits, values of the axes and number of requests at a time, which overlap
as they like.

| theorem | says |
|---|---|
| `CatalogTyped` | types; a variant belongs to a product that is there |
| `FrozenStaysSo` | no request changes a product that was frozen all the time it ran |
| `LastVariantStays` | the last variant of a product goes only by a deletion that counted a sibling deleted since |
| `ReservedStay` | a reserved variant goes only with the demo catalogue, or by a deletion that counted before the reservation |
| `LimitPassedOnlyLate` | a creation exceeds the plan only if its count was out of date |
| `OnlyCreationRepeats` | only a creation, or a comparison out of date, makes variants of equal axes |

`CatInv` says that the row a request is about to write is still there and still of the same product
(`Known`). On top of it each of the last four theorems has an invariant of its own: what a request
has found is true until it is overtaken. There is another variant (`OneMore`), no reservation
(`Unreserved`), room (`Roomy`), no sibling with these axes (`Unused`).
That a step which keeps the request unfinished is either its beginning or somebody
else's is `LooksOrGoesOn`.

### Templates

For any templates, products, fields and number of requests, which overlap as they like.

| theorem | says |
|---|---|
| `VariantsDescribed` | every variant is described by a template that is there, unless that one was raced |
| `FieldsAreKept` | products keep their template, and its fields their types, unless a request writes that was overtaken |

`Loaded` says that the rows a request works on are still there. `StillTrue` says what a request
that has read may rely on when it writes, until it is overtaken: a product being
made, on its template; an edit of a schema, on what the products need; a removal, on there being no
product. An edit of a variant relies on its fields as long as the template was not raced: an
edit of the schema keeps the fields of a template with products, if it looked in time.

### Only model-checked

`Waybills`, and the liveness properties `RequestsEnd`, `LapseExpires`, `PaidIsBooked`,
`TrialUnlessCut` and `DeliveredIsSettled`: liveness under fairness is out of reach of the
prover, and the only property of `Waybills` is one.

## Findings

The first two are runs that TLC ends with a counterexample, and quote the line of the
repository that says otherwise (`PROJECT.json`, "findings"); the others are the
counterexamples of the configurations beside the runs.

1. `tx_oversell`: two website orders at a time can promise the same last units. The
   variant read for its price shadows the row locked a moment later.
2. `sub_grace`: the grace period after a declined charge has no end. The card job tries
   again half a day before the three days are over, and another refusal starts them
   anew; the expiry job never finds the period over.
3. `Inventory_lowstock.cfg`: only `restock()` lowers the low-stock flag. After a release, an
   expiry or a returned parcel brings a variant back above its threshold, the next crossing
   is not pushed (`CrossingIsPushed`).
4. `StockTx_decided.cfg`: an order can be cancelled after it was confirmed: the status is
   read without a lock and not looked at again (`DecidedOnce`).
5. `StockTx_np.cfg`: parcel tracking books a second sale for a parcel marked as picked up by hand
   during the request to Nova Poshta. The `except InventoryError` meant for this is
   unreachable, because the job's own old copy of the reservation is still `shipped`;
   the test of that branch replaces `pick_up()` by a stub.
6. `StockTx_expire.cfg`: the expiry job releases a reservation sold after the job read it
   (`SettledForGood`).
7. `Catalog_last.cfg`: two deletions at a time take the last two variants of a product, though
   "Товар має лишити хоча б один варіант" (`catalog.py:421`, `AlwaysAVariant`).
8. `Catalog_reserved.cfg`: a reservation made after `delete_variant()` counted them goes with its
   variant, though "Зніміть резерви перед видаленням варіанта" (`catalog.py:430`, `AlwaysReserved`).
9. `Team_overrides.cfg`: an override written while a role is assigned survives the assignment, though
   the comment at `team.py:360-364` excludes it (`NoOverrideSurvives`).

The mechanism of the fifth is also that of `create_ttn()`, which waits for Nova Poshta with
the reservation in hand and then calls `ship()`: `StockTx` with
`Kinds = {"ttn", "api"}` and `Solo = {}` violates `SettledForGood` in the same way.

Seen while modelling `Subscriptions`, part of the model and with no claim in the repository that a
run could hold against them: a declined card payment is booked as paid (`Webhook`); cards charged by a
job that dies are not booked (`ChargeDueDies`); a shop whose bootstrap died pays and gets
nothing (`BootstrapDies`, excepted in `PaidIsBooked`); after a change from Stars to a
card, cancelling leaves the Stars subscription alive at Telegram (`Cancel`); a free
period redeemed in the trial makes the shop active without a plan.

Seen while modelling the other components, likewise without a claim that a run could hold
against them:

* `Catalog`: two edits, or an edit and an addition, at a time
  give two variants the same axes. Two creations at a time exceed the plan by one, and taking a product
  back from the archive asks no limit at all.
* `Templates`: {make, patch}, {make, remove} and {patch, patch} at a time leave
  products without fields they need: a product is made by a schema that is gone when it is there.
* `Gallery`: `TenAtMost` fails, as each upload in flight may add a photo beyond the
  limit; files whose rows were never committed, or went with the demo catalogue, stay in the store.
* `Team`: the role of the managers may be renamed, and then every invite of the shop is
  dead (`InvitesWork`; `bootstrap.py:87-93` looks the role up by its name). A shop
  whose bootstrap died before its trial has none, ever (`cut`).
* `Waybills`: a document whose `ship()` fails is known to nobody; of reservations with one
  number each cycle settles one.

The findings about `StockTx` do not contradict the proofs: `Inventory` and `Orders` take a transaction
for one step, and `TxSerializable` (on a small instance, `tx_api`) says for which requests that is
justified. The others are serial there (`Solo`), and each of them has a configuration that shows what
happens when it is not.

Two inexact docstrings met on the way, with no run of their own: `ship()` says
"сума on_hand+reserved не змінюється" (both counters fall), and the module
docstring says every operation writes a `StockMovement` (`ship()` and `update_ttn()`
write none; `StockConserved` is stated accordingly).

## What is not covered

* Of the modelled parts: the texts `np_status` and `np_recipient`, `OrderItem` rows,
  the outgoing webhook, the Telegram messages, the batches of 100 numbers in `np_tracking()`;
  prices, names, categories and SKUs of the catalogue; the choice
  among several shops of one person (`X-Shop-Id`) and the migration of old roles in
  `bootstrap.py`; the promo commands of the bot.
* Overlapping transactions of billing: two deliveries of one webhook at a time, `used_count`
  against its limit, a cancellation during the card job.
* Whether a push to the owner is repeated or lost (`low_stock_scan()`, the reminders).
* Authentication (stateless), finance (reads), the public
  catalogue (reads), the scheduler (it only starts the jobs), the frontend.

## Plan

In this order; each module gets its runs, mutants and, where stated, proofs.

1. `BillingTx`: the transactions of `Subscriptions` that overlap.
2. The migration of old roles (`bootstrap.py`), next to assignments.
3. The composition of `Catalog` with `StockTx`: a deletion of a variant next to the
   reservations on it, statement by statement.
4. Invariants of `StockTx` for the other kinds next to the endpoints: what remains true of the
   counters when stale copies are written.
