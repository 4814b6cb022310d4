# Formal models of stealth-backend

TLA+ models of the back end of a flower and gift marketplace: one NestJS (Node)
process, PostgreSQL through Prisma, Redis, an S3 store, Telegram bots, push and
mail. Customers buy from several sellers in one checkout; sellers and
administrators run the orders, the catalogue and the prices.

Paths are written as in the repository below `src/` (`src/orders/...` is
`src/src/orders/...` from the root of the workspace).

Contents: [1 Inventory](#1-inventory), [2 What is hard here](#2-what-is-hard-here),
[3 Modules and how they correspond to the code](#3-modules),
[4 Runs](#4-runs), [5 Fairness](#5-fairness), [6 Proofs](#6-proofs),
[7 Disagreements found](#7-disagreements-found),
[8 What is not modelled](#8-what-is-not-modelled), [9 Plan](#9-plan).

## 1 Inventory

State is rows in PostgreSQL unless said otherwise. "Correct when" says what the
component's properties are or will be.

| Component | State | Operations | Talks to | Correct when |
|---|---|---|---|---|
| Order statuses (`orders/order-status.ts`) | none | transition map, terminal test, derivation of the group status | used by everything in `orders` | agrees with the SQL backfill; a group never falls back |
| Order groups (`orders/orders.service.ts` 388-741) | `orders`, `order_groups` and their histories | changeStatus, changeGroupStatus, cancelMyGroup, applyStatusTx, restock | stock of listings, notifier, cache | group status = derived status; histories tell what happened; items go back once; all orders of a cascade or none |
| Checkout (`orders.service.ts` 100-382) | `listings.stock`, `cart_items`, orders | createFromCart | cart, pricing snapshots, cache, notifier, profile phone | no oversell; whole cart or nothing; one order per seller |
| Cart (`cart/cart.service.ts`) | `cart_items` | addItem, updateQuantity, removeItem, clearCart | listings | quantity within what the listing offers at the time |
| Order notifications (`orders/order-notifier.service.ts`) | `notifications` | orderCreated, groupStatusChanged, cancelledByCustomer, the cards and their buttons | Telegram, push, feed | told only what happened; an order's card reaches its team, all of it and nobody else; a button works on a card of any age |
| What is shown of an order or a listing (`orders/order.response.ts`, `listings`, `promotions`, `metrics`) | none | customer's, seller's and platform's answers, sums | - | nobody reads off what is not his; sums agree |
| Storefront cache (`cache/cache.service.ts`) | Redis: version, entries | wrap, bump | every storefront read, every service that writes for it | no answer older than a finished write |
| Platform settings (`settings/settings.service.ts`) | one row | get, update, quote | cache | quote non-negative, free from a threshold |
| Price engine (`pricing/price-engine.ts`, `business-day.ts`) | none | base markup, own markup, promotions, rounding | pricing service | resolves to what its priorities say, never below cost |
| Pricing (`pricing/pricing.service.ts`, `pricing.scheduler.ts`) | listing prices, settings, tiers, priorities | recalculate, setters, tick | listings, promotions, cache | a price is the one resolved from the present inputs, eventually |
| Promotions (`promotions/promotions.service.ts`) | `promotions`, items | create, update, remove | pricing | `onPromo` iff `promotionId` iff `oldPrice` |
| Listings (`listings/listings.service.ts`) | `listings`, variants | create, update, remove, storefront queries | catalogue, pricing, media, cache | one listing per variant of a seller |
| Users (`users/users.service.ts`) | `users` | find or create, profile, locale, deleteAccount | orders, tokens, push | a deleted account has no active orders, no contacts, no sessions |
| Token sessions (`auth/auth.service.ts`, `strategies/jwt.strategy.ts`) | `refresh_tokens` | issue, refresh, revoke | users | a refresh token is spent once |
| E-mail login (`auth/email-auth.service.ts`) | `email_auth_sessions` | create, verify, verifyLink, claim | mail, users, tokens | at most N guesses, one claim |
| Telegram login and staff link (`telegram/telegram-auth`, `telegram-link`) | login and link sessions | create, confirm, poll, linkSeller, unlink | bots, users, tokens | one nonce, one account; an invitation that was used is over |
| Notification feed (`notifications/notifications.service.ts`) | `notifications` with a sequence | emit, page, markRead | push, clients that poll | a client that follows the cursor misses only what committed behind a later number |
| Push tokens (`push/`) | `push_tokens` | register, unregister, send, receipts | Expo | one installation on a device; only dead tokens are dropped |
| Broadcasts (`broadcasts/broadcasts.service.ts`) | `broadcasts`, feed rows | create, deliver, fail at a restart | Telegram, push, feed | every recipient gets a row, nobody a message twice; the counters add up; it ends |
| Media (`storage/media-processing`, `media-gallery`) | media rows, files | enqueue, process, resume, add, remove, reorder | S3, ffmpeg | what is shown exists; no file is forgotten; every video is finished or given up |
| Categories and catalogue (`categories/`, `catalog/`) | category tree, items | create, update, review | listings | two levels; what is for sale hangs on what is approved, and is found where the screens look |
| Sellers and staff (`sellers/`) | `sellers`, staff | create, update, hire, fire, invite | Telegram link | a seller keeps its owner, who is of its team |
| Favorites, addresses, countries, feed page, metrics | single rows | one statement each | - | - |
| App versions (`app-version/`) | `app_versions` | check, update | - | nobody is told to update to what would not let him in |
| Bot, mail, object storage | external services | send | - | pure input and output |
| HTTP surface (`admin/`, `mobile/`, `main.ts`) | none | routing, guards, validation | all services | - |

## 2 What is hard here

There is one process, so between two `await`s a handler is atomic, and every
`await` is a point where another request, a scheduler tick or a queue job runs.
Most services read and check first and write in a transaction later. The
transactions run at PostgreSQL's default, READ COMMITTED: a statement sees what
is committed when it starts, an UPDATE waits for the row and then looks at the
row again. What protects an invariant is therefore a condition in the statement
that writes (the decrement of the stock), never the check before it. The rest of
the difficulty is effects outside the database (Redis, Telegram, files) around a
commit, in a process that may die in between. Every such place is listed, with its
line and with the properties that watch it, under `hazards` in `PROJECT.json`.

## 3 Modules

```
MCRules                                 the rules that are functions, checked together
  ├─ OrderRules                         orders of a checkout that move, and the card's buttons
  ├─ PriceRules                         a question to the engine whose cost rises; the panel
  ├─ AppVersions                        versions published, and which installation must update
  └─ Views                              what customer, seller and platform are shown
OrderStatus                             the order statuses, as pure rules
  ├─ OrderLifecycle                     what the order module promises (abstract)
  └─ OrderGroups ── MCOrderGroups       the requests, statement by statement;
       └─ OrderGroups_proofs            implements OrderLifecycle when serial; OrderRules
Shop                                    what checkout promises (abstract)
Checkout ── MCCheckout                  carts, checkout, restock; implements Shop
  └─ Checkout_proofs
Cache ── MCCache                        wrap and bump
Accounts ── MCAccounts                  users, tokens, login sessions, deletion
  └─ Accounts_proofs                    and AppVersions
PriceEngine                             how a price is resolved, a pure function
  └─ Pricing ── MCPricing               who writes prices, and when
       └─ Pricing_proofs                and PriceRules
Messages ── MCMessages                  feed, push, broadcasts
  └─ Messages_proofs
Team ── MCTeam                          staff, invitations, cards, the seller's bot
  └─ Team_proofs
Catalog ── MCCatalog                    categories, items, listings, their review
  └─ Catalog_proofs
Media ── MCMedia                        files and the rows that name them
  └─ Stores_proofs                      Media and Cache: the two stores outside the database
```

**Form shared by the models.** `Handlers` are the requests being served at one
time. `pc[h]` is the await at which request `h` stands, `req[h]` what it was asked
and has read so far, `tx[h]` the writes of its open transaction. Each action is the
code from one await to the next. A statement inside a transaction reads the committed
tables plus `tx[h]`, a commit applies `tx[h]`, and a row that another `tx[k]` has
written is locked: the statement is not enabled, and the request may give up
(`GiveUp`: deadlock detection or Prisma's transaction time limit). `Fail` is any
query that throws, or the process dying: the transaction is gone, what was to
follow the commit does not happen. Operators marked *Slip* are the mistakes the
runs are tested against (each property is broken by one); nothing else uses them.

**OrderStatus** translates `order-status.ts`. The derivation takes the *set* of the
statuses present because the code asks only `every` and `includes` of its array.
`BackfillStatus` is the SQL of the migration `20260813120000_add_order_groups`,
which the comment in the source says has the same rules.

**OrderGroups** is one group with its orders. `ReadOrder`/`ReadGroupBefore`,
`ReadGroup`/`ReadOrders`/`Refuse` are the reads and refusals before the transaction
of changeStatus, and of changeGroupStatus and cancelMyGroup; `Restock`,
`UpdateOrder`, `ReadSiblings`, `ReadCurrentGroup`, `UpdateGroup` are the five
statements of applyStatusTx, run for each order of `req[h].plan`; `Commit`; then
`Reread`, `TellSellers`, `Notify`. `returned` counts how often an order's items
went back to the stock, `feed` the customer's notification rows, `told` the
messages to sellers. Texts, couriers and prices are left out.

**OrderLifecycle** is the promise: a set of orders moves together along the map,
the group has the derived status, a cancellation returns the items once.

**Checkout** has the committed stock, status of listings, carts and groups.
createFromCart is `ReadCart`, `CheckListings`, then in the transaction `Claim` (the
conditional decrement, seller by seller; which seller comes first, and a seller's
items, follow the order of the cart rows, which is left open), `TakenDuringCheckout`
(the decrement matched no row: rollback), `ClearCart`, `CommitCheckout`. The cart's
handlers are their read and their write. `EditListing` is a seller's PATCH, and
`ReadOrder`, `Restock`, `UpdateOrder`, `CommitCancel` the cancellation of one order
as far as it concerns the stock (statuses are in OrderGroups). `alone[h]` is a
history variable: no other request of the same customer has overlapped.

**Shop** is the promise: `Buy` (whole cart, covered by the stock, one order per
seller with exactly that seller's items), `Return`, `Edit`.

**Cache** is one key and one row behind it. `data` counts commits, so "older" is
"smaller". wrap is `Begin`, `GetVersion`, `Hit` or `Miss`, `Load`; the SET that
wrap does not wait for is in `inflight` until `Store` or `LoseStore`. A writing
service does `Commit` then `Bump`; `NoBump` is the INCR whose error bump swallows,
or a death in between. `Forget` is a restart of Redis without its memory. `floor`,
`finished`, `atBump` and `forgot` only record history for the properties.

**Accounts** puts four services on the tables they share, because what they can do to
each other is the point: `users`, `groups` (whose order, still active, contacts kept),
`tokens` (`refresh_tokens`), `codes` (`email_auth_sessions`), `links`
(`telegram_auth_sessions`). Rows are numbered and a deleted row stays as "gone", so that a
request which has read it can be told from one that names a row never written. `Login(h)`
and `Use(h)` accept a request, the second behind the guard of jwt.strategy.ts
(`Authenticated`); `Serve(h)` is one statement of one handler: findOrCreateByTelegram is
`Find`, `Create`, `Winner`; refreshTokens is `RefreshTokens`, `Rotate`, `IssueTokens`,
`PersistRefreshToken`; verify and verifyLink are `ReadCode`, then `Wrong` and `ShutCode`, or
`ClaimCode` and then `ResolveUser`, `Register`, or `WriteEmail`; the bot's confirm is `Find`
to `Bind`, poll is `Poll`, `ClaimLink`; createAndSend is `Store`, `Send`, `Withdraw`;
deleteAccount is `ReadAccount`, `CountActive`, `Erase`. Of createFromCart only the order that
must keep an account from being deleted is here, and the phone it brings
(`ReadProfile`, `WritePhone`). `crossed` and `contended` are history: which deletions and which
logins another request overlapped. Left out: passwords, the test account, names, locales, the
date an address was verified; staff links are in Team; the limit on codes per address may refuse at any
time (`Fail`).

**PriceEngine** translates `price-engine.ts`: the tiers with the floor a higher tier must not
fall under, the markup of the listing, rounding, the window of a promotion, the best
promotion, and the order of the sources. Money is a natural number; a loop with an
accumulator is the greatest of a set.

**Pricing** is who calls it. `listings` has the price columns, `promotions` and `items` the
promotions, `settings` the tiers, the rounding step and the priorities, and `cached` a
rounding step that Redis still answers after the row has changed (a cached value that is
right is not state: reading it is reading the row). recalculate is `Recalculate`, `Read` (the
queries of its Promise.all, one at a time on the connection of a transaction and in any
order without one), `ReadPage`, `WritePrices` per chunk; who calls it decides what comes
before and after: create and update of a listing (`Insert`, `Edit`), checkout and cancellation
(`Stock`), a promotion (`InsertPromotion`, `WritePromotion` and `ReplaceItems`, `DropPromotion`) in
the transaction that `Commit` ends, the settings and priorities (`WriteTiers`,
`WriteSettings`, `SettingsBump`, `WriteOrder`) and the timer (`Tick`, `TransitionedScope`) outside of
one, with `Done` at the end. `NextDay` is the clock passing midnight, the only
moment at which a date of a promotion can matter, and `Restart` the process dying and
recalculating everything when it starts. Deleted rows stay as `Gone`, so that a request that
knows one can be told from one that names a row never written. Foreign keys are
guards: a statement that would break one is not enabled, and the request `Fail`s;
deleting a promotion sets `promotionId` to null. History only: `alone` (nothing that names a listing or
promotion of this request, or recalculates everything, has overlapped it), `lost` (a
bump failed) with `stale` (this request has read what it left), and `sound`, the listings
whose last recalculation was neither. Left out: search, stock, media, texts, the storefront's
cache entries (Cache) and the snapshot of a price in an order.

**OrderRules** is a checkout of at most `MaxOrders` orders that move along the map, and the platform's
card of it: `Change` is one order's step, `Press` a button of a card (`Buttons`), which
may be old, through changeGroupStatus (`ToMove`, `Accepted`, `Cascade`) to a card drawn anew.

**PriceRules** is one question to the engine whose cost rises (`RaiseCost`), with the promotions of which
loadPromotions makes the candidates (`CandidatesOf`), and what the panel shows of them (`PromotionState`,
`InState`, `AdminPromotionDetail`). That a period is not reversed is an assumption on the questions
(`PeriodsAssumption`), because the service has let it slip (section 7).

**Views** is the read side: the answers `order.response.ts` makes of one stored group for the
customer, a seller and the platform (`OrderGroupResponse`, `FindOne`, `FindAll`), the cards of
`order-notifier.service.ts`, the sums of `metrics.service.ts`, and what storefront,
cart and panel show of a listing (`ListingDetail`, `CartListing`, `AdminListing`). A view is a function
of the rows; a field that nobody's property could tell apart (titles, pictures, addresses) is not there.

**AppVersions** is `compareVersions`, `check` and the update of one field of a platform's row (`Publish`), and
an installation of any version (`Install`): a version is a sequence of numbers or `Unparsable`.

**MCRules** puts the last four together: a behaviour is about one `subject` - orders, a price, an app -
and the others are at rest; `goods` are what the orders hold. The properties that compare what different
readers are shown are here, because they speak of orders and of prices.

**Messages** is what customers are told. A feed row takes its number in `Draw` and is seen after
`CommitRows`; `Poll` is the application's request with its cursor. `Clear` and `Upsert` register
an installation; `ReadTokens`, `Push`, `Receipt` are the push service, where Expo answers ok, gone or
refused for each message, or not at all; `TelegramOrder` and `Telegram` are the messages of an order and
of a broadcast, where an error may hide a message that was delivered. A broadcast is `CreateRow`, then
`ReadPage`, `Draw`, `CommitRows` page by page, `WriteCount`, and, after the answer, `DeliverPage`,
`Push`, `Telegram`, `WriteStats` page by page and `Finish`. `Page` is Prisma's cursor with
`skip: 1`: the first row from the cursor's id on is skipped, whoever it is. `Write` is unregister,
deleteAccount and a new account (`known`: an id is given once, so the account of a request
that registers somebody is nobody else's); `Restart` loses everything under way, and onModuleInit calls
what was SENDING FAILED. History: `sent`, `twice`, `dead`, `dropped`, `overtaken` (committed behind a later
number), `before` (there at the first poll), `hidden` (on no page), `lost` (the
last word of a broadcast was a failing query), `crossed` (two registrations overlapped).

**Team** is who works for a seller and what reaches their chats. `Manage`, `Member`, `Write` are the
routes of seller-staff.service.ts with their checks before the write; `Find`, `Occupant`, `Link` are
linkSeller, whose transaction writes the chat and `consumedAt`; `Recipients`, `BuildCard`,
`SendCard` are the cards, part by part and chat by chat, each of which may fail alone; `Resolve`,
`Answer` are the bot's buttons. `retired` holds the ids of accounts that were removed, which are not given again. `seen[h]` is history: the cards that were somebody's to have at some moment
of the request, and those that were at every moment.

**Catalog** has categories, items, countries and listings of the platform (`Super`) and of sellers.
`Arrive` accepts a request, `Read` reads the row it is about, `Check` is the checks of the services in their
order (a check sees the tables when it is made), `Write` the statement, whose foreign and unique keys are looked at
again. A request is `Sound`: what the DTO's validation lets through, which includes a null code, because `@IsOptional`
lets null pass. The queries of the screens are the operators `Roots`, `Children`, `PublicItems`, `Storefront`,
`OfCategory`, `SideBySide`, `Visible`, `ForSeller`. `alone`: no two requests have
overlapped yet.

**Media** has the gallery of a listing (`rows`), a category's icon and a seller's banner (`slots`) and the
bucket. An upload is `Count`, `ReadLast`, the put, and the row or `Undo`; a removal is `Find`, `DeleteRow`, with the
deletion of the file that nobody waits for as an action of its own (`Delete`); the job is
`StartJob`, `Transcode`, `UploadResults`, `FinishRow` or `Withdraw`, `FailRow`, `CleanSource`. `Restart` empties
the queue, and `Resume` enqueues what is still PROCESSING, by id. History: `leaked` are the files left behind by
an accident (a failing deletion, a restart, two uploads in one millisecond), `twice` the keys
that two uploads of one millisecond were given, `removed` the rows whose removal has begun, `broken` the pictures whose
replacement stopped half way, `stuck` the rows whose job could not even record its failure.

## 4 Runs

A property that is a conjunction of named parts (`OneAtATime`, `StepsOneAtATime`, `EachSeesItsOwn`,
`EndedStaysEnded`, `PricesHold`, `TreeStands`, `GalleryHolds`, `InstallationsHold`, `EachToldOnce`, `BroadcastsAddUp`,
`TeamsStand`) has each part defined, and explained, just before it. Where types are not proved (section 6) they are one
of the parts.

| Run | Instance | What it shows |
|---|---|---|
| `rules` | groups of at most 3 orders, every mix of statuses, goods with and without discounts; cards of any age; every cost up to a bound for five sets of tiers, two steps, three own markups, every set of six promotions, both orders of sources; versions published one field at a time, installations old, new and unparsable | the derivation equals the migration's CASE, and no allowed move takes a group back or out of a final status; a button of a card is refused only if the group has moved since; what a seller is shown does not depend on its neighbours or on retail prices, what a customer is shown does not depend on costs; panel, card, payouts and metrics add up to each other; a dearer listing is never cheaper in the storefront; a discount is real, the cheapest that is open, and forgone only when the code says so; panel, filter and engine agree on when a promotion runs; nobody is locked out by what is typed into the versions |
| `overlapping_requests` | 2 orders, 2 handlers, 3 requests | what survives every interleaving, failure and lock wait: an order's status, history, returned stock and messages agree; no step of the map is skipped; the group's status is derived from statuses the orders had; nobody is told what did not happen; every request ends although two may wait for each other |
| `one_request_at_a_time` | 2 orders, 1 handler, 8 requests | the requests, any of which may fail half way, implement OrderLifecycle, and what the comments say without qualification holds: derived status, one return, one feed row per change, terminal statuses stay, cascades are all or nothing |
| `items_returned_twice` | 2 handlers, 2 requests | finding, see 7 |
| `checkout_is_a_purchase` | 2 listings of 2 sellers, quantity and stock at most 1, 2 customers, 2 handlers, 3 requests | whatever overlaps, each commit is one purchase or one return of Shop; a checkout orders exactly the cart and empties it unless another request of that customer overlaps; two checkouts that lock listings in opposite order, or a checkout and a cancellation, end |
| `accounts` | 2 handlers, 3 requests or expiries, 1 address, 1 Telegram id, 2 attempts | a session gives tokens once however it is presented; wrong guesses are bounded by the limit and the requests at a time; a deletion nobody overlaps is final; a login has one good refresh token unless two requests use it at once |
| `prices` | 2 listings, 1 promotion, 2 handlers and the midnight job, 2 requests or restarts, 2 days, pages of 2, chunks of 1 | a listing whose last recalculation nobody overlapped has the price its present inputs say, also while other requests are under way, across midnights, failed bumps, rollbacks and restarts; a listing shown as discounted has a higher old price and a promotion it names exists, whatever overlaps |
| `cache_is_fresh` | 1 reader, 2 writers, 2 writes | no answer is older than a write finished when the request began, until Redis loses the version; when writing stops the cache catches up whatever was lost |
| `files_and_rows` | 2 requests, at most 2 media in the gallery, 1 failing call, 1 restart; seven mixes of requests and of what the gallery holds | what is shown exists; what is in the bucket is named by a row, in somebody's hands, or left by a named accident; places stay distinct one request at a time; every video is finished or given up |
| `catalogue` | 3 requests, 2 at a time, 2 sellers and the platform | the tree keeps two levels, its owners and its keys whatever overlaps; one at a time, what is for sale hangs on what is approved and is found on every screen that should show it |
| `messages` | 3 customers read 2 at a time and a fourth who may join, 4 installations, 1 broadcast, up to 3 requests, 2 failing calls, 1 restart | a client that polls misses only rows overtaken by a later number; nobody has a broadcast twice or without its row in the feed; its counters add up; only dead tokens are dropped; it does not stay SENDING |
| `team` | 3 sellers, 5 accounts, 4 chats, 2 invitations, up to 5 requests, 2 at a time, 1 failing call | a seller keeps its owner; an invitation that was used or has expired links nobody; a card or answer about an order reaches only chats that were its team's or the platform's during the request, and every chat that stayed one all along |

**Why the bounds are enough.** Two requests are what a race needs, and the third
meets what the race has left behind; a deadlock needs two. Two orders are the least
that can disagree with their group, and three orders (`rules`) the least in
which a third status hides between two. Two listings of two sellers are the least that two
checkouts can lock in opposite order and that one checkout splits into two orders (that several
listings of one seller are one order is in the proof of `CheckoutImplementsShop`, for any listings and
sellers); with quantity and stock 1 every pair of carts competes, and a claim that fails does so
after another has succeeded. One reader is enough for the cache because readers
meet only through entries, and an entry stored by an earlier wrap of the same reader
outlives it (the proof is for any number). For accounts, two requests race over what the
initial state holds ready (an account, a refresh token, codes with one guess left, a Telegram
session) and the third, or an expiry, meets the outcome; one address and one Telegram id make
every request compete for the same row. The instance with four requests (2.3 million
states) holds as well and is only too slow to keep. Eight serial requests take two orders from
NEW to the end of the map, one step of one order at a time. For prices, two listings are the least that
one promotion can move between, that make two chunks, and that have a markup of their own and
none; two requests overlap each other, the midnight job or a restart; the day before and the
day of a date are what its crossing distinguishes. The tiers and steps of `prices` are
one pair, because `rules` has the others. Messages, Team, Catalog and Media have more kinds of
requests than one instance can take in every combination: a behaviour is about one of the *mixes* of the
MC module, each of which puts together the requests that touch the same rows, with as many
failures and restarts as its question needs; what they do not do is meet requests of another mix, whose rows are
others. Three customers in pages of two are a full page and one that is not; a customer who is deleted and one who joins move
the boundary. One medium that is there and one that comes are what can share a place; a video and a photo differ in
everything else. Two sellers and the platform are the owners a row can have that are not one's own. `MaxRequests` and
`MaxWrites` bound only how many requests are accepted; deadlock checking is off
because the models stop when they are used up and all requests have ended.

Handlers (and readers, writers) are interchangeable; symmetry is used only in runs without liveness
properties. Where handlers are numbered, the first idle one takes a request, which comes to the same.

## 5 Fairness

`FairSpec` of OrderGroups and Checkout: weak fairness of `Serve(h)`, everything a
handler does by itself. The event loop resumes a handler whose query is answered; a
statement that waits for a row either gets it or is ended, by PostgreSQL's deadlock
detection or Prisma's limit on interactive transactions, which is `GiveUp` and part
of `Serve`. Clients owe nothing: no request has to be sent, and `Fail` need not
happen. Cache: readers and writers go on, a sent SET arrives or fails, and every
entry has an EX, so it expires. Accounts states no liveness and assumes no fairness: no
request of it waits for another, and every one ends in a few statements or fails. Pricing
states none either: that a price is right again at the latest after the next
recalculation is said as an invariant (`PricesAreResolved`). Messages and Media: the process goes on with what it has begun
(a handler's next step, the job's next step), which is all that `BroadcastEnds` and `VideosFinish` need; no client polls, no
failure and no restart has to happen. Catalog and Team state no liveness. Nothing else is fair; no strong fairness is used.

## 6 Proofs

Checked by TLAPS for every value of the constants (which need only what the `ASSUME`s
state: bounds are naturals, `Orders` is a finite non-empty set of numbers, `None` is
not a value of the data).

* **OrderGroups_proofs**, first the rules of `OrderStatus`. `DeriveIsTotal`: the throw at the end of
  deriveGroupStatus is unreachable for any non-empty group. `DeriveNeverRegresses`: any number of
  orders that move along the map together never take a group back, for groups of any size. Both rest on
  `FirstPresentIsLeast`, the loop over NON_TERMINAL_ORDER returns the least advanced. From them the properties of `rules` for
  checkouts of any size: `AgreesWithBackfill`, `OrdersNeverRegress` and `ButtonsDoWork` (a button is at most as far as the
  least advanced order can go in one step, whatever moved since the card was drawn).
  Then the requests, whatever overlaps: `TypeCorrect`, `NoStepSkipped`, `FeedInHistory`,
  `GroupStatusWitnessed`, `LedgersAlwaysAgree`, `AllOrNothingAlways`.
  None of the properties is inductive. The invariant adds what handlers remember:
  a transaction writes only orders of its plan, and only inside the transaction
  (`PlansAreSound`); the target of a plan is reachable from a status each of its orders
  has *had* (`PlansAreJustified` - not from the one it has: that is what overlapping
  requests break); what a handler knows of the group is in the history or among the
  rows it is about to add (`GroupValuesAreRecorded`); a status in a transaction is
  derived from statuses that were had, or are being given (`DerivedIsWitnessed`).
  Most actions only touch the handler's own entries; the `Frame` lemmas deal with those at
  once. `LedgersAlwaysAgree` counts lines of a history: the lemmas on `Count` are about one
  line appended, so that no induction is needed; a transaction returns the items of exactly the orders it
  cancels, and a seller who is still to be told is told of a return already counted.
  `AllOrNothingAlways` needs no condition on overlap, though the run checks it in the serial instance.
  With `OneHandler` (the requests do not overlap, the condition the code's comments take for granted):
  `OneAtATimeHolds`, `StepsOneAtATimeHold`, and `ImplementsTheLifecycle`, the refinement: the invariant says that the
  one open transaction has read what is still in the tables, and the abstract step is taken by `Commit`.
* **Checkout_proofs.** `TypeCorrect`, `ClaimsCovered` (stock, claims of open transactions
  and what open groups hold always add up to what was there), and
  `CheckoutImplementsShop`: every step of the transactions is a step of `Shop` or leaves
  the shop as it is. Its invariant (`RequestsAreSound`) says how far each transaction is: it has
  claimed only what its plan wants, and all of that before it clears the cart; a
  cancellation has read its order before it gives anything back, and has given all back before
  it writes the status. `QuietStep` is the frame lemma: a step that touches only the
  handler's own transaction keeps everybody else's part.
  `CheckoutsOrderTheCart` adds what a request that nobody of its customer overlaps knows (`AloneIsRight`): it is the customer's only
  one, and a checkout goes by the cart as it still is, of which it clears the very rows. Every cart belongs to one customer, so no other request's write can
  reach it (`OthersAreRight`); whoever arrives while it is under way takes it out of `alone`.
* **Stores_proofs.** The bucket and the cache, for any number of media, requests, failures, restarts, readers and writers.
  `TheGalleryHolds` and `NoFileIsForgotten` have one invariant, because a file may only be deleted once nothing
  names it. `Fits` says at which await a request stands with what in hand, which files a row names by what became of it, and
  that the one job works on a row that is PROCESSING or gone. Then who has what: an id that was given is no row's and no other
  request's yet (`IdsAreFresh`); the results of a video have never been sent off to be deleted before they are made (`ResultsAreNew`);
  a picture that was put and not written down is in the bucket and in nobody else's hands (`PicturesAreOwn`); two rows share
  no file but one of `twice` (`RowsShareNothing`) - so that a deletion cannot take what another row shows (`RowsAreShown`,
  `SlotsAreShown`). The other way round, for what must not be left behind: what a request sent off is deleted, under way or on record
  (`GoneIsGone`), the source it is about to enqueue is named by its row, or recorded (`EnqueuedIsHeld`), and every file of the bucket is in a
  row, in a deletion, in the job, in a request or on record (`FilesAreHeld`). `AloneIsRight` is for limit and order: a request
  that met no other finds room and the last place as it read them. `NextIsSorted` sorts the actions by what they may touch,
  into quiet ones and a dozen that are not, and each conjunct is shown of those.
  That the gallery can be put in order at all (`OrderExists`, by the number of elements before one) is there because the model chooses that order.
  `FreshAnswers`, and `CacheTypeCorrect`: no key is of a future version; an entry under the present
  version was read after the INCR that made the version; an entry under the version a
  reader goes by is new enough for that reader. All of it under `~forgot`.
* **Accounts_proofs.** `TypeCorrect`, `SessionsSpentOnce`, `GuessesBounded`, `EndedAlwaysStays`. A request that
  has claimed a session *holds* it until its tokens are stored: what is held is not open,
  is held by nobody else and has given no tokens (`HeldOnce`), which makes `SpentOnce`
  inductive; it rests on what a request knows at each await (`InHand`, `OneSession`). The
  count of guesses plus the guesses that are compared and not written yet stays below the
  limit plus the number of requests (`GuessesCovered`): a guess that is counted leaves the
  second summand as it enters the first. `StepSound` says once what a step must do to the tables to
  keep all this; each action then shows that much. `EndedAlwaysStays` is about accounts whose deletion nobody
  overlapped, and logins whose token no two requests used: a request that knows such an account (`Knows`) cannot be under
  way, so no write of one can bring anything back (`FinalKept`), and the good tokens of a login are a chain whose
  last link alone is good (`ChainKept`).
  `TheStoreLetsIn` is the property of `rules` about app versions, for versions of any length: `compareVersions` is an order (`EarlierIsTransitive`,
  `EarlierIsOneWay`: two versions differ first somewhere, which is a least number, and not an induction), and a minimum above the store's version is
  not taken.
* **Pricing_proofs**, first the engine. `ResolvedPrice`, for any tiers, step, order of sources and set of
  promotions: never below cost; a price is struck through iff a promotion is applied, and
  is the higher one; the promotion is open and the cheapest that is. It needs that the
  greatest of the floors exists (`FiniteHasBound`, `BoundedHasGreatest`: by least
  counterexample, the prover cannot instantiate induction), that the CHOOSE of the best
  promotion has something to choose (`BestIsOpen`), and that a regular price covers
  the cost (`RegularPriceCoversCost`). What Pricing needs of it besides is that a resolved price is one the schema
  can hold, and that promotions that cover nothing, or are not open, do not change it.
  From `ResolvedPrice` the properties of `rules`, for any question: `NoPromotionIsMissed` (that no earlier source is passed over is
  `NoSourceIsPassed`), `PanelIsRight`, where the row a promotion has priced is shown as its own, and `DearerIsNotCheaper`: each step of the
  calculation grows with the cost (`CeilDivGrows`, `ApplyBpsGrows`, `RoundUpGrows`), and where a dearer listing has entered a tier the
  cheaper one has not, that tier's floor is no less than what the cheaper one costs (`BaseMarkupGrows`, from
  `BaseMarkupIs`: the price is the tier's own or a floor).
  Then who writes prices: `PricesAreWhole` and `PricesAreRight`, from the assumptions on the tables at the beginning and on what
  validation lets through (`Ids`, `Bounds`, `Requests`, `BeginningsAssumption`). The invariant has three layers, `Transacted`, `Disjoint` and `Prices`, each needed
  because of what lies between a read and a write.
  `Transacted` is about rows: the types, at which statement a request stands and what it was asked (`Typed`); no member
  is left of a promotion that is gone (`NoMembersLeft`); every listing is whole (`ListingsWhole`); what an open transaction has written is
  of its own promotion or of the rows it is to price or mark (`Wrote`), so that a commit knows what it adds; and locks are exclusive, a promotion named by
  a row of the tables or of a transaction exists in the view of whoever wrote it, and nobody else is deleting it (`Fits`). `DiscountsAreWhole` follows from it.
  `Disjoint` is about requests: one that is alone is apart from every other, or nothing it touches is vouched for (`Overlaps`); and the cache holds an
  old rounding step only while a bump is due or after one was lost (`CacheIsRight`).
  `Prices` is about numbers: the day of the last recalculation is not in the future; while no change of settings, tiers or priorities is under way (`Quiet`), every listing
  vouched for has the price that some day since then resolves to; and what a recalculation that is alone has read - settings, promotions, rows - is what it
  would still read, and what it has not priced yet is on its list (`UpToDate`). Without the last part a price written late could not be compared with inputs read early.
  `NextIs` sorts the actions by what they may touch, so that each layer is shown of a dozen kinds of step and not of every request.
* **Team_proofs.** `TeamsStandAlways`: no step moves anybody to another team, takes up an id that was removed or reopens an
  invitation (`Kept`); so what a request has found, that the account is of the team (`MembersFound`) or the invitation open
  or not (`InvitationRead`), is true when it writes, or the account is gone and the statement matches no row.
  `CardsStay` and `TeamTold` share the invariant about what is left to send: it was read from the
  team while the request was under way, and whoever stayed in the team all along is told, left, or excused by a call that
  failed (`ToldInTime`).
* **Catalog_proofs.** `TreeStandsAlways`, whatever overlaps: a row once written is never of another kind (`RowsStay`: a category keeps
  its parent, so what a check found of its level stays true), a request has been given the answer to
  each check of its list (`RequestsFound`), and keys are looked at again by the statement (`Write`).
  `ReviewHoldsAlways` and `EverythingIsAlwaysFound` are under `alone`: then what the checks saw is
  what the write meets (`Answers`), and the lemmas show for each kind of request that its checks are enough.
* **Messages_proofs.** `InstallationsAlwaysHold`, `OnlyTheOvertakenAreMissed`, `EachIsToldOnce`, `BroadcastsAlwaysAddUp`, for any
  number of users, tokens, broadcasts, handlers, failures and restarts. The invariant has five parts. `Shape`: types, and
  that whoever a request, a row or a message is about has been met. `Numbers`: the numbers of the feed that a statement
  has taken and not committed are nobody else's, and a cursor is the number of a row that is there. `Devices`: while no two
  registrations have met, the one about to write has cleared all other rows of its device and token. `Threads` ties the
  handler that sends a broadcast to the table: while it is `Writing`, nothing of it has been sent, the customers up to the cursor that are not `hidden`
  have their row, and `Counts`: there is a set of the audience that has as many members as were counted, which contains all who have a row
  and of whom those missing have left (rows of a deleted account go with it, the count does not);
  while it is `Delivering`, nobody after the cursor has been told, nobody who is `left` has it on Telegram, and the
  counters lie on either side of the number reached (`Tally`). A broadcast has one such handler, because only the one that made it sends it.
  `Telling` is the property itself. What made this long is the page: that the next page begins after the cursor
  even though the skipped row may be someone else's, that a page not full is the last (`Opening`, `FirstOpens`), and
  counting a page one customer at a time while customers leave.

The assumptions the theorems have, apart from the types of constants: `World` and `Beginnings` are tables the schema and the
services could have left (references are to rows, keys are unique, the tree has two levels: otherwise the first invariant would fail before
the first request), the requests in `Mixes` are what validation lets through (`Sound`, `WellFormed`), special values
(`None`, `Keep`, `Gone`) are no data, and what is counted is finite. A question to the engine names a promotion once and none with a reversed
period (only `PanelIsRight` uses the latter). TLC evaluates each of them on the instances.

Model-checked only:

* liveness (`RequestsEnd`, `CacheCatchesUp`, `VideosFinish`, `BroadcastEnds`), which the prover does not reach;
* `EachSeesItsOwn` and `MoneyAddsUp` of `rules`: what they compare are sums and selections of sequences, which are recursions
  over data, and the prover has no induction for them.

`ClaimsAreCovered`, `TypeOK` of Checkout, OrderGroups and Accounts, and `CacheTypeOK`
are the other way round: they are proved and no run repeats them.

## 7 Disagreements found

The first is a run that is expected to end in a counterexample. The others TLC finds in the same way, when the property named
is checked in the module named with two handlers; what does hold is checked by the passing runs instead.

* **`items_returned_twice`**: `orders.service.ts:722` "a cancelled order puts its
  goods back on sale". restock runs in every transaction that cancels, without a condition on
  the order's status: two overlapping cancellations restock twice.
* A tile without a code (Catalog, `TilesHaveCodes` on the instance of `catalogue`; one request is enough): `schema.prisma:319` and `category.dto.ts:55` say that a category of the first level has a code, by which the
  storefront finds it. create insists on one; update writes `dto.code` as it comes (`categories.service.ts:433`), and null passes
  `@IsOptional`: the tile is left without the code by which it is opened. (`TreeStands` says that no two tiles share a code and
  that nothing but a tile has one.)
* A period that is reversed (Pricing, `PeriodsAreRight` with the updates `MCPeriodDtos`): `promotions.service.ts:274` "the last day cannot be before the first". update checks a
  new first day against the last day it has read before its transaction, and the other way round, and writes without a condition: two overlapping
  updates, one of each day, both pass, and the promotion ends before it begins. The engine never applies it; the panel shows it as
  scheduled until its first day and lists it under ended as well from its last day on.
* A group out of date (OrderGroups, `GroupIsDerived` when no request is under way): `order-status.ts:139` says the status of the group is
  derived from its orders. Two transactions that change two orders of one group
  each derive it before the other commits; the later UPDATE of `order_groups` wins and
  the group keeps a status its orders do not have. (What does hold is
  `GroupStatusIsWitnessed`.)
* A deleted account with a contact (Accounts, `Blank` for every deleted account): `schema.prisma:193-198` says a row with `deletedAt` has
  no phone, address or telegramId. updateProfile (`users.service.ts:166`, also
  backfillProfilePhone and verifyLink) reads first and then updates by id; a deletion that
  commits in between gets its contact back, and the unique index keeps it from its owner.
  (`DeletedStaysBlank` is what holds: a deletion that no request about the account overlaps
  is final.)
* Flags that disagree (Pricing, `onPromo` iff `promotionId`): `schema.prisma:599` has the invariant `onPromo` iff `promotionId` iff
  `oldPrice`. `remove` of promotions.service.ts (line 210) reads the members of the
  promotion before its transaction and recalculates those; an update that moves the promotion to
  another listing in between leaves that one out, the foreign key sets its `promotionId` to
  null, and it stays marked as discounted at the promotion's price until somebody recalculates it.
  (`DiscountsAreWhole` is what holds.)

The same kind of overlap leaves prices that their inputs do not say, which is why
`PricesAreResolved` speaks of listings whose last recalculation nobody overlapped: for instance two
settings requests, of which the one that read first writes last. It breaks, with two handlers, what `one_request_at_a_time` says
of order groups (`TerminalStays`, `CustomerCancelsBeforeAssembly`, `FeedMatchesHistory`), and what `ReviewHolds`,
`EverythingIsFound` and `GalleryInOrder` say, which is why these carry the condition `alone`.

Two comments the code does not bear out, without a property: `admin-auth.controller.ts:66` calls a seller one who may change statuses
"in the chat", and the seller's bot only reads; `schema.prisma:513` says that a minimum version above the latest blocks everybody,
and `check()` guards against exactly that.

## 8 What is not modelled

Addresses, texts, translations and pictures' contents in the modelled components: no property tells them apart. Of the components
that are `partly` modelled, `PROJECT.json` says what is missing: it is one-statement writes (favorites, addresses, the read marks of
the feed, the courier's name, the locale, names and contacts of sellers and staff), read-only queries (search, lists of customers and broadcasts, the delivery quote), pure input and
output (bot transport, menus, mail) and routing (controllers, guards, validation): nothing to interleave, and nothing
that two readers could disagree about. Deleting a listing is not an action of Checkout: the foreign key of order items and
the cascade on cart items would need the rows' identities. Money has no width: a price its column cannot hold is a
query that fails, which the models have anyway.

Each module is one subsystem with the tables it shares; what crosses is in the module of the table. No module composes, say, a
deletion of an account with a broadcast and a checkout at once: they meet in `customers` (Messages), `groups` (Accounts) and
`cart` (Checkout), each of which has the requests that write it.

## 9 Plan

Every safety property of a state machine that a run checks is a theorem. What could come next:

1. `EachSeesItsOwn` and `MoneyAddsUp` for any goods need lemmas on sums over sequences, by induction over the number of orders.
2. The components that are `partly` modelled, in the order of section 8: the delivery quote and the read marks first.
