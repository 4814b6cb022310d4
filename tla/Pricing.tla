------------------------------ MODULE Pricing -------------------------------
(***************************************************************************)
(* Who writes the price of a listing, and from what: pricing.service.ts,   *)
(* pricing.scheduler.ts, promotions.service.ts and the part of             *)
(* listings.service.ts that prices.                                        *)
(*                                                                         *)
(* Each action is the code from one await to the next, pc[h] is the await  *)
(* at which request (or timer job) h stands.  The requests on listings and *)
(* promotions recalculate inside their transaction: tx[h] is what it has   *)
(* written, visible to h only, and locks the rows.  The others recalculate *)
(* with statements of their own.  Time is a day: promotions begin and end  *)
(* at midnight.                                                            *)
(***************************************************************************)
EXTENDS PriceEngine, FiniteSets

CONSTANTS
    Handlers,       \* requests and jobs running at the same time
    Listings,       \* ids of listings, numbers
    Promotions,     \* ids of promotions, numbers
    Gone,           \* a row that has been deleted; its id is not given again
    Keep,           \* undefined: a field the request leaves alone
    ListingDtos,    \* what requests ask for; the price inputs of a listing
    PromotionDtos,  \*   enabled, startsAt, endsAt, items
    SettingsDtos,   \*   markupTiers, roundingStep
    Sales,          \* sets of listings that one checkout or cancellation prices
    Beginnings,     \* targets, promotions, items, settings the model begins with
    PageSize,       \* PAGE_SIZE
    UpdateChunk,    \* UPDATE_CHUNK
    LastDay,        \* bound: days that pass
    MaxRequests     \* bound: requests accepted and restarts

VARIABLES
    listings,    \* the price columns of listings; None: not created yet
    promotions,  \* enabled, startsAt, endsAt; None: not created yet
    items,       \* promotion_items: for each promotion, the price of its listings
    settings,    \* markup_tiers, platform_settings, price_priorities
    cached,      \* a rounding step the cache answers though the row has another, or None
    today,       \* the day it is
    lastRun,     \* the scheduler's lastRun
    pc,          \* where each request stands
    req,         \* what it knows
    tx,          \* what its open transaction has written
    asked,       \* requests so far
    lost,        \* history: cached outlived the bump that should have dropped it
    sound        \* history: listings last priced by such a request

tables == <<listings, promotions, items, settings>>
clock == <<today, lastRun>>
vars == <<tables, cached, clock, pc, req, tx, asked, lost, sound>>

Days == 0..LastDay

Empty == [x \in {} |-> 0]

Only(x, v) == [y \in {x} |-> v]

\* What new has, and what rows has besides.
Over(new, rows) == [x \in DOMAIN new \cup DOMAIN rows |-> IF x \in DOMAIN new THEN new[x] ELSE rows[x]]

NoTx == [listings |-> Empty, promotions |-> Empty, items |-> Empty]

NoReq == [kind |-> "none", id |-> 0, dto |-> Keep, where |-> {}, now |-> 0,
          from |-> 0, reads |-> {}, config |-> Keep, promotions |-> {}, cursor |-> 0,
          todo |-> {}, more |-> FALSE, changed |-> FALSE,
          \* history: no request that could disturb it has overlapped it, and it
          \* has read what a lost bump left in the cache
          alone |-> TRUE, stale |-> FALSE]

Exists(row) == row \notin {None, Gone}

NoNames == [listings |-> {}, promotions |-> {}]

-----------------------------------------------------------------------------
(* What a recalculation works with *)

Target(row) == [costPrice |-> row.costPrice, customMarkupBps |-> row.customMarkupBps]

\* The columns a recalculation compares and writes.
PriceOf(row) ==
    [price |-> row.price, source |-> row.source, oldPrice |-> row.oldPrice,
     promotionId |-> row.promotionId]

Resolved(row, config, candidates, now) ==
    LET r == ResolvePrice(Target(row), config, candidates, now)
    IN  [price |-> r.price, source |-> r.source, oldPrice |-> r.oldPrice,
         promotionId |-> r.promotionId]

\* SET of the UPDATE: onPromo is written with the rest.
Repriced(row, p) ==
    [row EXCEPT !.price = p.price, !.source = p.source, !.oldPrice = p.oldPrice,
                !.promotionId = p.promotionId, !.onPromo = p.promotionId # None]

\* A listing before it is priced: create() puts the cost.
Fresh(target) ==
    [costPrice |-> target.costPrice, customMarkupBps |-> target.customMarkupBps,
     price |-> target.costPrice, source |-> "BASE_MARKUP", oldPrice |-> None,
     promotionId |-> None, onPromo |-> FALSE]

\* loadPromotions: enabled and not over; listings with what they offer.
LivePromotions(heads, now) ==
    {p \in Promotions : /\ Exists(heads[p])
                        /\ heads[p].enabled
                        /\ heads[p].endsAt # None => heads[p].endsAt > now}

LoadPromotions(heads, members, now) ==
    UNION {{[listingId |-> l,
             offer |-> [promotionId |-> p, promoPrice |-> members[p][l],
                        startsAt |-> heads[p].startsAt, endsAt |-> heads[p].endsAt]] :
                l \in DOMAIN members[p]} : p \in LivePromotions(heads, now)}

OffersFor(l, loaded) == {c.offer : c \in {d \in loaded : d.listingId = l}}

\* What the present inputs say of a listing.
PresentPrice(l, now) ==
    Resolved(listings[l], settings,
             OffersFor(l, LoadPromotions(promotions, items, now)), now)

-----------------------------------------------------------------------------
(* Transactions: READ COMMITTED, a row written by one is locked for the others *)

Transactional == {"create", "update", "order", "createPromotion", "updatePromotion", "removePromotion"}

InTx(h) == req[h].kind \in Transactional

SeenListings(h) == Over(tx[h].listings, listings)
SeenPromotions(h) == Over(tx[h].promotions, promotions)
SeenItems(h) == Over(tx[h].items, items)

ListingsFree(h, ls) == \A k \in Handlers \ {h} : DOMAIN tx[k].listings \cap ls = {}

\* A row of promotions is also kept from being deleted by a listing that has
\* been given it, and the other way round (foreign key).
PromotionFree(h, p) == \A k \in Handlers \ {h} : p \notin DOMAIN tx[k].promotions

GivenBy(k, p) ==
    \E l \in DOMAIN tx[k].listings :
        Exists(tx[k].listings[l]) /\ tx[k].listings[l].promotionId = p

BeingDeleted(h, p) ==
    \E k \in Handlers \ {h} : p \in DOMAIN tx[k].promotions /\ tx[k].promotions[p] = Gone

-----------------------------------------------------------------------------
(* Requests, and which of them may disturb each other *)

Goto(h, stage) == pc' = [pc EXCEPT ![h] = stage]

Go(h, stage, r) == Goto(h, stage) /\ req' = [req EXCEPT ![h] = r]

End(h) == Go(h, "idle", NoReq)

Active == {h \in Handlers : pc[h] \notin {"idle", "bump"}}

\* What a request names: the listings it prices or writes, the promotion it
\* writes, and the promotions those listings are in.
Names(ls, ps) ==
    [listings |-> ls,
     promotions |-> ps \cup {p \in Promotions : DOMAIN items[p] \cap ls # {}}]

All == [listings |-> Listings, promotions |-> Promotions]

NamedBy(r) ==
    CASE r.kind \in {"create", "update", "remove"} -> Names({r.id}, {})
      [] r.kind = "order" -> Names(r.where, {})
      [] r.kind = "none" -> NoNames
      [] r.kind \in {"createPromotion", "updatePromotion", "removePromotion"} -> Names(r.where, {r.id})
      [] OTHER -> All

Conflict(n, m) ==
    n.listings \cap m.listings # {} \/ n.promotions \cap m.promotions # {}

\* Request h takes up r.  History: the requests it may disturb are not alone any
\* more, and the prices of what both name are not vouched for.
Take(h, stage, r) ==
    LET foes == {k \in Active \ {h} : Conflict(NamedBy(r), NamedBy(req[k]))}
        touched == NamedBy(r).listings \cup UNION {NamedBy(req[k]).listings : k \in foes}
    IN  /\ Goto(h, stage)
        /\ req' = [k \in Handlers |->
                      CASE k = h      -> [r EXCEPT !.alone = foes = {}]
                        [] k \in foes -> [req[k] EXCEPT !.alone = FALSE]
                        [] OTHER      -> req[k]]
        /\ sound' = IF foes = {} THEN sound ELSE sound \ touched

Accept(h, stage, r) ==
    /\ pc[h] = "idle"
    /\ asked < MaxRequests
    /\ asked' = asked + 1
    /\ Take(h, stage, r)
    /\ UNCHANGED <<tables, cached, lost, clock, tx>>

Request(kind, id, dto, where) ==
    [NoReq EXCEPT !.kind = kind, !.id = id, !.dto = dto, !.where = where]

\* Who is vouched for when h has recalculated: what it priced, if it was alone and
\* saw nothing stale.
Vouched(h) ==
    IF ~req[h].alone THEN sound
    ELSE IF req[h].stale THEN sound \ req[h].where
    ELSE sound \cup req[h].where

\* INCR of the version; its failure is swallowed.
DropCache ==
    \/ cached' = None /\ lost' = FALSE
    \/ UNCHANGED cached /\ lost' = (cached # None)

-----------------------------------------------------------------------------
(* recalculate *)

Unread == [markupTiers |-> Keep, roundingStep |-> Keep, order |-> Keep]

\* Every query of the Promise.all is still to be answered.
Recalculate(h, r, where) ==
    Go(h, "read", [r EXCEPT !.where = where, !.now = today,
                            !.reads = {"step", "tiers", "order", "promotions"},
                            !.config = Unread])

\* What follows a recalculation, in a transaction or out of one.
AfterRecalculation(r) ==
    IF r.kind \in Transactional THEN "commit" ELSE "done"

\* A transaction has one connection and asks one thing after another; the cache,
\* and queries out of a transaction, answer when they like.
Answerable(h) ==
    LET first == {q \in {"tiers", "order", "promotions"} \cap req[h].reads :
                     /\ q = "order" => "tiers" \notin req[h].reads
                     /\ q = "promotions" => req[h].reads \subseteq {"promotions", "step"}}
    IN  IF InTx(h) THEN first \cup ({"step"} \cap req[h].reads) ELSE req[h].reads

\* One of them is: the step by way of the cache, the promotions as the transaction
\* sees them.
Read(h) ==
    /\ pc[h] = "read"
    /\ \E query \in Answerable(h) :
          LET step == IF cached = None THEN settings.roundingStep ELSE cached
              r == [req[h] EXCEPT !.reads = @ \ {query}]
          IN  /\ req' = [req EXCEPT ![h] =
                    CASE query = "step"  -> [r EXCEPT !.config.roundingStep = step, !.stale = lost]
                      [] query = "tiers" -> [r EXCEPT !.config.markupTiers = settings.markupTiers]
                      [] query = "order" -> [r EXCEPT !.config.order = settings.order]
                      [] OTHER -> [r EXCEPT !.promotions =
                                      LoadPromotions(SeenPromotions(h), SeenItems(h), r.now)]]
              /\ Goto(h, IF r.reads = {} THEN "page" ELSE "read")
    /\ UNCHANGED <<tables, cached, lost, clock, tx, asked, sound>>

\* The next PAGE_SIZE rows after the cursor, by id.
Page(h) ==
    LET rest == {l \in req[h].where : Exists(SeenListings(h)[l]) /\ l > req[h].cursor}
    IN  {l \in rest : Cardinality({m \in rest : m < l}) < PageSize}

\* A page of listings is read and priced; rows that have their price already are
\* left out.
ReadPage(h) ==
    /\ pc[h] = "page"
    /\ LET page == Page(h)
           price == [l \in page |->
                        Resolved(SeenListings(h)[l], req[h].config,
                                 OffersFor(l, req[h].promotions), req[h].now)]
           todo == {[id |-> l, price |-> price[l]] :
                        l \in {m \in page : PriceOf(SeenListings(h)[m]) # price[m]}}
           more == Cardinality(page) = PageSize
       IN  /\ req' = [req EXCEPT ![h].todo = todo,
                                 ![h].more = more,
                                 ![h].changed = @ \/ todo # {},
                                 ![h].cursor = IF page = {} THEN @ ELSE Greatest(page)]
           /\ Goto(h, IF todo # {} THEN "write"
                      ELSE IF more THEN "page" ELSE AfterRecalculation(req[h]))
    /\ UNCHANGED <<tables, cached, lost, clock, tx, asked, sound>>

Chunk(h) == {u \in req[h].todo : Cardinality({v \in req[h].todo : v.id < u.id}) < UpdateChunk}

\* The UPDATE waits for rows and for promotions that others have written, passes
\* over rows that are gone, and throws when a promotion is (Fail).
WritePrices(h) ==
    LET rows == {u \in Chunk(h) : Exists(SeenListings(h)[u.id])}
        ids == {u.id : u \in rows}
        new == [l \in ids |-> Repriced(SeenListings(h)[l],
                                       (CHOOSE u \in rows : u.id = l).price)]
        rest == req[h].todo \ Chunk(h)
    IN  /\ pc[h] = "write"
        /\ ListingsFree(h, ids)
        /\ \A u \in rows : u.price.promotionId # None =>
              /\ Exists(SeenPromotions(h)[u.price.promotionId])
              /\ ~BeingDeleted(h, u.price.promotionId)
        /\ IF InTx(h)
           THEN /\ tx' = [tx EXCEPT ![h].listings = Over(new, @)]
                /\ UNCHANGED listings
           ELSE /\ listings' = Over(new, listings)
                /\ UNCHANGED tx
        /\ req' = [req EXCEPT ![h].todo = rest]
        /\ Goto(h, IF rest # {} THEN "write"
                   ELSE IF req[h].more THEN "page" ELSE AfterRecalculation(req[h]))
        /\ UNCHANGED <<promotions, items, settings, cached, lost, clock, asked, sound>>

Commit(h) ==
    /\ pc[h] = "commit"
    /\ listings' = SeenListings(h)
    /\ promotions' = SeenPromotions(h)
    /\ items' = SeenItems(h)
    /\ tx' = [tx EXCEPT ![h] = NoTx]
    /\ sound' = Vouched(h)
    /\ Go(h, "bump", NoReq)
    /\ UNCHANGED <<settings, cached, lost, clock, asked>>

\* Out of a transaction the cache is dropped only if a price changed.
Done(h) ==
    /\ pc[h] = "done"
    /\ sound' = Vouched(h)
    /\ Go(h, IF req[h].changed THEN "bump" ELSE "idle", NoReq)
    /\ UNCHANGED <<tables, cached, lost, clock, tx, asked>>

\* bump drops the settings entry too.
Bump(h) ==
    /\ pc[h] = "bump"
    /\ DropCache
    /\ End(h)
    /\ UNCHANGED <<tables, clock, tx, asked, sound>>

-----------------------------------------------------------------------------
(* Listings: create, update, remove; orders.service.ts prices what it sells *)

Chosen(field, old) == IF field = Keep THEN old ELSE field

Create(h, l, dto) ==
    /\ listings[l] = None
    /\ \A k \in Handlers : req[k].kind = "create" => req[k].id # l
    /\ dto.costPrice # Keep
    /\ Accept(h, "insert", Request("create", l, dto, {l}))

Insert(h) ==
    LET dto == req[h].dto
        target == [costPrice |-> dto.costPrice,
                   customMarkupBps |-> Chosen(dto.customMarkupBps, None)]
    IN  /\ pc[h] = "insert"
        /\ ListingsFree(h, {req[h].id})
        /\ tx' = [tx EXCEPT ![h].listings = Only(req[h].id, Fresh(target))]
        /\ Recalculate(h, req[h], {req[h].id})
        /\ UNCHANGED <<tables, cached, lost, clock, asked, sound>>

Update(h, l, dto) ==
    /\ Exists(listings[l])
    /\ Accept(h, "edit", Request("update", l, dto, {l}))

Edit(h) ==
    LET l == req[h].id
        dto == req[h].dto
    IN  /\ pc[h] = "edit"
        /\ ListingsFree(h, {l})
        /\ Exists(listings[l])
        /\ tx' = [tx EXCEPT ![h].listings = Only(l,
                    [listings[l] EXCEPT !.costPrice = Chosen(dto.costPrice, @),
                                        !.customMarkupBps = Chosen(dto.customMarkupBps, @)])]
        /\ Recalculate(h, req[h], {l})
        /\ UNCHANGED <<tables, cached, lost, clock, asked, sound>>

\* A checkout or a cancellation has written the stock of its listings when it
\* recalculates them.
Sell(h, ls) ==
    /\ \A l \in ls : Exists(listings[l])
    /\ Accept(h, "stock", Request("order", 0, Keep, ls))

Stock(h) ==
    LET ls == req[h].where
    IN  /\ pc[h] = "stock"
        /\ ListingsFree(h, ls)
        /\ \A l \in ls : Exists(listings[l])
        /\ tx' = [tx EXCEPT ![h].listings = [l \in ls |-> listings[l]]]
        /\ Recalculate(h, req[h], ls)
        /\ UNCHANGED <<tables, cached, lost, clock, asked, sound>>

Remove(h, l) ==
    /\ Exists(listings[l])
    /\ Accept(h, "delete", Request("remove", l, Keep, {}))

\* Its items of promotions go with it, when nobody is writing them.
Delete(h) ==
    LET l == req[h].id
        left(p) == [m \in DOMAIN items[p] \ {l} |-> items[p][m]]
    IN  /\ pc[h] = "delete"
        /\ ListingsFree(h, {l})
        /\ Exists(listings[l])
        /\ \A k \in Handlers : \A p \in DOMAIN tx[k].items :
              l \notin DOMAIN tx[k].items[p] \cup DOMAIN items[p]
        /\ listings' = [listings EXCEPT ![l] = Gone]
        /\ items' = [p \in Promotions |-> left(p)]
        /\ Go(h, "bump", NoReq)
        /\ UNCHANGED <<promotions, settings, cached, lost, clock, tx, asked, sound>>

-----------------------------------------------------------------------------
(* promotions.service.ts *)

\* Slip: only the new members are priced again.
ScopeOfNew(p, dto) ==
    IF dto.items = Keep THEN DOMAIN items[p] ELSE DOMAIN dto.items

\* The listings of the promotion, those that leave it and those that join.
Scope(p, dto) ==
    DOMAIN items[p] \cup (IF dto.items = Keep THEN {} ELSE DOMAIN dto.items)

CreatePromotion(h, p, dto) ==
    /\ promotions[p] = None
    /\ \A k \in Handlers : req[k].kind = "createPromotion" => req[k].id # p
    /\ Keep \notin {dto.enabled, dto.startsAt, dto.endsAt, dto.items}
    /\ PeriodIsRight(dto.startsAt, dto.endsAt)
    /\ Accept(h, "check", Request("createPromotion", p, dto, DOMAIN dto.items))

\* The promotion as it is, with its listings, is the first thing read; the new
\* period is checked against the old.
UpdatePromotion(h, p, dto) ==
    /\ Exists(promotions[p])
    /\ PeriodIsRight(Chosen(dto.startsAt, promotions[p].startsAt),
                     Chosen(dto.endsAt, promotions[p].endsAt))
    /\ Accept(h, IF dto.items = Keep THEN "head" ELSE "check",
              Request("updatePromotion", p, dto, Scope(p, dto)))

RemovePromotion(h, p) ==
    /\ Exists(promotions[p])
    /\ Accept(h, "drop", Request("removePromotion", p, Keep, DOMAIN items[p]))

\* assertAboveCost; a listing that is not there is left to the foreign key.
AssertAboveCost(h) ==
    LET offers == req[h].dto.items
        below == {l \in DOMAIN offers : Exists(listings[l]) /\ offers[l] < listings[l].costPrice}
    IN  /\ pc[h] = "check"
        /\ IF below # {} THEN End(h)
           ELSE Goto(h, IF req[h].kind = "createPromotion" THEN "insertPromotion" ELSE "head")
                /\ UNCHANGED req
        /\ UNCHANGED <<tables, cached, lost, clock, tx, asked, sound>>

RecalculateMembers(h) ==
    IF req[h].where = {} THEN Goto(h, "commit") /\ UNCHANGED req
    ELSE Recalculate(h, req[h], req[h].where)

Exist(ls) == \A l \in ls : Exists(listings[l])

InsertPromotion(h) ==
    LET p == req[h].id
        dto == req[h].dto
    IN  /\ pc[h] = "insertPromotion"
        /\ PromotionFree(h, p)
        /\ Exist(DOMAIN dto.items)
        /\ tx' = [tx EXCEPT ![h].promotions =
                     Only(p, [enabled |-> dto.enabled, startsAt |-> dto.startsAt, endsAt |-> dto.endsAt]),
                            ![h].items = Only(p, dto.items)]
        /\ RecalculateMembers(h)
        /\ UNCHANGED <<tables, cached, lost, clock, asked, sound>>

WritePromotion(h) ==
    LET p == req[h].id
        dto == req[h].dto
        old == promotions[p]
    IN  /\ pc[h] = "head"
        /\ PromotionFree(h, p)
        /\ Exists(old)
        /\ tx' = [tx EXCEPT ![h].promotions =
                     Only(p, [enabled |-> Chosen(dto.enabled, old.enabled),
                              startsAt |-> Chosen(dto.startsAt, old.startsAt),
                              endsAt |-> Chosen(dto.endsAt, old.endsAt)])]
        /\ IF dto.items = Keep THEN RecalculateMembers(h)
           ELSE Goto(h, "items") /\ UNCHANGED req
        /\ UNCHANGED <<tables, cached, lost, clock, asked, sound>>

\* The old set is deleted, the new one created.
ReplaceItems(h) ==
    /\ pc[h] = "items"
    /\ Exist(DOMAIN req[h].dto.items)
    /\ tx' = [tx EXCEPT ![h].items = Only(req[h].id, req[h].dto.items)]
    /\ RecalculateMembers(h)
    /\ UNCHANGED <<tables, cached, lost, clock, asked, sound>>

\* The foreign keys delete its items and set promotionId of listings to NULL;
\* oldPrice and onPromo are left to the recalculation.
DropPromotion(h) ==
    LET p == req[h].id
        marked == {l \in Listings : Exists(listings[l]) /\ listings[l].promotionId = p}
    IN  /\ pc[h] = "drop"
        /\ PromotionFree(h, p)
        /\ Exists(promotions[p])
        /\ \A k \in Handlers : ~GivenBy(k, p)
        /\ ListingsFree(h, marked)
        /\ tx' = [tx EXCEPT ![h] =
                     [promotions |-> Only(p, Gone), items |-> Only(p, Empty),
                      listings |-> [l \in marked |-> [listings[l] EXCEPT !.promotionId = None]]]]
        /\ RecalculateMembers(h)
        /\ UNCHANGED <<tables, cached, lost, clock, asked, sound>>

-----------------------------------------------------------------------------
(* Settings and priorities: written first, recalculated after *)

\* validateTiers
TiersAreRight(tiers) ==
    /\ tiers # <<>>
    /\ tiers[1].minCost = 0
    /\ \A i \in 2..Len(tiers) : tiers[i - 1].minCost < tiers[i].minCost

UpdateSettings(h, dto) ==
    /\ dto.markupTiers # Keep => TiersAreRight(dto.markupTiers)
    /\ Accept(h, IF dto.markupTiers = Keep THEN "settings" ELSE "tiers",
              Request("settings", 0, dto, {}))

\* Two requests cannot leave a mixture: every set has a tier from 0, minCost is unique.
WriteTiers(h) ==
    /\ pc[h] = "tiers"
    /\ settings' = [settings EXCEPT !.markupTiers = req[h].dto.markupTiers]
    /\ Goto(h, "settings")
    /\ UNCHANGED <<listings, promotions, items, cached, lost, clock, req, tx, asked, sound>>

\* The entry of the cache, if there is one, stays until the bump.
WriteSettings(h) ==
    /\ pc[h] = "settings"
    /\ settings' = [settings EXCEPT !.roundingStep = Chosen(req[h].dto.roundingStep, @)]
    /\ cached' \in IF cached = None THEN {None, settings.roundingStep} ELSE {cached}
    /\ Goto(h, "settingsBump")
    /\ UNCHANGED <<listings, promotions, items, clock, req, tx, asked, lost, sound>>

SettingsBump(h) ==
    /\ pc[h] = "settingsBump"
    /\ DropCache
    /\ Recalculate(h, req[h], Listings)
    /\ UNCHANGED <<tables, clock, tx, asked, sound>>

SetPriorities(h, order) == Accept(h, "order", Request("priorities", 0, order, {}))

WriteOrder(h) ==
    /\ pc[h] = "order"
    /\ settings' = [settings EXCEPT !.order = req[h].dto]
    /\ Recalculate(h, req[h], Listings)
    /\ UNCHANGED <<listings, promotions, items, cached, lost, clock, tx, asked, sound>>

-----------------------------------------------------------------------------
(* pricing.scheduler.ts: midnight, and a full recalculation at the start *)

NextDay ==
    /\ today < LastDay
    /\ today' = today + 1
    /\ UNCHANGED <<tables, cached, lost, lastRun, pc, req, tx, asked, sound>>

\* The timer is set again when the job is over; lastRun moves before the work.
Tick(h) ==
    /\ pc[h] = "idle"
    /\ lastRun < today
    /\ \A k \in Handlers : req[k].kind # "tick"
    /\ lastRun' = today
    /\ Take(h, "scope", [Request("tick", 0, Keep, {}) EXCEPT !.from = lastRun, !.now = today])
    /\ UNCHANGED <<tables, cached, lost, today, tx, asked>>

\* transitionedScope
TransitionedScope(h) ==
    LET crossed(d) == d # None /\ req[h].from < d /\ d <= req[h].now
        scope == UNION {DOMAIN items[p] :
                    p \in {q \in Promotions : /\ Exists(promotions[q])
                                              /\ promotions[q].enabled
                                              /\ \/ crossed(promotions[q].startsAt)
                                                 \/ crossed(promotions[q].endsAt)}}
    IN  /\ pc[h] = "scope"
        /\ IF scope = {} THEN End(h) ELSE Recalculate(h, req[h], scope)
        /\ UNCHANGED <<tables, cached, lost, clock, tx, asked, sound>>

\* The process dies, or is deployed anew, for a while; open transactions are gone.
Restart(h) ==
    /\ asked < MaxRequests
    /\ asked' = asked + 1
    /\ today' \in today..LastDay
    /\ lastRun' = today'
    /\ pc' = [k \in Handlers |-> IF k = h THEN "read" ELSE "idle"]
    /\ req' = [k \in Handlers |->
                  IF k = h THEN [Request("boot", 0, Keep, Listings) EXCEPT
                                    !.now = today', !.config = Unread,
                                    !.reads = {"step", "tiers", "order", "promotions"}]
                  ELSE NoReq]
    /\ tx' = [k \in Handlers |-> NoTx]
    /\ lost' = (cached # None)
    /\ UNCHANGED <<tables, cached, sound>>

-----------------------------------------------------------------------------
(* Everything else *)

\* A query throws: a transaction is rolled back; a recalculation of its own stops
\* where it is, and the scheduler only logs it.
Fail(h) ==
    /\ h \in Active
    /\ End(h)
    /\ tx' = [tx EXCEPT ![h] = NoTx]
    /\ sound' = IF InTx(h) \/ req[h].kind = "remove" THEN sound ELSE {}
    /\ lost' = (lost \/ (pc[h] = "settingsBump" /\ cached # None))
    /\ UNCHANGED <<tables, cached, clock, asked>>

\* EX of the settings entry.
Expire ==
    /\ cached # None
    /\ cached' = None
    /\ lost' = FALSE
    /\ UNCHANGED <<tables, clock, pc, req, tx, asked, sound>>

Init ==
    /\ \E b \in Beginnings :
          /\ promotions = b.promotions
          /\ items = b.items
          /\ settings = b.settings
          /\ listings = [l \in Listings |->
                IF b.targets[l] = None THEN None
                ELSE Repriced(Fresh(b.targets[l]),
                        Resolved(b.targets[l], b.settings,
                                 OffersFor(l, LoadPromotions(b.promotions, b.items, 0)), 0))]
    /\ cached = None
    /\ today = 0 /\ lastRun = 0
    /\ pc = [h \in Handlers |-> "idle"]
    /\ req = [h \in Handlers |-> NoReq]
    /\ tx = [h \in Handlers |-> NoTx]
    /\ asked = 0
    /\ lost = FALSE
    /\ sound = Listings

Ask(h) ==
    \/ \E l \in Listings : Remove(h, l)
    \/ \E l \in Listings, dto \in ListingDtos : Create(h, l, dto) \/ Update(h, l, dto)
    \/ \E ls \in Sales : Sell(h, ls)
    \/ \E p \in Promotions : RemovePromotion(h, p)
    \/ \E p \in Promotions, dto \in PromotionDtos :
          CreatePromotion(h, p, dto) \/ UpdatePromotion(h, p, dto)
    \/ \E dto \in SettingsDtos : UpdateSettings(h, dto)
    \/ \E order \in PriceOrder : SetPriorities(h, order)

Serve(h) ==
    \/ Insert(h) \/ Edit(h) \/ Stock(h) \/ Delete(h)
    \/ AssertAboveCost(h) \/ InsertPromotion(h) \/ WritePromotion(h)
    \/ ReplaceItems(h) \/ DropPromotion(h)
    \/ WriteTiers(h) \/ WriteSettings(h) \/ SettingsBump(h) \/ WriteOrder(h)
    \/ TransitionedScope(h)
    \/ Read(h) \/ ReadPage(h) \/ WritePrices(h) \/ Commit(h) \/ Done(h) \/ Bump(h)

Next ==
    \/ \E h \in Handlers : Ask(h) \/ Tick(h) \/ Restart(h) \/ Serve(h) \/ Fail(h)
    \/ NextDay
    \/ Expire

Spec == Init /\ [][Next]_vars

-----------------------------------------------------------------------------
(* Properties *)

ListingRow == [costPrice : Nat, customMarkupBps : Nat \cup {None}, price : Nat, source : Source,
        oldPrice : Nat \cup {None}, promotionId : Promotions \cup {None}, onPromo : BOOLEAN]

Date == Nat \cup {None}

PromotionRow == [enabled : BOOLEAN, startsAt : Date, endsAt : Date]

\* f is a function into T whose domain is part of S.
Partial(f, S, T) == DOMAIN f \subseteq S /\ f \in [DOMAIN f -> T]

Tiers == Seq([minCost : Nat, markupBps : Nat])

Settings == [markupTiers : Tiers, roundingStep : Nat, order : PriceOrder]

Price == [price : Nat, source : Source, oldPrice : Nat \cup {None},
          promotionId : Promotions \cup {None}]

Candidate == [listingId : Listings,
              offer : [promotionId : Promotions, promoPrice : Nat, startsAt : Date, endsAt : Date]]

Config == [markupTiers : Tiers \cup {Keep}, roundingStep : Nat \cup {Keep},
           order : PriceOrder \cup {Keep}]

Stages == {"idle", "insert", "edit", "stock", "delete", "check", "insertPromotion", "head",
           "items", "drop", "tiers", "settings", "settingsBump", "order", "scope",
           "read", "page", "write", "commit", "done", "bump"}

\* The constants: a list of listings to price is never empty (orders.service.ts:738), and
\* the process begins with rows that the schema allows and prices that are resolved.
ASSUME IdsAssumption ==
    /\ Listings \subseteq Nat \ {0} /\ IsFiniteSet(Listings) /\ Listings # {}
    /\ Promotions \subseteq Nat
    /\ None \notin ListingRow \cup PromotionRow /\ Gone \notin ListingRow \cup PromotionRow
ASSUME BoundsAssumption ==
    PageSize \in Nat \ {0} /\ UpdateChunk \in Nat \ {0} /\ LastDay \in Nat /\ MaxRequests \in Nat
ASSUME RequestsAssumption ==
    /\ \A d \in ListingDtos : d.costPrice \in Nat \cup {Keep} /\ d.customMarkupBps \in Nat \cup {None, Keep}
    /\ \A d \in PromotionDtos :
          /\ d.enabled \in BOOLEAN \cup {Keep}
          /\ d.startsAt \in Date \cup {Keep} /\ d.endsAt \in Date \cup {Keep}
          /\ d.items = Keep \/ Partial(d.items, Listings, Nat)
    /\ \A d \in SettingsDtos : d.markupTiers \in Tiers \cup {Keep} /\ d.roundingStep \in Nat \cup {Keep}
    /\ Sales \subseteq SUBSET Listings /\ {} \notin Sales
ASSUME BeginningsAssumption ==
    \A b \in Beginnings :
        /\ b.targets \in [Listings -> [costPrice : Nat, customMarkupBps : Nat \cup {None}] \cup {None}]
        /\ b.promotions \in [Promotions -> PromotionRow \cup {None}]
        /\ b.items = [p \in Promotions |-> b.items[p]]
        /\ \A p \in Promotions :
              /\ Partial(b.items[p], Listings, Nat)
              /\ b.promotions[p] = None => DOMAIN b.items[p] = {}
        /\ b.settings \in Settings

\* Every variable has its type.
TypeOK ==
    /\ listings \in [Listings -> ListingRow \cup {None, Gone}]
    /\ promotions \in [Promotions -> PromotionRow \cup {None, Gone}]
    /\ DOMAIN items = Promotions
    /\ \A p \in Promotions : Partial(items[p], Listings, Nat)
    /\ settings \in Settings
    /\ cached \in Nat \cup {None}
    /\ today \in Nat /\ lastRun \in Nat
    /\ pc \in [Handlers -> Stages]
    /\ asked \in Nat
    /\ lost \in BOOLEAN
    /\ sound \in SUBSET Listings
    /\ \A h \in Handlers :
          /\ Partial(tx[h].listings, Listings, ListingRow \cup {None, Gone})
          /\ Partial(tx[h].promotions, Promotions, PromotionRow \cup {None, Gone})
          /\ \A p \in DOMAIN tx[h].items : p \in Promotions /\ Partial(tx[h].items[p], Listings, Nat)
          /\ req[h].where \in SUBSET Listings
          /\ req[h].config \in Config \cup {Keep}
          /\ req[h].promotions \in SUBSET Candidate
          /\ req[h].todo \in SUBSET [id : Listings, price : Price]

\* Nobody stands between a change of the settings (or a midnight) and the
\* recalculation that follows it.
Settled ==
    /\ lastRun = today
    /\ \A h \in Active : InTx(h) \/ req[h].kind = "remove"

\* pricing.service.ts:38-41: the price in the row is what the present settings,
\* tiers, priorities, promotions and cost say, for every listing that nothing
\* disturbed when it was priced last - at any moment, in the middle of requests too.
PricesAreResolved ==
    Settled => \A l \in sound : Exists(listings[l]) =>
        PriceOf(listings[l]) = PresentPrice(l, today)

\* schema.prisma:599, as far as it holds whatever overlaps: a listing shown as
\* discounted has a higher old price, and the promotion it names exists.
DiscountsAreWhole ==
    \A l \in Listings : Exists(listings[l]) =>
        /\ listings[l].onPromo <=> listings[l].oldPrice # None
        /\ listings[l].onPromo => listings[l].price < listings[l].oldPrice
        /\ listings[l].promotionId # None =>
              listings[l].onPromo /\ Exists(promotions[listings[l].promotionId])

\* The prices customers see: what the settings say wherever nothing overlapped, and
\* whole as discounts wherever something did.
PricesHold == TypeOK /\ PricesAreResolved /\ DiscountsAreWhole

\* promotions.service.ts:271-277 ("the last day cannot be before the first"): every
\* promotion ends after it begins.
PeriodsAreRight ==
    \A p \in Promotions : Exists(promotions[p]) =>
        PeriodIsRight(promotions[p].startsAt, promotions[p].endsAt)
=============================================================================
