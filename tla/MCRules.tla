------------------------------ MODULE MCRules ------------------------------
(***************************************************************************)
(* The rules that are functions of their arguments, checked together.  A   *)
(* behaviour is about one subject, and what belongs to the others is at    *)
(* rest: a checkout of at most MaxOrders orders that goes through every    *)
(* allowed transition (OrderRules), with the goods in it; a question to    *)
(* the price engine with a rising cost (PriceRules); or the versions of    *)
(* one platform and an installation of the app (AppVersions).              *)
(***************************************************************************)
EXTENDS Views, OrderRules, PriceRules, AppVersions

VARIABLES subject, goods

vars == <<subject, goods, orders, question, app>>

-----------------------------------------------------------------------------
(* The values of the constants *)

TiersToTry ==
    LET T(from, bps) == [minCost |-> from, markupBps |-> bps]
    IN  {<<>>, <<T(0, 2500)>>, <<T(0, 6000), T(5, 2000)>>,
         <<T(0, 9000), T(4, 5000), T(7, 0)>>, <<T(0, 2000), T(4, 9000), T(5, 0)>>}

Promotion(p, price, from, to, enabled) ==
    [promotionId |-> p, promoPrice |-> price, startsAt |-> from, endsAt |-> to, enabled |-> enabled]

\* Open, open, over today, begun today, not begun, switched off.
PromotionsToTry ==
    SUBSET {Promotion(1, 8, None, None, TRUE), Promotion(2, 6, 0, None, TRUE),
            Promotion(3, 3, None, 1, TRUE), Promotion(4, 6, 1, 2, TRUE),
            Promotion(5, 3, 2, None, TRUE), Promotion(6, 2, None, None, FALSE)}

MCQuestions ==
    [target : [costPrice : {1}, customMarkupBps : {None, 0, 3500}],
     config : [markupTiers : TiersToTry, roundingStep : {1, 4}, order : PriceOrder],
     promotions : PromotionsToTry]

MCVersions == {<<1>>, <<1, 0, 1>>, <<1, 1>>, <<2, 0>>}

MCPatches ==
    [latestVersion : MCVersions] \cup [minSupportedVersion : MCVersions]
        \cup [latestVersion : MCVersions, minSupportedVersion : MCVersions]
        \cup [enabled : BOOLEAN] \cup [ru : {"novoe", ""}] \cup [uz : {"yangi", Null}]

Listing(cost, price, old, promotion) ==
    [costPrice |-> cost, price |-> price, oldPrice |-> old, promotionId |-> promotion]

\* A promoted one; one sold at cost and a promoted one.
GoodsToTry ==
    LET promoted == Listing(5, 9, 12, 1)
    IN  {<<ItemRow(promoted, 2)>>, <<ItemRow(Listing(3, 3, None, None), 3), ItemRow(promoted, 1)>>}

-----------------------------------------------------------------------------
OrdersAtRest ==
    /\ statuses = <<"NEW">> /\ card = Buttons(statuses)
    /\ goods = [i \in {1} |-> <<ItemRow(Listing(5, 9, 12, 1), 2)>>]

PriceAtRest ==
    question = [target |-> [costPrice |-> 1, customMarkupBps |-> None],
                config |-> [markupTiers |-> <<>>, roundingStep |-> 1,
                            order |-> <<"PROMOTION", "LISTING_MARKUP", "BASE_MARKUP">>],
                promotions |-> {}]

AppAtRest == store = Null /\ installed = Null

Init ==
    \/ /\ subject = "orders" /\ PriceAtRest /\ AppAtRest
       /\ OrdersInit /\ goods \in [DOMAIN statuses -> GoodsToTry]
    \/ subject = "price" /\ OrdersAtRest /\ PriceInit /\ AppAtRest
    \/ subject = "app" /\ OrdersAtRest /\ PriceAtRest /\ AppInit

Next ==
    \/ subject = "orders" /\ OrdersNext /\ UNCHANGED <<subject, goods, question, app>>
    \/ subject = "price" /\ RaiseCost /\ UNCHANGED <<subject, goods, orders, app>>
    \/ subject = "app" /\ AppNext /\ UNCHANGED <<subject, goods, orders, question>>

Spec == Init /\ [][Next]_vars

-----------------------------------------------------------------------------
(* Who is shown what *)

\* The same items at another price, and at another cost.
Dearer(items) == [j \in DOMAIN items |->
    [items[j] EXCEPT !.price = @ + 3, !.total = @ + 3 * items[j].quantity, !.oldPrice = None]]

Costlier(items) == [j \in DOMAIN items |->
    [items[j] EXCEPT !.costPrice = @ + 2, !.costTotal = @ + 2 * items[j].quantity]]

\* The same checkout as far as seller s goes, with the prices it may not know and the
\* goods of its neighbours replaced.
Elsewhere(s) == [i \in DOMAIN goods |->
    IF i = s THEN Dearer(goods[i]) ELSE <<ItemRow(Listing(1, 20, None, None), 1)>>]

\* All that reaches seller s: the panel, its chats' cards, the lists of the bot.
ShownTo(s, g) ==
    [one |-> FindOne(Seller(s), g), all |-> FindAll(Seller(s), None, {g}),
     cards |-> [i \in DOMAIN g.orders \cap {s} |-> SellerCard(g.orders[i], g)],
     list |-> SellerList(Seller(s), {"NEW", "CONFIRMED", "ASSEMBLING"}, g)]

\* order.response.ts:219-224: what a seller is shown of a checkout is the same
\* whatever its neighbours sold in it, at whatever prices and delivery fee the
\* customer bought; a seller that sold nothing in it is shown nothing.
NeighboursStayPrivate ==
    \A s \in 1..MaxOrders :
        ShownTo(s, GroupRow(statuses, goods, 0)) = ShownTo(s, GroupRow(statuses, Elsewhere(s), 10))

\* mobile-listing.ts:25-26 and listing.response.ts:49-53: no answer to a customer,
\* of an order or of a listing, depends on the cost; no answer to a seller about its
\* listing depends on the retail price, where it came from or the markup.
CostStaysPrivate ==
    LET costlier == [i \in DOMAIN goods |-> Costlier(goods[i])]
        row == RowAfter(question)
        other == [row EXCEPT !.costPrice = @ + 1, !.customMarkupBps = 1, !.source = None]
        repriced == [other EXCEPT !.costPrice = row.costPrice, !.price = @ + 1,
                                  !.oldPrice = None, !.promotionId = None]
    IN  /\ OrderGroupResponse(GroupRow(statuses, goods, 0))
               = OrderGroupResponse(GroupRow(statuses, costlier, 0))
        /\ ListingDetail(row, {row}) = ListingDetail(other, {other})
        /\ CartListing(row) = CartListing(other)
        /\ AdminListing(row, "SELLER") = AdminListing(repriced, "SELLER")

\* Nobody reads off an answer what it was not meant to tell: neither a seller what its
\* neighbours or the platform earn, nor a customer what the goods cost.
EachSeesItsOwn == NeighboursStayPrivate /\ CostStaysPrivate

\* order.response.ts:168-171, order-notifier.service.ts:186-190, metrics.service.ts:93-96:
\* the sums of one checkout agree wherever they are computed: the platform's margin
\* is what the customer pays for goods less what the sellers are told they will get,
\* in the panel, on the card and, but for cancelled orders, in the numbers, whose
\* days add up to their whole.
MoneyAddsUp ==
    LET g == GroupRow(statuses, goods, 10)
        panel == FindOne(SuperAdmin, g)
        customer == OrderGroupResponse(g)
        payouts == Total([i \in DOMAIN statuses |-> FindOne(Seller(i), g)], LAMBDA v : v.total)
        numbers == OrdersMetrics(g.orders)
        first == SelectSeq(g.orders, LAMBDA o : o.seller = 1)
        others == SelectSeq(g.orders, LAMBDA o : o.seller # 1)
        sides == <<Overview(g.orders, first), Overview(g.orders, others)>>
        cancelled == IF "CANCELLED" \in DOMAIN numbers.byStatus
                     THEN numbers.byStatus["CANCELLED"] ELSE [count |-> 0, total |-> 0]
    IN  /\ panel.costTotal = payouts
        /\ panel.margin = customer.itemsTotal - payouts /\ panel.margin = GroupCard(g).margin
        /\ panel.total = customer.total /\ GroupCard(g).total = customer.total
        /\ numbers.orderCount + cancelled.count = customer.ordersCount
        /\ numbers.revenue + cancelled.total = customer.itemsTotal
        /\ numbers.margin <= panel.margin
        /\ \A f \in {"revenue", "margin"} :
               numbers[f] = sides[1].today[f] + sides[2].today[f]
        /\ sides[1].allTime = [totalOrders |-> numbers.orderCount, totalRevenue |-> numbers.revenue,
                                totalMargin |-> numbers.margin]
=============================================================================
