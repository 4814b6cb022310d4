------------------------------- MODULE Views -------------------------------
(***************************************************************************)
(* What the customer, a seller and the platform are shown of an order      *)
(* group, of the orders' numbers and of a listing.  Pure:                  *)
(* a view is a record of what its reader can tell apart; names, addresses, *)
(* pictures and dates, the same for every reader, are left out.            *)
(***************************************************************************)
EXTENDS OrderStatus, PriceEngine, SequencesExt

Total(rows, Field(_)) == FoldLeft(LAMBDA sum, row : sum + Field(row), 0, rows)

-----------------------------------------------------------------------------
(* The rows: createFromCart copies the prices of the day into the order *)

ItemRow(listing, quantity) ==
    [price |-> listing.price, quantity |-> quantity, total |-> listing.price * quantity,
     costPrice |-> listing.costPrice, costTotal |-> listing.costPrice * quantity,
     oldPrice |-> IF listing.promotionId # None THEN listing.oldPrice ELSE None]

OrderRow(seller, status, items) ==
    [seller |-> seller, status |-> status, items |-> items,
     itemsTotal |-> Total(items, LAMBDA i : i.total),
     costTotal |-> Total(items, LAMBDA i : i.costTotal)]

\* Order i is the i-th seller's.
GroupRow(statuses, goods, fee) ==
    LET orders == [i \in DOMAIN statuses |-> OrderRow(i, statuses[i], goods[i])]
        itemsTotal == Total(orders, LAMBDA o : o.itemsTotal)
    IN  [status |-> DeriveGroupStatus(ToSet(statuses)), orders |-> orders,
         itemsTotal |-> itemsTotal, deliveryFee |-> fee, total |-> itemsTotal + fee]

-----------------------------------------------------------------------------
(* Who may read which orders *)

SuperAdmin == [role |-> "SUPER_ADMIN", sellerId |-> None]
Seller(s) == [role |-> "SELLER", sellerId |-> s]

SellerScopeId(user) == IF user.role = "SUPER_ADMIN" THEN None ELSE user.sellerId

WithGroupOrders(g, scope) ==
    [g EXCEPT !.orders = SelectSeq(@, LAMBDA o : scope = None \/ o.seller = scope)]

\* groupStaffScope: the seller asked for counts for the platform alone.
InStaffScope(user, asked, g) ==
    LET of == IF user.role = "SUPER_ADMIN" THEN asked ELSE user.sellerId
    IN  of = None \/ \E i \in DOMAIN g.orders : g.orders[i].seller = of

\* The answers to the customer: retail only.
ItemResponse(i) == [price |-> i.price, quantity |-> i.quantity, total |-> i.total]

OrderResponse(o) ==
    [seller |-> o.seller, status |-> o.status, itemsTotal |-> o.itemsTotal,
     items |-> [j \in DOMAIN o.items |-> ItemResponse(o.items[j])]]

OrderGroupResponse(g) ==
    [status |-> g.status, itemsTotal |-> g.itemsTotal, deliveryFee |-> g.deliveryFee,
     total |-> g.total, ordersCount |-> Len(g.orders),
     orders |-> [i \in DOMAIN g.orders |-> OrderResponse(g.orders[i])]]

\* The platform is shown both prices, item by item, and what it earns.
AdminItemResponse(i) ==
    ItemResponse(i) @@ [costPrice |-> i.costPrice, costTotal |-> i.costTotal, oldPrice |-> i.oldPrice]

AdminOrderGroupResponse(g) ==
    LET base == OrderGroupResponse(g)
        costTotal == Total(g.orders, LAMBDA o : o.costTotal)
        both(i) == [base.orders[i] EXCEPT
                       !.items = [j \in DOMAIN @ |-> AdminItemResponse(g.orders[i].items[j])]]
                   @@ [costTotal |-> g.orders[i].costTotal]
    IN  [base EXCEPT !.orders = [i \in DOMAIN @ |-> both(i)]]
        @@ [costTotal |-> costTotal, margin |-> base.itemsTotal - costTotal]

\* A seller is shown cost in the place of retail.
PayoutItem(i) == [price |-> i.costPrice, quantity |-> i.quantity, total |-> i.costTotal]

PayoutOrder(o) ==
    [OrderResponse(o) EXCEPT !.itemsTotal = o.costTotal,
                             !.items = [j \in DOMAIN @ |-> PayoutItem(o.items[j])]]

\* Slip: the orders are the seller's, the sums still the group's.
GroupSums(g, orders) == g.itemsTotal

\* The sums of a seller's answer are taken over the orders it may see.
VisibleSum(g, orders) == Total(orders, LAMBDA o : o.itemsTotal)

SellerOrderGroupResponse(g) ==
    LET orders == [i \in DOMAIN g.orders |-> PayoutOrder(g.orders[i])]
        sum == VisibleSum(g, orders)
    IN  [OrderGroupResponse(g) EXCEPT !.orders = orders, !.itemsTotal = sum,
                                      !.deliveryFee = 0, !.total = sum]

ToResponse(user, g) ==
    IF user.role = "SUPER_ADMIN" THEN AdminOrderGroupResponse(g) ELSE SellerOrderGroupResponse(g)

NotFound == [orders |-> <<>>]

\* To a seller that takes no part the group does not exist.
FindOneGroupForStaff(user, g) ==
    LET seen == WithGroupOrders(g, SellerScopeId(user))
    IN  IF seen.orders = <<>> THEN NotFound ELSE seen

FindOne(user, g) ==
    LET found == FindOneGroupForStaff(user, g)
    IN  IF found = NotFound THEN found ELSE ToResponse(user, found)

\* Of the groups gs; asked is the seller in the query, or None.
FindGroupsForStaff(user, asked, gs) ==
    {WithGroupOrders(g, SellerScopeId(user)) : g \in {h \in gs : InStaffScope(user, asked, h)}}

FindAll(user, asked, gs) == {ToResponse(user, g) : g \in FindGroupsForStaff(user, asked, gs)}

-----------------------------------------------------------------------------
(* The cards and the list of the seller's bot *)

\* Siblings are counted, and shown when the checkout was split.
SellerCard(o, g) ==
    [status |-> o.status,
     part |-> IF Len(g.orders) > 1
              THEN <<CHOOSE i \in DOMAIN g.orders : g.orders[i] = o, Len(g.orders)>> ELSE <<>>,
     lines |-> [j \in DOMAIN o.items |-> PayoutItem(o.items[j])],
     payout |-> o.costTotal]

\* sendOrderList: an administrator without a shop is shown everybody's.
SellerList(user, among, g) ==
    LET found == SelectSeq(g.orders, LAMBDA o : /\ user.sellerId = None \/ o.seller = user.sellerId
                                                /\ o.status \in among)
    IN  [i \in DOMAIN found |-> [status |-> found[i].status, sum |-> found[i].costTotal]]

GroupCard(g) ==
    [orders |-> [i \in DOMAIN g.orders |->
                    [status |-> g.orders[i].status, sum |-> g.orders[i].itemsTotal,
                     payout |-> g.orders[i].costTotal,
                     lines |-> [j \in DOMAIN g.orders[i].items |-> ItemResponse(g.orders[i].items[j])]]],
     total |-> g.total,
     margin |-> Total(g.orders, LAMBDA o : o.itemsTotal - o.costTotal)]

-----------------------------------------------------------------------------
(* The numbers of the admin panel *)

Average(revenue, count) == IF count = 0 THEN 0 ELSE (2 * revenue + count) \div (2 * count)

\* Slip: cancelled orders count as sold.
AllOrders(orders) == orders

NotCancelled(orders) == SelectSeq(orders, LAMBDA o : o.status # "CANCELLED")

\* getOrders: the sums leave cancelled orders out, the counts by status do not.
OrdersMetrics(orders) ==
    LET kept == NotCancelled(orders)
        revenue == Total(kept, LAMBDA o : o.itemsTotal)
        with(s) == SelectSeq(orders, LAMBDA o : o.status = s)
    IN  [orderCount |-> Len(kept), revenue |-> revenue,
         margin |-> revenue - Total(kept, LAMBDA o : o.costTotal),
         averageOrderValue |-> Average(revenue, Len(kept)),
         byStatus |-> [s \in {orders[i].status : i \in DOMAIN orders} |->
                          [count |-> Len(with(s)), total |-> Total(with(s), LAMBDA o : o.itemsTotal)]]]

\* getOverview: the orders of the day since midnight UTC, and all of them.
Overview(orders, today) ==
    LET all == NotCancelled(orders)
        revenue == Total(all, LAMBDA o : o.itemsTotal)
    IN  [today |-> OrdersMetrics(today),
         allTime |-> [totalOrders |-> Len(all), totalRevenue |-> revenue,
                      totalMargin |-> revenue - Total(all, LAMBDA o : o.costTotal)]]

-----------------------------------------------------------------------------
(* Listings: [seller, costPrice, customMarkupBps, price, oldPrice, promotionId, *)
(* source, stock, status], as PricingService left them                          *)

OldPriceShown(l) == IF l.promotionId # None THEN l.oldPrice ELSE None

ListingCard(l) ==
    [price |-> l.price, oldPrice |-> OldPriceShown(l), stock |-> l.stock,
     available |-> l.status = "ACTIVE" /\ l.stock > 0]

\* A neighbouring variant on the page of a listing.
ListingVariant(l) == [price |-> l.price, oldPrice |-> OldPriceShown(l)]

ListingDetail(l, variants) ==
    ListingCard(l) @@ [promotion |-> l.promotionId, seller |-> l.seller,
                       variants |-> {ListingVariant(v) : v \in variants}]

CartListing(l) == ListingCard(l) @@ [sellerId |-> l.seller, promotion |-> l.promotionId]

\* The panel: the platform's side of the price for the platform only.
AdminListing(l, role) ==
    LET base == [seller |-> l.seller, costPrice |-> l.costPrice, stock |-> l.stock, status |-> l.status]
    IN  IF role # "SUPER_ADMIN" THEN base
        ELSE base @@ [price |-> l.price, customMarkupBps |-> l.customMarkupBps,
                      priceSource |-> l.source, oldPrice |-> OldPriceShown(l),
                      promotion |-> l.promotionId]
=============================================================================
