----------------------------- MODULE Checkout ------------------------------
(***************************************************************************)
(* Carts, stock and the orders made of them: createFromCart of             *)
(* src/src/orders/orders.service.ts, the cart handlers of                  *)
(* src/src/cart/cart.service.ts, and what else writes a listing's stock -  *)
(* the restock of a cancelled order and the seller's edit.                 *)
(*                                                                         *)
(* Requests overlap at every await.  A transaction's writes are in tx[h]   *)
(* until Commit; the rows it has written are locked, and an UPDATE or      *)
(* DELETE of such a row by another transaction waits.  The conditional     *)
(* decrement looks at the row as it is once the lock is granted.           *)
(*                                                                         *)
(* Money, addresses, snapshots and what follows the commit (cache, profile *)
(* phone, notifications) change none of these tables.                      *)
(***************************************************************************)
EXTENDS Integers, Sequences, FiniteSets, Functions

CONSTANTS
    Listings,    \* what is on sale
    Seller,      \* the seller of each listing
    Users,       \* the customers
    Handlers,    \* requests the process can be serving at the same time
    None,        \* no value
    MaxQuantity, \* bound: how many of one listing a cart holds
    MaxStock,    \* bound: how many of one listing there are
    MaxRequests  \* bound: how many requests are accepted in all

ASSUME SellerAssumption == DOMAIN Seller = Listings
ASSUME BoundsAssumption ==
    MaxQuantity \in Nat \ {0} /\ MaxStock \in Nat /\ MaxRequests \in Nat
ASSUME NoneAssumption == None \notin Users

VARIABLES
    stock,    \* listings.stock, committed
    active,   \* the listings whose status is ACTIVE, committed
    cart,     \* cart_items: the quantity, 0 when there is no row
    groups,   \* the order groups and their orders, oldest first, committed
    pc,       \* where each handler is
    req,      \* what each handler was asked for and has read
    alone,    \* the handlers no other request of whose customer has overlapped
    tx,       \* the uncommitted writes of its transaction
    requests  \* requests accepted so far

tables == <<stock, active, cart, groups>>
vars == <<tables, pc, req, alone, tx, requests>>

Cart == [Listings -> 0..MaxQuantity]

Empty == [l \in Listings |-> 0]

Stage == {"idle", "check", "claim", "clear", "placed",    \* createFromCart
          "row", "upsert", "update",                      \* cart.service
          "back", "cancel", "cancelled"}                  \* a cancellation

NoReq == [user |-> None, items |-> Empty, listing |-> None, next |-> 0,
          limit |-> 0, group |-> 0, seller |-> None]
NoTx == [taken |-> Empty, cleared |-> {}, back |-> {}, done |-> {}]

Init ==
    /\ stock \in [Listings -> 0..MaxStock]
    /\ active = Listings
    /\ cart \in [Users -> Cart]
    /\ groups = <<>>
    /\ pc = [h \in Handlers |-> "idle"]
    /\ req = [h \in Handlers |-> NoReq]
    /\ alone = Handlers
    /\ tx = [h \in Handlers |-> NoTx]
    /\ requests = 0

Goto(h, stage) == pc' = [pc EXCEPT ![h] = stage]

Leave(h) ==
    /\ Goto(h, "idle")
    /\ req' = [req EXCEPT ![h] = NoReq]
    /\ tx' = [tx EXCEPT ![h] = NoTx]
    /\ alone' = alone \cup {h}

\* A request arrives at an idle handler.
Accept(h) ==
    /\ pc[h] = "idle"
    /\ requests < MaxRequests
    /\ requests' = requests + 1

\* It comes from customer u, who may have others under way (a double tap).
AcceptFrom(h, u) ==
    LET others == {k \in Handlers : req[k].user = u}
    IN  /\ Accept(h)
        /\ alone' = IF others = {} THEN alone \cup {h}
                                   ELSE alone \ (others \cup {h})

-----------------------------------------------------------------------------
(* Row locks of the open transactions                                      *)

\* No other transaction has changed the stock of l, and not committed it.
ListingFree(h, l) ==
    \A k \in Handlers \ {h} :
        /\ tx[k].taken[l] = 0
        /\ l \notin tx[k].back

\* No other transaction has deleted the row of l in the cart of u.
RowFree(h, u, l) ==
    \A k \in Handlers \ {h} : req[k].user = u => l \notin tx[k].cleared

\* No other transaction has changed the order.
OrderFree(h, g, s) ==
    \A k \in Handlers \ {h} : <<g, s>> \notin tx[k].done

-----------------------------------------------------------------------------
(* createFromCart                                                          *)

\* cartItem.findMany; an empty cart is refused here.
ReadCart(h, u) ==
    /\ AcceptFrom(h, u)
    /\ cart[u] # Empty
    /\ req' = [req EXCEPT ![h] = [NoReq EXCEPT !.user = u, !.items = cart[u]]]
    /\ Goto(h, "check")
    /\ UNCHANGED <<tables, tx>>

Wanted(h) == {l \in Listings : req[h].items[l] > 0}

\* The listings of the cart, as they are now, could all be bought.
Available(h) ==
    \A l \in Wanted(h) : l \in active /\ req[h].items[l] <= stock[l]

\* The check before the transaction: it is opened, or the request refused.
CheckListings(h) ==
    /\ pc[h] = "check"
    /\ IF Available(h)
       THEN Goto(h, "claim") /\ UNCHANGED <<req, alone, tx>>
       ELSE Leave(h)
    /\ UNCHANGED <<tables, requests>>

Left(h) == {l \in Wanted(h) : tx[h].taken[l] = 0}

\* The items are claimed seller by seller, a seller's in the cart's order.
Begun(h) == {Seller[l] : l \in Wanted(h) \ Left(h)}
Turn(h, l) ==
    /\ l \in Left(h)
    /\ (\E k \in Left(h) : Seller[k] \in Begun(h)) => Seller[l] \in Begun(h)

\* Slip: the decrement has no condition on the stock.
StillThereAlways(h, l) == TRUE

\* The condition of the decrement, on the row as it is now.
StillThere(h, l) == stock[l] >= req[h].items[l]

\* listing.updateMany: the conditional decrement of one item.
Claim(h) ==
    /\ pc[h] = "claim"
    /\ \E l \in Listings :
         /\ Turn(h, l)
         /\ ListingFree(h, l)
         /\ StillThere(h, l)
         /\ tx' = [tx EXCEPT ![h].taken[l] = req[h].items[l]]
         /\ Goto(h, IF Left(h) = {l} THEN "clear" ELSE "claim")
    /\ UNCHANGED <<tables, req, alone, requests>>

\* ... which matched no row: the whole transaction is rolled back.
TakenDuringCheckout(h) ==
    /\ pc[h] = "claim"
    /\ \E l \in Listings :
         Turn(h, l) /\ ListingFree(h, l) /\ ~StillThere(h, l)
    /\ Leave(h)
    /\ UNCHANGED <<tables, requests>>

RowsOf(u) == {l \in Listings : cart[u][l] > 0}

\* cartItem.deleteMany: every row the customer has by now.
ClearCart(h) ==
    /\ pc[h] = "clear"
    /\ \A l \in RowsOf(req[h].user) : RowFree(h, req[h].user, l)
    /\ tx' = [tx EXCEPT ![h].cleared = RowsOf(req[h].user)]
    /\ Goto(h, "placed")
    /\ UNCHANGED <<tables, req, alone, requests>>

\* The quantities of items that belong to seller s.
PartOf(items, s) == [l \in Listings |-> IF Seller[l] = s THEN items[l] ELSE 0]

Sellers(items) == {Seller[l] : l \in {k \in Listings : items[k] > 0}}

\* orderGroup.create and one order.create for each seller; returned tells how
\* often the order has been cancelled (OrderGroups has the statuses).
NewGroup(u, items) ==
    [user |-> u,
     order |-> [s \in Sellers(items) |-> [items |-> PartOf(items, s),
                                          returned |-> 0]]]

\* Slip: the commit leaves the customer's cart as it was.
CommitCheckoutKeepsCart(h) ==
    /\ pc[h] = "placed"
    /\ stock' = [l \in Listings |-> stock[l] - tx[h].taken[l]]
    /\ groups' = Append(groups, NewGroup(req[h].user, req[h].items))
    /\ Leave(h)
    /\ UNCHANGED <<active, cart, requests>>

CommitCheckout(h) ==
    /\ pc[h] = "placed"
    /\ stock' = [l \in Listings |-> stock[l] - tx[h].taken[l]]
    /\ groups' = Append(groups, NewGroup(req[h].user, req[h].items))
    /\ cart' = [cart EXCEPT ![req[h].user] =
                   [l \in Listings |-> IF l \in tx[h].cleared THEN 0 ELSE @[l]]]
    /\ Leave(h)
    /\ UNCHANGED <<active, requests>>

-----------------------------------------------------------------------------
(* The cart                                                                *)

\* addItem: the listing must be on sale; its stock is remembered ...
ReadListing(h, u, l) ==
    /\ AcceptFrom(h, u)
    /\ l \in active
    /\ req' = [req EXCEPT ![h] = [NoReq EXCEPT !.user = u, !.listing = l,
                                               !.limit = stock[l]]]
    /\ Goto(h, "row")
    /\ UNCHANGED <<tables, tx>>

\* ... then the row of the cart, and the new quantity is checked ...
ReadRow(h, n) ==
    LET next == cart[req[h].user][req[h].listing] + n
    IN  /\ pc[h] = "row"
        /\ IF next > req[h].limit \/ next > MaxQuantity
           THEN Leave(h)
           ELSE /\ req' = [req EXCEPT ![h].next = next]
                /\ Goto(h, "upsert")
                /\ UNCHANGED <<alone, tx>>
        /\ UNCHANGED <<tables, requests>>

SetRow(h) == cart' = [cart EXCEPT ![req[h].user][req[h].listing] = req[h].next]

\* ... and written, whatever the row holds by then.
Upsert(h) ==
    /\ pc[h] = "upsert"
    /\ RowFree(h, req[h].user, req[h].listing)
    /\ SetRow(h)
    /\ Leave(h)
    /\ UNCHANGED <<stock, active, groups, requests>>

\* updateQuantity: findOwned reads the row and its listing ...
ReadOwned(h, u, l, n) ==
    /\ AcceptFrom(h, u)
    /\ cart[u][l] > 0
    /\ n <= stock[l]
    /\ req' = [req EXCEPT ![h] = [NoReq EXCEPT !.user = u, !.listing = l,
                                               !.next = n]]
    /\ Goto(h, "update")
    /\ UNCHANGED <<tables, tx>>

\* ... and the update fails when that row is gone by then: there is none, or
\* one that was added since, with another id.
UpdateRow(h) ==
    /\ pc[h] = "update"
    /\ RowFree(h, req[h].user, req[h].listing)
    /\ \/ cart[req[h].user][req[h].listing] > 0 /\ SetRow(h)
       \/ UNCHANGED cart
    /\ Leave(h)
    /\ UNCHANGED <<stock, active, groups, requests>>

\* removeItem (one row) and clearCart (every row): nothing that was read
\* before the delete decides what it does.
DeleteRows(h, u, rows) ==
    /\ AcceptFrom(h, u)
    /\ \A l \in rows : RowFree(h, u, l)
    /\ cart' = [cart EXCEPT ![u] =
                   [l \in Listings |-> IF l \in rows THEN 0 ELSE @[l]]]
    /\ UNCHANGED <<stock, active, groups, pc, req, tx>>

-----------------------------------------------------------------------------
(* The other writers of the stock                                          *)

\* A seller's PATCH of a listing: the stock and the status it names.
EditListing(h, l, n, on) ==
    /\ Accept(h)
    /\ ListingFree(h, l)
    /\ stock' = [stock EXCEPT ![l] = n]
    /\ active' = IF on THEN active \cup {l} ELSE active \ {l}
    /\ UNCHANGED <<cart, groups, pc, req, alone, tx>>

\* A cancellation reads its order, which must not be terminal ...
ReadOrder(h, g, s) ==
    /\ Accept(h)
    /\ groups[g].order[s].returned = 0
    /\ req' = [req EXCEPT ![h] = [NoReq EXCEPT
                  !.group = g, !.seller = s,
                  !.items = groups[g].order[s].items]]
    /\ Goto(h, "back")
    /\ UNCHANGED <<tables, alone, tx>>

AllBack(h, back) == Wanted(h) \subseteq back

\* ... restock: gives its items back, one listing after another ...
Restock(h) ==
    /\ pc[h] = "back"
    /\ \E l \in Wanted(h) \ tx[h].back :
         /\ ListingFree(h, l)
         /\ tx' = [tx EXCEPT ![h].back = @ \cup {l}]
         /\ Goto(h, IF AllBack(h, tx[h].back \cup {l}) THEN "cancel" ELSE "back")
    /\ UNCHANGED <<tables, req, alone, requests>>

\* ... updates the order ...
UpdateOrder(h) ==
    /\ pc[h] = "cancel"
    /\ OrderFree(h, req[h].group, req[h].seller)
    /\ tx' = [tx EXCEPT ![h].done = {<<req[h].group, req[h].seller>>}]
    /\ Goto(h, "cancelled")
    /\ UNCHANGED <<tables, req, alone, requests>>

\* ... and commits.
CommitCancel(h) ==
    /\ pc[h] = "cancelled"
    /\ stock' = [l \in Listings |-> IF l \in tx[h].back
                                    THEN stock[l] + req[h].items[l]
                                    ELSE stock[l]]
    /\ groups' = [groups EXCEPT
           ![req[h].group].order[req[h].seller].returned = @ + 1]
    /\ Leave(h)
    /\ UNCHANGED <<active, cart, requests>>

-----------------------------------------------------------------------------
(* Waiting and failing                                                     *)

\* The row the next statement of h writes belongs to an open transaction.
Waiting(h) ==
    \/ pc[h] = "claim" /\ \E l \in Listings : Turn(h, l) /\ ~ListingFree(h, l)
    \/ pc[h] = "clear" /\ \E l \in RowsOf(req[h].user) :
                              ~RowFree(h, req[h].user, l)
    \/ pc[h] = "back" /\ \E l \in Wanted(h) \ tx[h].back : ~ListingFree(h, l)
    \/ pc[h] = "cancel" /\ ~OrderFree(h, req[h].group, req[h].seller)

\* Slip: transactions may wait for a row for ever.
NeverGiveUp(h) == FALSE

\* PostgreSQL breaks a deadlock, or the transaction passes its time limit
\* while it waits: it is rolled back and the request fails.
GiveUp(h) ==
    /\ Waiting(h)
    /\ Leave(h)
    /\ UNCHANGED <<tables, requests>>

\* Any query fails, or the process dies: the open transaction is undone.
Fail(h) ==
    /\ pc[h] # "idle"
    /\ Leave(h)
    /\ UNCHANGED <<tables, requests>>

-----------------------------------------------------------------------------
\* Everything a handler does by itself once its request has been accepted.
Serve(h) ==
    \/ CheckListings(h) \/ Claim(h) \/ TakenDuringCheckout(h) \/ ClearCart(h)
    \/ CommitCheckout(h)
    \/ \E n \in 1..MaxQuantity : ReadRow(h, n)
    \/ Upsert(h) \/ UpdateRow(h)
    \/ Restock(h) \/ UpdateOrder(h) \/ CommitCancel(h)
    \/ GiveUp(h)

Ask(h) ==
    \/ \E u \in Users : ReadCart(h, u)
    \/ \E u \in Users, l \in Listings : ReadListing(h, u, l)
    \/ \E u \in Users, l \in Listings, n \in 1..MaxQuantity :
           ReadOwned(h, u, l, n)
    \/ \E u \in Users, l \in Listings : DeleteRows(h, u, {l})
    \/ \E u \in Users : DeleteRows(h, u, RowsOf(u))
    \/ \E l \in Listings, n \in 0..MaxStock, on \in BOOLEAN :
           EditListing(h, l, n, on)
    \/ \E g \in DOMAIN groups : \E s \in DOMAIN groups[g].order :
           ReadOrder(h, g, s)

Next == \E h \in Handlers : Ask(h) \/ Serve(h) \/ Fail(h)

Spec == Init /\ [][Next]_vars

\* The event loop goes on with every accepted request, and a transaction that
\* waits for a row is ended by its time limit; nobody has to send requests.
Fairness == \A h \in Handlers : WF_vars(Serve(h))

FairSpec == Spec /\ Fairness

-----------------------------------------------------------------------------
(* Properties                                                              *)

Request == [user : Users \cup {None},
            items : Cart,
            listing : Listings \cup {None},
            next : 0..MaxQuantity,
            limit : Nat,
            group : Nat,
            seller : Range(Seller) \cup {None}]

Transaction == [taken : Cart,
                cleared : SUBSET Listings,
                back : SUBSET Listings,
                done : SUBSET (Nat \X (Range(Seller) \cup {None}))]

\* The rows of one checkout: at most one order for each seller.
OrderRow == [items : Cart, returned : Nat]

IsGroup(g) ==
    /\ g.user \in Users
    /\ \E S \in SUBSET Range(Seller) : g.order \in [S -> OrderRow]

\* Every variable has its type; no stock is ever negative.
TypeOK ==
    /\ stock \in [Listings -> Nat]
    /\ active \subseteq Listings
    /\ cart \in [Users -> Cart]
    /\ \A g \in DOMAIN groups : IsGroup(groups[g])
    /\ pc \in [Handlers -> Stage]
    /\ req \in [Handlers -> Request]
    /\ alone \subseteq Handlers
    /\ tx \in [Handlers -> Transaction]
    /\ requests \in 0..MaxRequests

\* (orders.service.ts:194-318, 724-741) Whatever overlaps and fails, each
\* commit is one purchase of a whole cart that the stock could serve, with
\* exactly one order for each of its sellers, or one order that gives back all
\* it took: the conditional decrement and the row locks make them atomic.
Promise == INSTANCE Shop

ImplementsShop == Promise!Spec

\* (orders.service.ts:214-231) What the open transactions have claimed is
\* there to be taken when they commit, and of each listing one claim is open.
ClaimsAreCovered ==
    \A l \in Listings :
        /\ \A h \in Handlers : tx[h].taken[l] <= stock[l]
        /\ \A h, k \in Handlers :
               tx[h].taken[l] > 0 /\ tx[k].taken[l] > 0 => h = k

\* (the time limit of a transaction) Every accepted request ends, although two
\* checkouts may hold the listings in opposite order, or a checkout and a
\* cancellation.
RequestsEnd == \A h \in Handlers : pc[h] # "idle" ~> pc[h] = "idle"

\* The step is the commit of the checkout of h.
Places(h) == pc[h] = "placed" /\ pc'[h] = "idle" /\ groups' # groups

\* (orders.service.ts:112-138, 305) A checkout orders exactly what is in the
\* cart and leaves the cart empty: nothing is ordered twice, and no row goes
\* that was not ordered - unless another request of the same customer overlaps.
CheckoutOrdersTheCart ==
    [][\A h \in Handlers : Places(h) /\ h \in alone =>
          /\ req[h].items = cart[req[h].user]
          /\ cart' = [cart EXCEPT ![req[h].user] = Empty]]_vars

-----------------------------------------------------------------------------
(* The inductive invariants (Checkout_proofs), first the one behind            *)
(* ClaimsAreCovered and ImplementsShop.                                        *)

\* A checkout claims nothing but what it wants, and all of it in the end.
BuyingAt(stage, q, x) ==
    /\ \A l \in Listings : x.taken[l] \in {0, q.items[l]}
    /\ IF stage \in {"check", "claim", "clear", "placed"}
       THEN q.user \in Users /\ q.items # Empty
       ELSE x.taken = Empty
    /\ stage \in {"clear", "placed"} => x.taken = q.items

\* A cart request knows its row.
CartAt(stage, q) ==
    stage \in {"row", "upsert", "update"} =>
        q.user \in Users /\ q.listing \in Listings

\* A cancellation has read its order, and gives all of it back in the end.
CancellingAt(stage, q, x) ==
    /\ stage \in {"back", "cancel", "cancelled"} =>
           /\ q.group \in DOMAIN groups
           /\ q.seller \in DOMAIN groups[q.group].order
           /\ q.items = groups[q.group].order[q.seller].items
    /\ stage \in {"cancel", "cancelled"} =>
           \A l \in Listings : q.items[l] > 0 => l \in x.back

RequestsAreSound ==
    \A h \in Handlers : /\ BuyingAt(pc[h], req[h], tx[h])
                        /\ CartAt(pc[h], req[h])
                        /\ CancellingAt(pc[h], req[h], tx[h])

IInv == TypeOK /\ ClaimsAreCovered /\ RequestsAreSound

\* The one behind CheckoutOrdersTheCart: a request that is alone is its customer's
\* only one, and a checkout that is has the cart as it still is.
AloneAt(h) ==
    h \in alone /\ req[h].user \in Users =>
        /\ \A k \in Handlers \ {h} : req[k].user # req[h].user
        /\ pc[h] \in {"check", "claim", "clear", "placed"} => req[h].items = cart[req[h].user]
        /\ pc[h] = "placed" => tx[h].cleared = RowsOf(req[h].user)

AloneIsRight == \A h \in Handlers : AloneAt(h) /\ (pc[h] = "idle" => req[h].user = None)
=============================================================================
