-------------------------- MODULE Checkout_proofs --------------------------
(***************************************************************************)
(* Checkout implements Shop: for any customers, listings, sellers and      *)
(* number of overlapping requests, each commit is one purchase of a whole  *)
(* cart that the stock covers, or one whole return.  The invariant relates *)
(* a transaction's uncommitted writes to what its request has read; a      *)
(* frame lemma deals with the many steps that touch only one handler.      *)
(***************************************************************************)
EXTENDS Checkout, TLAPS

Group ==
    [user : Users, order : UNION {[S -> OrderRow] : S \in SUBSET Range(Seller)}]

Inv == IInv /\ groups \in Seq(Group)

USE BoundsAssumption

LEMMA CartFacts ==
    /\ Empty \in Cart
    /\ \A c \in Cart, l \in Listings : c[l] \in Nat /\ c[l] <= MaxQuantity
    /\ \A c \in Cart : c # Empty <=> \E l \in Listings : c[l] > 0
<1>1. Empty \in Cart
  BY DEF Empty, Cart
<1>2. \A c \in Cart, l \in Listings : c[l] \in Nat /\ c[l] <= MaxQuantity
  BY DEF Cart
<1>3. ASSUME NEW c \in Cart
      PROVE  c # Empty <=> \E l \in Listings : c[l] > 0
  <2>1. CASE \E l \in Listings : c[l] > 0
    BY <2>1 DEF Empty
  <2>2. CASE ~\E l \in Listings : c[l] > 0
    <3>1. \A l \in Listings : c[l] = 0
      BY <1>2, <2>2
    <3> QED BY <2>2, <3>1 DEF Empty, Cart
  <2> QED BY <2>1, <2>2
<1> QED BY <1>1, <1>2, <1>3

\* A checkout makes one order for each seller, of that seller's items.
LEMMA NewGroupType ==
    ASSUME NEW u \in Users, NEW items \in Cart
    PROVE  NewGroup(u, items) \in Group
<1>1. Sellers(items) \in SUBSET Range(Seller)
  BY SellerAssumption DEF Sellers, Range
<1>2. ASSUME NEW s \in Sellers(items)
      PROVE  [items |-> PartOf(items, s), returned |-> 0] \in OrderRow
  <2>1. PartOf(items, s) \in Cart
    BY DEF PartOf, Cart
  <2> QED BY <2>1 DEF OrderRow
<1>3. [s \in Sellers(items) |-> [items |-> PartOf(items, s), returned |-> 0]]
        \in [Sellers(items) -> OrderRow]
  BY <1>2
<1> QED BY <1>1, <1>3 DEF NewGroup, Group

\* The rows of one group, as IsGroup describes them.
LEMMA GroupFacts ==
    ASSUME groups \in Seq(Group), NEW g \in DOMAIN groups
    PROVE  /\ g \in Nat /\ groups[g] \in Group
           /\ IsGroup(groups[g])
           /\ \A s \in DOMAIN groups[g].order :
                  s \in Range(Seller) /\ groups[g].order[s] \in OrderRow
<1>1. g \in Nat /\ groups[g] \in Group
  OBVIOUS
<1>2. PICK S \in SUBSET Range(Seller) : groups[g].order \in [S -> OrderRow]
  BY <1>1 DEF Group
<1> QED BY <1>1, <1>2 DEF IsGroup, Group

-----------------------------------------------------------------------------
(* The step of one handler                                                 *)

OthersKeep(h) ==
    \A k \in Handlers \ {h} : pc'[k] = pc[k] /\ req'[k] = req[k] /\ tx'[k] = tx[k]

\* The step leaves the other handlers alone and its own in a sound state.
Local(h) ==
    /\ pc' \in [Handlers -> Stage]
    /\ req' \in [Handlers -> Request]
    /\ tx' \in [Handlers -> Transaction]
    /\ alone' \subseteq Handlers
    /\ OthersKeep(h)
    /\ BuyingAt(pc'[h], req'[h], tx'[h])
    /\ CartAt(pc'[h], req'[h])
    /\ CancellingAt(pc'[h], req'[h], tx'[h])

LEMMA LocalFromParts ==
    ASSUME TypeOK, NEW h \in Handlers, NEW stage \in Stage,
           NEW q \in Request, NEW x \in Transaction,
           pc' = [pc EXCEPT ![h] = stage], req' = [req EXCEPT ![h] = q],
           tx' = [tx EXCEPT ![h] = x], alone' \subseteq Handlers,
           BuyingAt(stage, q, x), CartAt(stage, q), CancellingAt(stage, q, x)
    PROVE  Local(h) /\ pc'[h] = stage /\ req'[h] = q /\ tx'[h] = x
BY DEF Local, OthersKeep, TypeOK

LEMMA NothingIsTyped == NoReq \in Request /\ NoTx \in Transaction
BY CartFacts DEF NoReq, NoTx, Request, Transaction

\* What is known of a handler before its step.
LEMMA HandlerFacts ==
    ASSUME IInv, NEW h \in Handlers
    PROVE  /\ pc[h] \in Stage /\ req[h] \in Request /\ tx[h] \in Transaction
           /\ req[h].items \in Cart /\ tx[h].taken \in Cart
           /\ BuyingAt(pc[h], req[h], tx[h])
           /\ CartAt(pc[h], req[h])
           /\ CancellingAt(pc[h], req[h], tx[h])
           /\ pc[h] = "idle" => tx[h].taken = Empty
BY DEF IInv, TypeOK, RequestsAreSound, Request, Transaction, BuyingAt

LEMMA AcceptTypes ==
    ASSUME TypeOK, NEW h \in Handlers, NEW u \in Users, AcceptFrom(h, u)
    PROVE  alone' \subseteq Handlers
BY DEF TypeOK, AcceptFrom

LEMMA LeaveIsLocal ==
    ASSUME IInv, NEW h \in Handlers, Leave(h)
    PROVE  Local(h) /\ tx'[h].taken = Empty
<1>1. BuyingAt("idle", NoReq, NoTx)
  BY DEF BuyingAt, NoTx, NoReq, Empty
<1>2. CartAt("idle", NoReq) /\ CancellingAt("idle", NoReq, NoTx)
  BY DEF CartAt, CancellingAt
<1>3. "idle" \in Stage /\ alone' \subseteq Handlers
  BY DEF Stage, Leave, IInv, TypeOK
<1>4. /\ pc' = [pc EXCEPT ![h] = "idle"]
      /\ req' = [req EXCEPT ![h] = NoReq]
      /\ tx' = [tx EXCEPT ![h] = NoTx]
  BY DEF Leave, Goto
<1>5. Local(h) /\ tx'[h] = NoTx
  BY <1>1, <1>2, <1>3, <1>4, NothingIsTyped, LocalFromParts DEF IInv
<1> QED BY <1>5 DEF NoTx

LEMMA AskIsLocal ==
    ASSUME IInv, groups \in Seq(Group), NEW h \in Handlers,
           \/ \E u \in Users : ReadCart(h, u)
           \/ \E u \in Users, l \in Listings : ReadListing(h, u, l)
           \/ \E u \in Users, l \in Listings, n \in 1..MaxQuantity :
                  ReadOwned(h, u, l, n)
           \/ \E g \in DOMAIN groups : \E s \in DOMAIN groups[g].order :
                  ReadOrder(h, g, s)
    PROVE  Local(h) /\ tx' = tx
<1>1. /\ tx[h] \in Transaction /\ tx[h].taken = Empty /\ tx' = tx
      /\ tx' = [tx EXCEPT ![h] = tx[h]]
  BY HandlerFacts
     DEF ReadCart, ReadListing, ReadOwned, ReadOrder, AcceptFrom, Accept, IInv,
         TypeOK
<1>2. ASSUME NEW u \in Users, ReadCart(h, u)
      PROVE  Local(h)
  <2> DEFINE q == [NoReq EXCEPT !.user = u, !.items = cart[u]]
  <2>1. q \in Request /\ q.user = u /\ q.items = cart[u]
    BY NothingIsTyped DEF Request, NoReq, IInv, TypeOK
  <2>2. pc' = [pc EXCEPT ![h] = "check"] /\ req' = [req EXCEPT ![h] = q]
    BY <1>2 DEF ReadCart, Goto
  <2>3. BuyingAt("check", q, tx[h])
    BY <1>1, <1>2, <2>1 DEF BuyingAt, ReadCart, Empty
  <2>4. CartAt("check", q) /\ CancellingAt("check", q, tx[h]) /\ "check" \in Stage
    BY DEF CartAt, CancellingAt, Stage
  <2>5. alone' \subseteq Handlers
    BY <1>2, AcceptTypes DEF ReadCart, IInv
  <2> QED BY <1>1, <2>1, <2>2, <2>3, <2>4, <2>5, LocalFromParts DEF IInv
<1>3. ASSUME NEW u \in Users, NEW l \in Listings, ReadListing(h, u, l)
      PROVE  Local(h)
  <2> DEFINE q == [NoReq EXCEPT !.user = u, !.listing = l, !.limit = stock[l]]
  <2>1. q \in Request /\ q.user = u /\ q.listing = l /\ q.items = Empty
    BY NothingIsTyped DEF Request, NoReq, IInv, TypeOK
  <2>2. pc' = [pc EXCEPT ![h] = "row"] /\ req' = [req EXCEPT ![h] = q]
    BY <1>3 DEF ReadListing, Goto
  <2>3. BuyingAt("row", q, tx[h])
    BY <1>1, <2>1 DEF BuyingAt, Empty
  <2>4. CartAt("row", q) /\ CancellingAt("row", q, tx[h]) /\ "row" \in Stage
    BY <2>1 DEF CartAt, CancellingAt, Stage
  <2>5. alone' \subseteq Handlers
    BY <1>3, AcceptTypes DEF ReadListing, IInv
  <2> QED BY <1>1, <2>1, <2>2, <2>3, <2>4, <2>5, LocalFromParts DEF IInv
<1>4. ASSUME NEW u \in Users, NEW l \in Listings, NEW n \in 1..MaxQuantity,
             ReadOwned(h, u, l, n)
      PROVE  Local(h)
  <2> DEFINE q == [NoReq EXCEPT !.user = u, !.listing = l, !.next = n]
  <2>1. q \in Request /\ q.user = u /\ q.listing = l /\ q.items = Empty
    <3>1. n \in 0..MaxQuantity
      OBVIOUS
    <3> QED BY <3>1, NothingIsTyped DEF Request, NoReq
  <2>2. pc' = [pc EXCEPT ![h] = "update"] /\ req' = [req EXCEPT ![h] = q]
    BY <1>4 DEF ReadOwned, Goto
  <2>3. BuyingAt("update", q, tx[h])
    BY <1>1, <2>1 DEF BuyingAt, Empty
  <2>4. CartAt("update", q) /\ CancellingAt("update", q, tx[h]) /\ "update" \in Stage
    BY <2>1 DEF CartAt, CancellingAt, Stage
  <2>5. alone' \subseteq Handlers
    BY <1>4, AcceptTypes DEF ReadOwned, IInv
  <2> QED BY <1>1, <2>1, <2>2, <2>3, <2>4, <2>5, LocalFromParts DEF IInv
<1>5. ASSUME NEW g \in DOMAIN groups, NEW s \in DOMAIN groups[g].order,
             ReadOrder(h, g, s)
      PROVE  Local(h)
  <2> DEFINE q == [NoReq EXCEPT !.group = g, !.seller = s,
                                !.items = groups[g].order[s].items]
  <2>1. g \in Nat /\ s \in Range(Seller) /\ groups[g].order[s].items \in Cart
    BY GroupFacts DEF OrderRow
  <2>2. /\ q \in Request /\ q.group = g /\ q.seller = s
        /\ q.items = groups[g].order[s].items
    BY <2>1, NothingIsTyped DEF Request, NoReq
  <2>3. pc' = [pc EXCEPT ![h] = "back"] /\ req' = [req EXCEPT ![h] = q]
    BY <1>5 DEF ReadOrder, Goto
  <2>4. BuyingAt("back", q, tx[h])
    BY <1>1 DEF BuyingAt, Empty
  <2>5. CartAt("back", q) /\ CancellingAt("back", q, tx[h]) /\ "back" \in Stage
    BY <2>2 DEF CartAt, CancellingAt, Stage
  <2>6. alone' \subseteq Handlers
    BY <1>5 DEF ReadOrder, IInv, TypeOK
  <2> QED BY <1>1, <2>2, <2>3, <2>4, <2>5, <2>6, LocalFromParts DEF IInv
<1> QED BY <1>1, <1>2, <1>3, <1>4, <1>5

\* A step inside a request: only the stage, or one of req and tx, changes.
LEMMA ServeIsLocal ==
    ASSUME IInv, NEW h \in Handlers,
           \/ CheckListings(h) \/ ClearCart(h)
           \/ \E n \in 1..MaxQuantity : ReadRow(h, n)
           \/ Restock(h) \/ UpdateOrder(h)
    PROVE  Local(h) /\ tx'[h].taken \in {tx[h].taken, Empty}
<1>1. /\ pc[h] \in Stage /\ req[h] \in Request /\ tx[h] \in Transaction
      /\ BuyingAt(pc[h], req[h], tx[h]) /\ CartAt(pc[h], req[h])
      /\ CancellingAt(pc[h], req[h], tx[h])
  BY HandlerFacts
<1>2. TypeOK /\ req = [req EXCEPT ![h] = req[h]] /\ tx = [tx EXCEPT ![h] = tx[h]]
  BY DEF IInv, TypeOK
<1>3. CASE CheckListings(h)
  <2>1. CASE Available(h)
    <3>1. /\ pc' = [pc EXCEPT ![h] = "claim"] /\ req' = req /\ tx' = tx
          /\ alone' = alone /\ pc[h] = "check"
      BY <1>3, <2>1 DEF CheckListings, Goto
    <3>2. "claim" \in Stage /\ alone' \subseteq Handlers
      BY <1>2, <3>1 DEF Stage, TypeOK
    <3>3. BuyingAt("claim", req[h], tx[h])
      BY <1>1, <3>1 DEF BuyingAt
    <3>4. CartAt("claim", req[h]) /\ CancellingAt("claim", req[h], tx[h])
      BY DEF CartAt, CancellingAt
    <3> QED BY <1>1, <1>2, <3>1, <3>2, <3>3, <3>4, LocalFromParts
  <2>2. CASE ~Available(h)
    BY <1>3, <2>2, LeaveIsLocal DEF CheckListings
  <2> QED BY <2>1, <2>2
<1>4. CASE ClearCart(h)
  <2> DEFINE x == [tx[h] EXCEPT !.cleared = RowsOf(req[h].user)]
             stage == "placed"
  <2>1. x \in Transaction /\ x.taken = tx[h].taken /\ x.back = tx[h].back
    BY <1>1 DEF Transaction, RowsOf
  <2>2. /\ pc' = [pc EXCEPT ![h] = stage] /\ req' = [req EXCEPT ![h] = req[h]]
        /\ tx' = [tx EXCEPT ![h] = x] /\ alone' = alone /\ pc[h] = "clear"
    BY <1>2, <1>4 DEF ClearCart, Goto
  <2>3. stage \in Stage /\ alone' \subseteq Handlers
    BY <1>2, <2>2 DEF Stage, TypeOK
  <2> HIDE DEF x
  <2>4. BuyingAt(stage, req[h], x)
    BY <1>1, <2>1, <2>2 DEF BuyingAt
  <2>5. CartAt(stage, req[h]) /\ CancellingAt(stage, req[h], x)
    BY DEF CartAt, CancellingAt
  <2>6. Local(h) /\ tx'[h] = x
    <3>1. TypeOK /\ req[h] \in Request /\ x \in Transaction
      BY <1>1, <1>2, <2>1
    <3>2. /\ pc' = [pc EXCEPT ![h] = stage] /\ req' = [req EXCEPT ![h] = req[h]]
          /\ tx' = [tx EXCEPT ![h] = x]
      BY <2>2
    <3> HIDE DEF stage
    <3> QED BY <2>3, <2>4, <2>5, <3>1, <3>2, LocalFromParts
  <2> QED BY <2>1, <2>6
<1>5. ASSUME NEW n \in 1..MaxQuantity, ReadRow(h, n)
      PROVE  Local(h) /\ tx'[h].taken \in {tx[h].taken, Empty}
  <2> DEFINE next == cart[req[h].user][req[h].listing] + n
             q == [req[h] EXCEPT !.next = next]
  <2>1. CASE next > req[h].limit \/ next > MaxQuantity
    BY <1>5, <2>1, LeaveIsLocal DEF ReadRow
  <2>2. CASE ~(next > req[h].limit \/ next > MaxQuantity)
    <3>1. /\ pc' = [pc EXCEPT ![h] = "upsert"] /\ req' = [req EXCEPT ![h] = q]
          /\ tx' = tx /\ alone' = alone /\ pc[h] = "row"
      BY <1>5, <2>2 DEF ReadRow, Goto
    <3>2. req[h].user \in Users /\ req[h].listing \in Listings
      BY <1>1, <3>1 DEF CartAt
    <3>3. next \in 0..MaxQuantity
      <4>1. cart[req[h].user] \in Cart
        BY <1>2, <3>2 DEF TypeOK
      <4>2. cart[req[h].user][req[h].listing] \in Nat
        BY <3>2, <4>1, CartFacts
      <4> QED BY <2>2, <4>2
    <3> HIDE DEF next
    <3>4. /\ q \in Request /\ q.items = req[h].items /\ q.user = req[h].user
          /\ q.listing = req[h].listing
      BY <1>1, <3>3 DEF Request
    <3>5. "upsert" \in Stage /\ alone' \subseteq Handlers
      BY <1>2, <3>1 DEF Stage, TypeOK
    <3> HIDE DEF q
    <3>6. BuyingAt("upsert", q, tx[h])
      BY <1>1, <3>1, <3>4 DEF BuyingAt
    <3>7. CartAt("upsert", q) /\ CancellingAt("upsert", q, tx[h])
      BY <3>2, <3>4 DEF CartAt, CancellingAt
    <3> QED BY <1>1, <1>2, <3>1, <3>4, <3>5, <3>6, <3>7, LocalFromParts
  <2> QED BY <2>1, <2>2
<1>6. CASE Restock(h)
  <2>1. PICK l \in Wanted(h) \ tx[h].back :
            /\ tx' = [tx EXCEPT ![h].back = @ \cup {l}]
            /\ Goto(h, IF AllBack(h, tx[h].back \cup {l}) THEN "cancel" ELSE "back")
    BY <1>6 DEF Restock
  <2> DEFINE x == [tx[h] EXCEPT !.back = @ \cup {l}]
             stage == IF AllBack(h, tx[h].back \cup {l}) THEN "cancel" ELSE "back"
  <2>2. /\ x \in Transaction /\ x.taken = tx[h].taken
        /\ x.back = tx[h].back \cup {l}
    BY <1>1, <2>1 DEF Transaction, Wanted
  <2>3. /\ pc' = [pc EXCEPT ![h] = stage] /\ req' = [req EXCEPT ![h] = req[h]]
        /\ tx' = [tx EXCEPT ![h] = x] /\ alone' = alone /\ pc[h] = "back"
    BY <1>2, <1>6, <2>1 DEF Restock, Goto
  <2>4. stage \in {"cancel", "back"} /\ stage \in Stage /\ alone' \subseteq Handlers
    BY <1>2, <2>3 DEF Stage, TypeOK
  <2>5. stage = "cancel" => \A m \in Listings : req[h].items[m] > 0 => m \in x.back
    BY <2>2 DEF AllBack, Wanted
  <2> HIDE DEF x, stage
  <2>6. BuyingAt(stage, req[h], x)
    BY <1>1, <2>2, <2>3, <2>4 DEF BuyingAt
  <2>7. CartAt(stage, req[h]) /\ CancellingAt(stage, req[h], x)
    BY <1>1, <2>3, <2>4, <2>5 DEF CartAt, CancellingAt
  <2>8. Local(h) /\ tx'[h] = x
    BY <1>1, <1>2, <2>2, <2>3, <2>4, <2>6, <2>7, LocalFromParts
  <2> QED BY <2>2, <2>8
<1>7. CASE UpdateOrder(h)
  <2> DEFINE x == [tx[h] EXCEPT !.done = {<<req[h].group, req[h].seller>>}]
             stage == "cancelled"
  <2>1. x \in Transaction /\ x.taken = tx[h].taken /\ x.back = tx[h].back
    BY <1>1 DEF Transaction, Request
  <2>2. /\ pc' = [pc EXCEPT ![h] = stage] /\ req' = [req EXCEPT ![h] = req[h]]
        /\ tx' = [tx EXCEPT ![h] = x] /\ alone' = alone /\ pc[h] = "cancel"
    BY <1>2, <1>7 DEF UpdateOrder, Goto
  <2>3. stage \in Stage /\ alone' \subseteq Handlers
    BY <1>2, <2>2 DEF Stage, TypeOK
  <2> HIDE DEF x
  <2>4. BuyingAt(stage, req[h], x)
    BY <1>1, <2>1, <2>2 DEF BuyingAt
  <2>5. CartAt(stage, req[h]) /\ CancellingAt(stage, req[h], x)
    BY <1>1, <2>1, <2>2 DEF CartAt, CancellingAt
  <2>6. Local(h) /\ tx'[h] = x
    <3>1. TypeOK /\ req[h] \in Request /\ x \in Transaction
      BY <1>1, <1>2, <2>1
    <3>2. /\ pc' = [pc EXCEPT ![h] = stage] /\ req' = [req EXCEPT ![h] = req[h]]
          /\ tx' = [tx EXCEPT ![h] = x]
      BY <2>2
    <3> HIDE DEF stage
    <3> QED BY <2>3, <2>4, <2>5, <3>1, <3>2, LocalFromParts
  <2> QED BY <2>1, <2>6
<1> QED BY <1>3, <1>4, <1>5, <1>6, <1>7

\* The claim of one item.
LEMMA ClaimIsLocal ==
    ASSUME IInv, NEW h \in Handlers, Claim(h)
    PROVE  /\ Local(h)
           /\ \E l \in Listings :
                 /\ tx'[h].taken = [tx[h].taken EXCEPT ![l] = req[h].items[l]]
                 /\ req[h].items[l] <= stock[l]
                 /\ \A k \in Handlers \ {h} : tx[k].taken[l] = 0
<1>1. PICK l \in Listings :
         /\ Turn(h, l) /\ ListingFree(h, l) /\ StillThere(h, l)
         /\ tx' = [tx EXCEPT ![h].taken[l] = req[h].items[l]]
         /\ Goto(h, IF Left(h) = {l} THEN "clear" ELSE "claim")
  BY DEF Claim
<1>2. /\ pc[h] = "claim" /\ req' = req /\ alone' = alone
  BY DEF Claim
<1>3. /\ req[h] \in Request /\ tx[h] \in Transaction
      /\ req[h].items \in Cart /\ tx[h].taken \in Cart
      /\ BuyingAt(pc[h], req[h], tx[h])
  BY HandlerFacts
<1> DEFINE t == [tx[h].taken EXCEPT ![l] = req[h].items[l]]
           x == [tx[h] EXCEPT !.taken = t]
           stage == IF Left(h) = {l} THEN "clear" ELSE "claim"
<1>4. t \in Cart /\ \A m \in Listings : t[m] \in {0, req[h].items[m]}
  BY <1>3 DEF Cart, BuyingAt
<1>5. x \in Transaction /\ x.taken = t
  BY <1>3, <1>4 DEF Transaction
<1>6. /\ tx' = [tx EXCEPT ![h] = x] /\ pc' = [pc EXCEPT ![h] = stage]
      /\ req' = [req EXCEPT ![h] = req[h]] /\ alone' \subseteq Handlers
  BY <1>1, <1>2 DEF Goto, IInv, TypeOK
<1>7. stage \in {"clear", "claim"} /\ stage \in Stage
  BY DEF Stage
<1>8. stage = "clear" => t = req[h].items
  <2> SUFFICES ASSUME Left(h) = {l}, NEW m \in Listings
               PROVE  t[m] = req[h].items[m]
    BY <1>3, <1>4 DEF Cart
  <2>1. CASE m = l
    BY <1>3, <2>1 DEF Cart
  <2>2. CASE m # l
    <3>1. t[m] = tx[h].taken[m]
      BY <1>3, <2>2 DEF Cart
    <3>2. m \notin Wanted(h) \/ tx[h].taken[m] # 0
      BY <2>2 DEF Left
    <3>3. req[h].items[m] \in Nat
      BY <1>3, CartFacts
    <3> QED BY <1>3, <3>1, <3>2, <3>3 DEF BuyingAt, Wanted
  <2> QED BY <2>1, <2>2
<1> HIDE DEF t, x, stage
<1>9. BuyingAt(stage, req[h], x)
  BY <1>2, <1>3, <1>4, <1>5, <1>7, <1>8 DEF BuyingAt
<1>10. CartAt(stage, req[h]) /\ CancellingAt(stage, req[h], x)
  BY <1>7 DEF CartAt, CancellingAt
<1>11. Local(h) /\ tx'[h] = x
  BY <1>3, <1>5, <1>6, <1>7, <1>9, <1>10, LocalFromParts DEF IInv
<1> QED BY <1>1, <1>5, <1>11 DEF t, StillThere, ListingFree

-----------------------------------------------------------------------------
(* The step of one handler and the tables                                  *)

TablesTyped ==
    /\ stock \in [Listings -> Nat]
    /\ active \subseteq Listings
    /\ cart \in [Users -> Cart]
    /\ groups \in Seq(Group)
    /\ requests \in 0..MaxRequests

\* What a request has read of an order stays true of it.
GroupsGrow ==
    \A g \in DOMAIN groups :
        /\ g \in DOMAIN groups'
        /\ DOMAIN groups'[g].order = DOMAIN groups[g].order
        /\ \A s \in DOMAIN groups[g].order :
               groups'[g].order[s].items = groups[g].order[s].items

\* All there is to show of a step of h: the invariant, and that Shop allows it.
Good(h) ==
    /\ Local(h) /\ TablesTyped' /\ GroupsGrow /\ ClaimsAreCovered'
    /\ Promise!Next \/ UNCHANGED <<stock, groups>>

LEMMA InvFromParts ==
    ASSUME Inv, NEW h \in Handlers, Good(h)
    PROVE  Inv'
<1>1. ASSUME NEW g \in DOMAIN groups'
      PROVE  IsGroup(groups'[g])
  <2>1. groups' \in Seq(Group)
    BY DEF Good, TablesTyped
  <2>2. groups'[g] \in Group
    BY <2>1
  <2>3. PICK S \in SUBSET Range(Seller) : groups'[g].order \in [S -> OrderRow]
    BY <2>2 DEF Group
  <2> QED BY <2>2, <2>3 DEF IsGroup, Group
<1>2. TypeOK'
  BY <1>1 DEF Good, Local, TablesTyped, TypeOK
<1>3. ASSUME NEW k \in Handlers
      PROVE  /\ BuyingAt(pc'[k], req'[k], tx'[k])
             /\ CartAt(pc'[k], req'[k])
             /\ CancellingAt(pc'[k], req'[k], tx'[k])
  BY DEF Good, Local, OthersKeep, Inv, IInv, RequestsAreSound
<1>4. ASSUME NEW k \in Handlers
      PROVE  CancellingAt(pc[k], req[k], tx[k])'
  BY <1>3 DEF CancellingAt, Good, GroupsGrow
<1>5. RequestsAreSound'
  BY <1>3, <1>4 DEF RequestsAreSound, BuyingAt, CartAt
<1> QED BY <1>2, <1>5 DEF Inv, IInv, Good, TablesTyped

\* Most steps change no stock and no orders, and claim nothing.
LEMMA QuietStep ==
    ASSUME Inv, NEW h \in Handlers, Local(h), stock' = stock, groups' = groups,
           tx'[h].taken \in {tx[h].taken, Empty}, active' \subseteq Listings,
           cart' \in [Users -> Cart], requests' \in 0..MaxRequests
    PROVE  Good(h)
<1>1. TablesTyped' /\ GroupsGrow
  BY DEF TablesTyped, GroupsGrow, Inv, IInv, TypeOK
<1>2. \A k \in Handlers, l \in Listings :
          tx'[k].taken[l] = tx[k].taken[l] \/ tx'[k].taken[l] = 0
  BY DEF Local, OthersKeep, Empty
<1>3. /\ \A l \in Listings : stock[l] \in Nat
      /\ \A k \in Handlers, l \in Listings : tx[k].taken[l] \in Nat
  BY HandlerFacts, CartFacts DEF Inv, IInv, TypeOK
<1>4. ClaimsAreCovered'
  <2>1. ASSUME NEW l \in Listings, NEW k \in Handlers
        PROVE  tx'[k].taken[l] <= stock'[l]
    BY <1>2, <1>3 DEF Inv, IInv, ClaimsAreCovered
  <2>2. ASSUME NEW l \in Listings, NEW j \in Handlers, NEW k \in Handlers,
               tx'[j].taken[l] > 0, tx'[k].taken[l] > 0
        PROVE  j = k
    BY <1>2, <1>3, <2>2 DEF Inv, IInv, ClaimsAreCovered
  <2> QED BY <2>1, <2>2 DEF ClaimsAreCovered
<1> QED BY <1>1, <1>4 DEF Good

LEMMA AskIsGood ==
    ASSUME Inv, NEW h \in Handlers,
           \/ \E u \in Users : ReadCart(h, u)
           \/ \E u \in Users, l \in Listings : ReadListing(h, u, l)
           \/ \E u \in Users, l \in Listings, n \in 1..MaxQuantity :
                  ReadOwned(h, u, l, n)
           \/ \E g \in DOMAIN groups : \E s \in DOMAIN groups[g].order :
                  ReadOrder(h, g, s)
    PROVE  Good(h)
<1>1. Local(h) /\ tx' = tx
  BY AskIsLocal DEF Inv
<1>2. UNCHANGED tables /\ Accept(h)
  BY DEF ReadCart, ReadListing, ReadOwned, ReadOrder, AcceptFrom
<1>3. requests' \in 0..MaxRequests
  BY <1>2 DEF Accept, Inv, IInv, TypeOK
<1> QED BY <1>1, <1>2, <1>3, QuietStep DEF tables, Inv, IInv, TypeOK

LEMMA ServeIsGood ==
    ASSUME Inv, NEW h \in Handlers,
           \/ CheckListings(h) \/ ClearCart(h)
           \/ \E n \in 1..MaxQuantity : ReadRow(h, n)
           \/ Restock(h) \/ UpdateOrder(h)
    PROVE  Good(h)
<1>1. Local(h) /\ tx'[h].taken \in {tx[h].taken, Empty}
  BY ServeIsLocal DEF Inv
<1>2. UNCHANGED <<tables, requests>>
  BY DEF CheckListings, ClearCart, ReadRow, Restock, UpdateOrder
<1> QED BY <1>1, <1>2, QuietStep DEF tables, Inv, IInv, TypeOK

\* A request ends without a commit, or a cart request with its write.
LEMMA LeavingIsGood ==
    ASSUME Inv, NEW h \in Handlers,
           \/ TakenDuringCheckout(h) \/ GiveUp(h) \/ Fail(h)
           \/ Upsert(h) \/ UpdateRow(h)
    PROVE  Good(h)
<1>1. Leave(h) /\ UNCHANGED <<stock, active, groups, requests>>
  BY DEF TakenDuringCheckout, GiveUp, Fail, Upsert, UpdateRow, tables
<1>2. Local(h) /\ tx'[h].taken = Empty
  BY <1>1, LeaveIsLocal DEF Inv
<1>3. cart' \in [Users -> Cart]
  <2>1. CASE cart' = cart
    BY <2>1 DEF Inv, IInv, TypeOK
  <2>2. CASE SetRow(h) /\ pc[h] \in {"upsert", "update"}
    <3>1. /\ req[h].user \in Users /\ req[h].listing \in Listings
          /\ req[h].next \in 0..MaxQuantity
      BY <2>2 DEF Inv, IInv, TypeOK, RequestsAreSound, CartAt, Request
    <3>2. [cart[req[h].user] EXCEPT ![req[h].listing] = req[h].next] \in Cart
      BY <3>1 DEF Inv, IInv, TypeOK, Cart
    <3> QED BY <2>2, <3>2 DEF SetRow, Inv, IInv, TypeOK
  <2> QED BY <2>1, <2>2
          DEF TakenDuringCheckout, GiveUp, Fail, Upsert, UpdateRow, tables
<1> QED BY <1>1, <1>2, <1>3, QuietStep DEF Inv, IInv, TypeOK

LEMMA DeleteIsGood ==
    ASSUME Inv, NEW h \in Handlers, NEW u \in Users, NEW rows,
           DeleteRows(h, u, rows)
    PROVE  Good(h)
<1>1. /\ UNCHANGED <<stock, active, groups, pc, req, tx>>
      /\ AcceptFrom(h, u)
      /\ cart' = [cart EXCEPT ![u] =
                     [l \in Listings |-> IF l \in rows THEN 0 ELSE @[l]]]
  BY DEF DeleteRows
<1>2. Local(h)
  BY <1>1, HandlerFacts, AcceptTypes DEF Local, OthersKeep, Inv, IInv, TypeOK
<1>3. requests' \in 0..MaxRequests
  BY <1>1 DEF AcceptFrom, Accept, Inv, IInv, TypeOK
<1>4. cart' \in [Users -> Cart]
  <2>1. cart[u] \in Cart
    BY DEF Inv, IInv, TypeOK
  <2>2. [l \in Listings |-> IF l \in rows THEN 0 ELSE cart[u][l]] \in Cart
    BY <2>1 DEF Cart
  <2> QED BY <1>1, <2>2 DEF Inv, IInv, TypeOK
<1> QED BY <1>1, <1>2, <1>3, <1>4, QuietStep DEF Inv, IInv, TypeOK

LEMMA EditIsGood ==
    ASSUME Inv, NEW h \in Handlers, NEW l \in Listings, NEW n \in 0..MaxStock,
           NEW on, EditListing(h, l, n, on)
    PROVE  Good(h)
<1>1. /\ stock' = [stock EXCEPT ![l] = n]
      /\ active' \subseteq Listings
      /\ UNCHANGED <<cart, groups, pc, req, alone, tx>>
      /\ pc[h] = "idle" /\ ListingFree(h, l)
  BY DEF EditListing, Accept, Inv, IInv, TypeOK
<1>2. Local(h)
  BY <1>1, HandlerFacts DEF Local, OthersKeep, Inv, IInv, TypeOK
<1>3. requests' \in 0..MaxRequests
  BY DEF EditListing, Accept, Inv, IInv, TypeOK
<1>4. stock' \in [Listings -> Nat]
  BY <1>1 DEF Inv, IInv, TypeOK
<1>5. TablesTyped' /\ GroupsGrow
  BY <1>1, <1>3, <1>4 DEF TablesTyped, GroupsGrow, Inv, IInv, TypeOK
<1>6. \A k \in Handlers : tx[k].taken[l] = 0
  BY <1>1, HandlerFacts DEF ListingFree, Inv, Empty
<1>7. ASSUME NEW m \in Listings, NEW k \in Handlers
      PROVE  tx'[k].taken[m] <= stock'[m]
  BY <1>1, <1>4, <1>6 DEF Inv, IInv, ClaimsAreCovered, TypeOK
<1>8. ClaimsAreCovered'
  BY <1>1, <1>7 DEF Inv, IInv, ClaimsAreCovered
<1>9. Promise!Next
  <2>1. stock'[l] = n /\ n \in Nat
    BY <1>1 DEF Inv, IInv, TypeOK
  <2>2. Promise!Edit(l)
    BY <1>1, <2>1 DEF Promise!Edit
  <2> QED BY <2>2 DEF Promise!Next
<1> QED BY <1>2, <1>5, <1>8, <1>9 DEF Good

LEMMA ClaimIsGood ==
    ASSUME Inv, NEW h \in Handlers, Claim(h)
    PROVE  Good(h)
<1>1. Local(h)
  BY ClaimIsLocal DEF Inv
<1>2. PICK l \in Listings :
         /\ tx'[h].taken = [tx[h].taken EXCEPT ![l] = req[h].items[l]]
         /\ req[h].items[l] <= stock[l]
         /\ \A k \in Handlers \ {h} : tx[k].taken[l] = 0
  BY ClaimIsLocal DEF Inv
<1>3. UNCHANGED <<tables, requests>>
  BY DEF Claim
<1>4. TablesTyped' /\ GroupsGrow
  BY <1>3 DEF TablesTyped, GroupsGrow, tables, Inv, IInv, TypeOK
<1>5. \A k \in Handlers \ {h} : tx'[k] = tx[k]
  BY <1>1 DEF Local, OthersKeep
<1>6. \A m \in Listings : m # l => tx'[h].taken[m] = tx[h].taken[m]
  BY <1>2, HandlerFacts DEF Inv, Cart
<1>7. tx'[h].taken[l] = req[h].items[l]
  BY <1>2, HandlerFacts DEF Inv, Cart
<1>8. ASSUME NEW m \in Listings, NEW k \in Handlers
      PROVE  tx'[k].taken[m] <= stock'[m]
  <2>1. CASE k = h /\ m = l
    BY <1>2, <1>3, <1>7, <2>1 DEF tables
  <2>2. CASE k # h \/ m # l
    BY <1>3, <1>5, <1>6, <2>2 DEF tables, Inv, IInv, ClaimsAreCovered
  <2> QED BY <2>1, <2>2
<1>9. ASSUME NEW m \in Listings, NEW j \in Handlers, NEW k \in Handlers,
             tx'[j].taken[m] > 0, tx'[k].taken[m] > 0
      PROVE  j = k
  <2>1. CASE m = l
    BY <1>2, <1>5, <1>9, <2>1
  <2>2. CASE m # l
    BY <1>5, <1>6, <1>9, <2>2 DEF Inv, IInv, ClaimsAreCovered
  <2> QED BY <2>1, <2>2
<1>10. ClaimsAreCovered'
  BY <1>8, <1>9 DEF ClaimsAreCovered
<1> QED BY <1>1, <1>3, <1>4, <1>10 DEF Good, tables

LEMMA CommitCheckoutIsGood ==
    ASSUME Inv, NEW h \in Handlers, CommitCheckout(h)
    PROVE  Good(h)
<1> DEFINE items == req[h].items
           u == req[h].user
<1>1. /\ pc[h] = "placed" /\ Leave(h)
      /\ stock' = [l \in Listings |-> stock[l] - tx[h].taken[l]]
      /\ groups' = Append(groups, NewGroup(u, items))
      /\ cart' = [cart EXCEPT ![u] =
                     [l \in Listings |-> IF l \in tx[h].cleared THEN 0 ELSE @[l]]]
      /\ UNCHANGED <<active, requests>>
  BY DEF CommitCheckout
<1>2. /\ items \in Cart /\ u \in Users /\ items # Empty
      /\ tx[h].taken = items
  BY <1>1, HandlerFacts DEF BuyingAt, Inv
<1>3. Local(h) /\ tx'[h].taken = Empty
  BY <1>1, LeaveIsLocal DEF Inv
<1>4. /\ \A l \in Listings : stock[l] \in Nat /\ items[l] \in Nat
      /\ \A l \in Listings : items[l] <= stock[l]
  BY <1>2, CartFacts DEF Inv, IInv, TypeOK, ClaimsAreCovered
<1>5. groups \in Seq(Group) /\ NewGroup(u, items) \in Group
  BY <1>2, NewGroupType DEF Inv
<1> HIDE DEF items, u
<1>6. TablesTyped'
  <2>1. stock' \in [Listings -> Nat]
    BY <1>1, <1>2, <1>4
  <2>2. cart' \in [Users -> Cart]
    <3>1. cart[u] \in Cart
      BY <1>2 DEF Inv, IInv, TypeOK
    <3>2. [l \in Listings |-> IF l \in tx[h].cleared THEN 0 ELSE cart[u][l]] \in Cart
      BY <3>1 DEF Cart
    <3> QED BY <1>1, <3>2 DEF Inv, IInv, TypeOK
  <2>3. groups' \in Seq(Group)
    BY <1>1, <1>5
  <2> QED BY <1>1, <2>1, <2>2, <2>3 DEF TablesTyped, Inv, IInv, TypeOK
<1>7. GroupsGrow
  <2>1. \A g \in DOMAIN groups : g \in DOMAIN groups' /\ groups'[g] = groups[g]
    BY <1>1, <1>5
  <2> QED BY <2>1 DEF GroupsGrow
<1>8. ClaimsAreCovered'
  <2>1. \A k \in Handlers \ {h} : tx'[k] = tx[k]
    BY <1>3 DEF Local, OthersKeep
  <2>2. ASSUME NEW l \in Listings, NEW k \in Handlers
        PROVE  tx'[k].taken[l] <= stock'[l]
    <3>1. stock'[l] = stock[l] - items[l] /\ stock'[l] >= 0
      BY <1>1, <1>2, <1>4
    <3>2. CASE k = h
      BY <1>3, <3>1, <3>2 DEF Empty
    <3>3. CASE k # h /\ items[l] = 0
      BY <1>4, <2>1, <3>1, <3>3 DEF Inv, IInv, ClaimsAreCovered
    <3>4. CASE k # h /\ items[l] > 0
      <4>1. tx[k].taken[l] \in Nat
        BY HandlerFacts, CartFacts DEF Inv
      <4>2. tx[k].taken[l] = 0
        BY <1>2, <3>4, <4>1 DEF Inv, IInv, ClaimsAreCovered
      <4> QED BY <2>1, <3>1, <3>4, <4>2
    <3> QED BY <1>4, <3>2, <3>3, <3>4
  <2>3. ASSUME NEW l \in Listings, NEW j \in Handlers, NEW k \in Handlers,
               tx'[j].taken[l] > 0, tx'[k].taken[l] > 0
        PROVE  j = k
    BY <1>3, <2>1, <2>3 DEF Empty, Inv, IInv, ClaimsAreCovered
  <2> QED BY <2>2, <2>3 DEF ClaimsAreCovered
<1>9. Promise!Next
  <2>1. NewGroup(u, items) = Promise!NewGroup(u, items)
    BY DEF NewGroup, Promise!NewGroup, Sellers, Promise!Sellers, PartOf,
           Promise!PartOf
  <2>2. items \in Promise!Cart /\ items # Promise!Empty
    BY <1>2 DEF Cart, Promise!Cart, Empty, Promise!Empty
  <2>3. Promise!Buy(u, items)
    BY <1>1, <1>2, <1>4, <2>1, <2>2 DEF Promise!Buy
  <2> QED BY <1>2, <2>2, <2>3 DEF Promise!Next
<1> QED BY <1>3, <1>6, <1>7, <1>8, <1>9 DEF Good

LEMMA CommitCancelIsGood ==
    ASSUME Inv, NEW h \in Handlers, CommitCancel(h)
    PROVE  Good(h)
<1> DEFINE items == req[h].items
           g == req[h].group
           s == req[h].seller
<1>1. /\ pc[h] = "cancelled" /\ Leave(h)
      /\ stock' = [l \in Listings |-> IF l \in tx[h].back
                                      THEN stock[l] + items[l] ELSE stock[l]]
      /\ groups' = [groups EXCEPT ![g].order[s].returned = @ + 1]
      /\ UNCHANGED <<active, cart, requests>>
  BY DEF CommitCancel
<1>2. /\ items \in Cart
      /\ g \in DOMAIN groups /\ s \in DOMAIN groups[g].order
      /\ items = groups[g].order[s].items
      /\ \A l \in Listings : items[l] > 0 => l \in tx[h].back
  BY <1>1, HandlerFacts DEF CancellingAt, Inv
<1>3. Local(h) /\ tx'[h].taken = Empty
  BY <1>1, LeaveIsLocal DEF Inv
<1>4. \A l \in Listings : stock[l] \in Nat /\ items[l] \in Nat
  BY <1>2, CartFacts DEF Inv, IInv, TypeOK
<1> HIDE DEF items, g, s
<1>5. \A l \in Listings : stock'[l] = stock[l] + items[l]
  BY <1>1, <1>2, <1>4
<1>6. stock' = [l \in Listings |-> stock[l] + groups[g].order[s].items[l]]
  BY <1>1, <1>2, <1>5
<1> DEFINE row == [groups[g].order[s] EXCEPT !.returned = @ + 1]
           orders == [groups[g].order EXCEPT ![s] = row]
           new == [groups[g] EXCEPT !.order = orders]
<1>7. groups' = [groups EXCEPT ![g] = new]
  BY <1>1
<1>8. PICK S \in SUBSET Range(Seller) : groups[g].order \in [S -> OrderRow]
  BY <1>2, GroupFacts DEF Inv, Group
<1>9. row \in OrderRow /\ row.items = groups[g].order[s].items
  BY <1>2, <1>8 DEF OrderRow
<1> HIDE DEF row
<1>10. /\ orders \in [S -> OrderRow]
       /\ \A t \in S : orders[t].items = groups[g].order[t].items
  BY <1>2, <1>8, <1>9
<1> HIDE DEF orders
<1>11. groups[g] \in Group
  BY <1>2, GroupFacts DEF Inv
<1>12. new \in Group /\ new.order = orders
  BY <1>10, <1>11 DEF Group
<1> HIDE DEF new
<1>13. groups' \in Seq(Group)
  BY <1>2, <1>7, <1>12 DEF Inv
<1>14. TablesTyped'
  <2>1. stock' \in [Listings -> Nat]
    BY <1>1, <1>4
  <2> QED BY <1>1, <1>13, <2>1 DEF TablesTyped, Inv, IInv, TypeOK
<1>15. GroupsGrow
  <2>1. DOMAIN groups' = DOMAIN groups
    BY <1>7
  <2>2. \A i \in DOMAIN groups : i # g => groups'[i] = groups[i]
    BY <1>7
  <2>3. groups'[g] = new
    BY <1>2, <1>7
  <2>4. /\ DOMAIN new.order = DOMAIN groups[g].order
        /\ \A t \in DOMAIN groups[g].order :
               new.order[t].items = groups[g].order[t].items
    BY <1>8, <1>10, <1>12
  <2> QED BY <2>1, <2>2, <2>3, <2>4 DEF GroupsGrow
<1>16. ClaimsAreCovered'
  <2>1. \A k \in Handlers \ {h} : tx'[k] = tx[k]
    BY <1>3 DEF Local, OthersKeep
  <2>2. ASSUME NEW l \in Listings, NEW k \in Handlers
        PROVE  tx'[k].taken[l] <= stock'[l]
    <3>1. stock[l] <= stock'[l] /\ stock'[l] \in Nat
      BY <1>4, <1>5
    <3>2. CASE k = h
      BY <1>3, <3>1, <3>2 DEF Empty
    <3>3. CASE k # h
      <4>1. tx[k].taken[l] <= stock[l] /\ tx[k].taken[l] \in Nat
        BY HandlerFacts, CartFacts DEF Inv, IInv, ClaimsAreCovered
      <4> QED BY <1>4, <2>1, <3>1, <3>3, <4>1
    <3> QED BY <3>2, <3>3
  <2>3. ASSUME NEW l \in Listings, NEW j \in Handlers, NEW k \in Handlers,
               tx'[j].taken[l] > 0, tx'[k].taken[l] > 0
        PROVE  j = k
    BY <1>3, <2>1, <2>3 DEF Empty, Inv, IInv, ClaimsAreCovered
  <2> QED BY <2>2, <2>3 DEF ClaimsAreCovered
<1>17. Promise!Next
  <2>1. Promise!Return(g, s)
    BY <1>1, <1>6 DEF Promise!Return
  <2> QED BY <1>2, <2>1 DEF Promise!Next
<1> QED BY <1>3, <1>14, <1>15, <1>16, <1>17 DEF Good

-----------------------------------------------------------------------------
(* The theorems                                                            *)

LEMMA InvInit == Init => Inv
<1> SUFFICES ASSUME Init PROVE Inv OBVIOUS
<1>1. \A h \in Handlers : pc[h] = "idle" /\ req[h] = NoReq /\ tx[h] = NoTx
  BY DEF Init
<1>2. stock \in [Listings -> Nat]
  BY DEF Init
<1>3. TypeOK
  <2>1. pc \in [Handlers -> Stage]
    BY DEF Init, Stage
  <2>2. req \in [Handlers -> Request] /\ tx \in [Handlers -> Transaction]
    BY NothingIsTyped DEF Init
  <2> QED BY <1>2, <2>1, <2>2 DEF Init, TypeOK
<1>4. \A h \in Handlers, l \in Listings : tx[h].taken[l] = 0
  BY <1>1 DEF NoTx, Empty
<1>5. ClaimsAreCovered
  BY <1>2, <1>4 DEF ClaimsAreCovered
<1>6. RequestsAreSound
  BY <1>1 DEF RequestsAreSound, BuyingAt, CartAt, CancellingAt, NoTx, NoReq, Empty
<1>7. groups \in Seq(Group)
  BY DEF Init
<1> QED BY <1>3, <1>5, <1>6, <1>7 DEF Inv, IInv

\* Every step of a request is a good one.
LEMMA GoodStep ==
    ASSUME Inv, NEW h \in Handlers, Ask(h) \/ Serve(h) \/ Fail(h)
    PROVE  Good(h)
<1>1. ASSUME NEW u \in Users, NEW l \in Listings, DeleteRows(h, u, {l})
      PROVE  Good(h)
  BY <1>1, DeleteIsGood
<1>2. ASSUME NEW u \in Users, DeleteRows(h, u, RowsOf(u))
      PROVE  Good(h)
  BY <1>2, DeleteIsGood
<1>3. ASSUME NEW l \in Listings, NEW n \in 0..MaxStock, NEW on \in BOOLEAN,
             EditListing(h, l, n, on)
      PROVE  Good(h)
  BY <1>3, EditIsGood
<1>4. CASE Ask(h)
  BY <1>1, <1>2, <1>3, <1>4, AskIsGood DEF Ask
<1>5. CASE Serve(h)
  BY <1>5, ServeIsGood, LeavingIsGood, ClaimIsGood, CommitCheckoutIsGood,
     CommitCancelIsGood DEF Serve
<1> QED BY <1>4, <1>5, LeavingIsGood

LEMMA InvStep ==
    ASSUME Inv, [Next]_vars
    PROVE  Inv' /\ [Promise!Next]_(Promise!vars)
<1>1. ASSUME NEW h \in Handlers, Ask(h) \/ Serve(h) \/ Fail(h)
      PROVE  Good(h)
  BY <1>1, GoodStep
<1>2. CASE UNCHANGED vars
  <2>1. UNCHANGED <<stock, active, cart, groups, pc, req, alone, tx, requests>>
    BY <1>2 DEF vars, tables
  <2>2. TypeOK' /\ ClaimsAreCovered'
    BY <2>1 DEF Inv, IInv, TypeOK, ClaimsAreCovered
  <2>3. RequestsAreSound'
    BY <2>1 DEF Inv, IInv, RequestsAreSound, BuyingAt, CartAt, CancellingAt
  <2> QED BY <2>1, <2>2, <2>3 DEF Inv, IInv, Promise!vars
<1>3. CASE Next
  <2>1. PICK h \in Handlers : Good(h)
    BY <1>1, <1>3 DEF Next
  <2> QED BY <2>1, InvFromParts DEF Good, Promise!vars
<1> QED BY <1>2, <1>3

\* Every variable has its type; no stock is ever negative.
THEOREM TypeCorrect == Spec => []TypeOK
<1>1. Inv => TypeOK
  BY DEF Inv, IInv
<1> QED BY <1>1, InvInit, InvStep, PTL DEF Spec

\* However many checkouts overlap, what they have claimed is in the stock, and
\* no two of them have claimed the same listing.
THEOREM ClaimsCovered == Spec => []ClaimsAreCovered
<1>1. Inv => ClaimsAreCovered
  BY DEF Inv, IInv
<1> QED BY <1>1, InvInit, InvStep, PTL DEF Spec

\* createFromCart and the cancellations, statement by statement and in any
\* interleaving, implement the atomic purchases and returns of Shop.
THEOREM CheckoutImplementsShop == Spec => ImplementsShop
<1>1. Init => Promise!Init
  BY DEF Init, Promise!Init
<1> QED BY <1>1, InvInit, InvStep, PTL DEF Spec, ImplementsShop, Promise!Spec


-----------------------------------------------------------------------------
(* A checkout that is its customer's only request                          *)

Buying == {"check", "claim", "clear", "placed"}

\* A step of h on behalf of u: whoever else has u is not alone after it.
OnlyFor(h, u) ==
    /\ OthersKeep(h)
    /\ alone' \subseteq alone \cup {h}
    /\ \A v \in Users : v # u => cart'[v] = cart[v]
    /\ req'[h].user \in {u, None}
    /\ \A k \in alone' \ {h} : req[k].user \in Users => req[k].user # u

LEMMA OthersAreRight ==
    ASSUME AloneIsRight, NEW h \in Handlers, NEW u, OnlyFor(h, u),
           NEW k \in Handlers \ {h}
    PROVE  AloneAt(k)' /\ (pc'[k] = "idle" => req'[k].user = None)
<1>1. pc'[k] = pc[k] /\ req'[k] = req[k] /\ tx'[k] = tx[k]
  BY DEF OnlyFor, OthersKeep
<1>2. AloneAt(k) /\ (pc[k] = "idle" => req[k].user = None)
  BY DEF AloneIsRight
<1>3. SUFFICES ASSUME k \in alone', req[k].user \in Users
               PROVE  /\ \A j \in Handlers \ {k} : req'[j].user # req[k].user
                      /\ pc[k] \in Buying => req[k].items = cart'[req[k].user]
                      /\ pc[k] = "placed" => tx[k].cleared = RowsOf(req[k].user)'
  BY <1>1, <1>2 DEF AloneAt, Buying, RowsOf
<1>4. /\ \A j \in Handlers \ {k} : req[j].user # req[k].user
      /\ pc[k] \in Buying => req[k].items = cart[req[k].user]
      /\ pc[k] = "placed" => tx[k].cleared = RowsOf(req[k].user)
  BY <1>2, <1>3 DEF OnlyFor, AloneAt, Buying
<1>5. req[k].user # u /\ cart'[req[k].user] = cart[req[k].user]
  BY <1>3 DEF OnlyFor
<1>6. \A j \in Handlers \ {k} : req'[j].user # req[k].user
  BY <1>3, <1>4, <1>5, NoneAssumption DEF OnlyFor, OthersKeep
<1> QED BY <1>1, <1>4, <1>5, <1>6 DEF RowsOf

\* A request goes on, or ends, and writes to no cart but its customer's.
LEMMA GoesOn ==
    ASSUME Inv, AloneIsRight, NEW h \in Handlers, OthersKeep(h),
           alone' \subseteq alone \cup {h}, req'[h].user \in {req[h].user, None},
           \A v \in Users : v # req[h].user => cart'[v] = cart[v],
           AloneAt(h)', pc'[h] = "idle" => req'[h].user = None
    PROVE  AloneIsRight'
<1>1. PICK u : u = req[h].user
  OBVIOUS
<1>2. ASSUME NEW k \in alone' \ {h}, req[k].user \in Users PROVE req[k].user # u
  <2>1. k \in alone /\ k \in Handlers
    BY DEF Inv, IInv, TypeOK
  <2> QED BY <1>1, <1>2, <2>1 DEF AloneIsRight, AloneAt
<1>3. OnlyFor(h, u)
  BY <1>1, <1>2 DEF OnlyFor
<1> QED BY <1>3, OthersAreRight DEF AloneIsRight

\* A request of u has been accepted: it is alone if u has no other.
LEMMA ArrivalIsRight ==
    ASSUME Inv, AloneIsRight, NEW h \in Handlers, NEW u \in Users, AcceptFrom(h, u),
           OthersKeep(h), req'[h].user \in {u, None},
           \A v \in Users : v # u => cart'[v] = cart[v],
           h \in alone' /\ pc'[h] \in Buying => req'[h].items = cart'[u],
           pc'[h] # "placed", pc'[h] = "idle" => req'[h].user = None
    PROVE  AloneIsRight'
<1>1. PICK others : others = {k \in Handlers : req[k].user = u}
  OBVIOUS
<1>2. /\ pc[h] = "idle"
      /\ alone' = IF others = {} THEN alone \cup {h} ELSE alone \ (others \cup {h})
  BY <1>1 DEF AcceptFrom, Accept
<1>3. alone \subseteq Handlers
  BY DEF Inv, IInv, TypeOK
<1>4. OnlyFor(h, u)
  BY <1>1, <1>2, <1>3 DEF OnlyFor
<1>5. AloneAt(h)'
  <2>1. ASSUME h \in alone', req'[h].user \in Users
        PROVE  /\ \A k \in Handlers \ {h} : req'[k].user # req'[h].user
               /\ pc'[h] \in Buying => req'[h].items = cart'[req'[h].user]
    <3>1. others = {} /\ req'[h].user = u
      BY <1>2, <2>1, NoneAssumption
    <3> QED BY <1>1, <2>1, <3>1 DEF OthersKeep
  <2> QED BY <2>1 DEF AloneAt, Buying
<1> QED BY <1>4, <1>5, OthersAreRight DEF AloneIsRight

LEMMA EndIsRight ==
    ASSUME Inv, AloneIsRight, NEW h \in Handlers, Leave(h),
           \A v \in Users : v # req[h].user => cart'[v] = cart[v]
    PROVE  AloneIsRight'
<1>1. /\ pc' = [pc EXCEPT ![h] = "idle"] /\ req' = [req EXCEPT ![h] = NoReq]
      /\ tx' = [tx EXCEPT ![h] = NoTx] /\ alone' = alone \cup {h}
  BY DEF Leave, Goto
<1>2. /\ OthersKeep(h) /\ pc'[h] = "idle" /\ req'[h].user = None
  BY <1>1 DEF OthersKeep, NoReq, Inv, IInv, TypeOK
<1>3. AloneAt(h)'
  BY <1>2, NoneAssumption DEF AloneAt
<1> QED BY <1>1, <1>2, <1>3, GoesOn


LEMMA AskIsRight ==
    ASSUME Inv, AloneIsRight, NEW h \in Handlers, Ask(h)
    PROVE  AloneIsRight'
<1>0. /\ pc \in [Handlers -> Stage] /\ req \in [Handlers -> Request]
      /\ cart \in [Users -> Cart]
  BY DEF Inv, IInv, TypeOK
<1>1. ASSUME NEW u \in Users, ReadCart(h, u) PROVE AloneIsRight'
  <2>1. /\ AcceptFrom(h, u) /\ cart' = cart /\ pc' = [pc EXCEPT ![h] = "check"]
        /\ req' = [req EXCEPT ![h] = [NoReq EXCEPT !.user = u, !.items = cart[u]]]
        /\ tx' = tx
    BY <1>1 DEF ReadCart, Goto, tables
  <2>2. OthersKeep(h) /\ pc'[h] = "check" /\ req'[h].user = u /\ req'[h].items = cart[u]
    BY <1>0, <2>1 DEF OthersKeep, NoReq
  <2> QED BY <2>1, <2>2, ArrivalIsRight
<1>2. ASSUME NEW u \in Users, NEW l \in Listings, ReadListing(h, u, l) PROVE AloneIsRight'
  <2>1. /\ AcceptFrom(h, u) /\ cart' = cart /\ pc' = [pc EXCEPT ![h] = "row"]
        /\ req' = [req EXCEPT ![h] = [NoReq EXCEPT !.user = u, !.listing = l,
                                                   !.limit = stock[l]]]
        /\ tx' = tx
    BY <1>2 DEF ReadListing, Goto, tables
  <2>2. OthersKeep(h) /\ pc'[h] = "row" /\ req'[h].user = u
    BY <1>0, <2>1 DEF OthersKeep, NoReq
  <2> QED BY <2>1, <2>2, ArrivalIsRight DEF Buying
<1>3. ASSUME NEW u \in Users, NEW l \in Listings, NEW n \in 1..MaxQuantity,
             ReadOwned(h, u, l, n)
      PROVE  AloneIsRight'
  <2>1. /\ AcceptFrom(h, u) /\ cart' = cart /\ pc' = [pc EXCEPT ![h] = "update"]
        /\ req' = [req EXCEPT ![h] = [NoReq EXCEPT !.user = u, !.listing = l,
                                                   !.next = n]]
        /\ tx' = tx
    BY <1>3 DEF ReadOwned, Goto, tables
  <2>2. OthersKeep(h) /\ pc'[h] = "update" /\ req'[h].user = u
    BY <1>0, <2>1 DEF OthersKeep, NoReq
  <2> QED BY <2>1, <2>2, ArrivalIsRight DEF Buying
<1>4. ASSUME NEW u \in Users, NEW rows, DeleteRows(h, u, rows) PROVE AloneIsRight'
  <2>1. /\ AcceptFrom(h, u) /\ pc[h] = "idle" /\ UNCHANGED <<pc, req, tx>>
        /\ \A v \in Users : v # u => cart'[v] = cart[v]
    BY <1>0, <1>4 DEF DeleteRows, AcceptFrom, Accept
  <2>2. req[h].user = None
    BY <2>1 DEF AloneIsRight
  <2>3. OthersKeep(h)
    BY <2>1 DEF OthersKeep
  <2> QED BY <2>1, <2>2, <2>3, ArrivalIsRight DEF Buying
<1>5. ASSUME NEW l \in Listings, NEW n \in 0..MaxStock, NEW on \in BOOLEAN, EditListing(h, l, n, on)
      PROVE  AloneIsRight'
  <2>1. UNCHANGED <<cart, pc, req, alone, tx>>
    BY <1>5 DEF EditListing
  <2> QED BY <2>1 DEF AloneIsRight, AloneAt, RowsOf
<1>6. ASSUME NEW g \in DOMAIN groups, NEW s \in DOMAIN groups[g].order, ReadOrder(h, g, s)
      PROVE  AloneIsRight'
  <2>1. /\ UNCHANGED <<cart, alone, tx>> /\ pc' = [pc EXCEPT ![h] = "back"]
        /\ req' = [req EXCEPT ![h] = [NoReq EXCEPT !.group = g, !.seller = s,
                                                   !.items = groups[g].order[s].items]]
    BY <1>6 DEF ReadOrder, Goto, tables
  <2>2. OthersKeep(h) /\ pc'[h] = "back" /\ req'[h].user = None
    BY <1>0, <2>1 DEF OthersKeep, NoReq
  <2>3. AloneAt(h)'
    BY <2>2, NoneAssumption DEF AloneAt
  <2> QED BY <2>1, <2>2, <2>3, GoesOn
<1> QED BY <1>1, <1>2, <1>3, <1>4, <1>5, <1>6 DEF Ask

\* A statement of a request changes its stage and either what it knows or what
\* its transaction has written.
LEMMA ServeIsRight ==
    ASSUME Inv, AloneIsRight, NEW h \in Handlers, Serve(h) \/ Fail(h)
    PROVE  AloneIsRight'
<1>0. /\ pc \in [Handlers -> Stage] /\ req \in [Handlers -> Request]
      /\ cart \in [Users -> Cart] /\ tx \in [Handlers -> Transaction]
  BY DEF Inv, IInv, TypeOK
<1>1. ASSUME NEW stage \in Stage \ {"idle"}, pc' = [pc EXCEPT ![h] = stage], UNCHANGED <<cart, alone>>,
             OthersKeep(h), req'[h].user = req[h].user,
             stage \in Buying => req'[h].items = req[h].items /\ pc[h] \in Buying,
             stage = "placed" => tx'[h].cleared = RowsOf(req[h].user)
      PROVE  AloneIsRight'
  <2>1. pc'[h] = stage /\ AloneAt(h)
    BY <1>0, <1>1 DEF AloneIsRight
  <2>2. AloneAt(h)'
    BY <1>1, <2>1 DEF AloneAt, OthersKeep, Buying, RowsOf
  <2> QED BY <1>1, <2>1, <2>2, GoesOn
<1>2. ASSUME Leave(h), cart' = cart PROVE AloneIsRight'
  BY <1>2, EndIsRight
<1>3. CASE CheckListings(h)
  <2>1. CASE Leave(h)
    BY <1>2, <1>3, <2>1 DEF CheckListings, tables
  <2>2. CASE Goto(h, "claim") /\ UNCHANGED <<req, alone, tx>>
    <3>1. pc' = [pc EXCEPT ![h] = "claim"] /\ cart' = cart /\ pc[h] = "check" /\ "claim" \in Stage \ {"idle"}
      BY <1>3, <2>2 DEF CheckListings, Goto, tables, Stage
    <3>2. OthersKeep(h)
      BY <2>2, <3>1, <1>0 DEF OthersKeep
    <3> QED BY <1>1, <2>2, <3>1, <3>2 DEF Buying
  <2> QED BY <1>3, <2>1, <2>2 DEF CheckListings
<1>4. CASE Claim(h)
  <2>1. PICK stage \in {"clear", "claim"} :
            /\ pc' = [pc EXCEPT ![h] = stage] /\ pc[h] = "claim" /\ UNCHANGED <<cart, req, alone>>
    BY <1>4 DEF Claim, Goto, tables
  <2>2. OthersKeep(h)
    BY <1>4, ClaimIsLocal DEF Local, Inv
  <2>3. stage \in Stage \ {"idle"} /\ pc[h] \in Buying /\ stage # "placed"
    BY <2>1 DEF Stage, Buying
  <2> QED BY <1>1, <2>1, <2>2, <2>3
<1>5. CASE ClearCart(h)
  <2>1. /\ pc' = [pc EXCEPT ![h] = "placed"] /\ pc[h] = "clear" /\ UNCHANGED <<cart, req, alone>>
        /\ tx' = [tx EXCEPT ![h].cleared = RowsOf(req[h].user)] /\ "placed" \in Stage \ {"idle"}
    BY <1>5 DEF ClearCart, Goto, tables, Stage
  <2>2. OthersKeep(h)
    BY <1>5, ServeIsLocal DEF Local, Inv
  <2>3. tx'[h].cleared = RowsOf(req[h].user)
    BY <1>0, <2>1 DEF Transaction
  <2> QED BY <1>1, <2>1, <2>2, <2>3 DEF Buying
<1>6. ASSUME NEW n \in 1..MaxQuantity, ReadRow(h, n) PROVE AloneIsRight'
  <2>1. CASE Leave(h)
    BY <1>2, <1>6, <2>1 DEF ReadRow, tables
  <2>2. CASE ~Leave(h)
    <3>1. /\ pc' = [pc EXCEPT ![h] = "upsert"] /\ UNCHANGED <<cart, alone>> /\ "upsert" \in Stage \ {"idle"}
          /\ req' = [req EXCEPT ![h].next = cart[req[h].user][req[h].listing] + n]
      BY <1>6, <2>2 DEF ReadRow, Goto, tables, Stage
    <3>2. OthersKeep(h)
      BY <1>6, ServeIsLocal DEF Local, Inv
    <3>3. req'[h].user = req[h].user
      BY <1>0, <3>1 DEF Request
    <3> QED BY <1>1, <3>1, <3>2, <3>3 DEF Buying
  <2> QED BY <2>1, <2>2
<1>7. CASE Restock(h) \/ UpdateOrder(h)
  <2>1. PICK stage \in {"cancel", "back", "cancelled"} :
            pc' = [pc EXCEPT ![h] = stage] /\ UNCHANGED <<cart, req, alone>>
    BY <1>7 DEF Restock, UpdateOrder, Goto, tables
  <2>2. OthersKeep(h)
    BY <1>7, ServeIsLocal DEF Local, Inv
  <2>3. stage \in Stage \ {"idle"} /\ stage \notin Buying
    BY DEF Stage, Buying
  <2> QED BY <1>1, <2>1, <2>2, <2>3 DEF Buying
<1>8. CASE TakenDuringCheckout(h) \/ GiveUp(h) \/ CommitCancel(h) \/ Fail(h)
  BY <1>2, <1>8 DEF TakenDuringCheckout, GiveUp, CommitCancel, Fail, tables
<1>9. CASE Upsert(h) \/ UpdateRow(h) \/ CommitCheckout(h)
  <2>1. Leave(h)
    BY <1>9 DEF Upsert, UpdateRow, CommitCheckout
  <2>2. \A v \in Users : v # req[h].user => cart'[v] = cart[v]
    BY <1>0, <1>9 DEF Upsert, UpdateRow, CommitCheckout, SetRow
  <2> QED BY <2>1, <2>2, EndIsRight
<1> QED BY <1>3, <1>4, <1>5, <1>6, <1>7, <1>8, <1>9 DEF Serve

LEMMA AloneStep ==
    ASSUME Inv, AloneIsRight, [Next]_vars
    PROVE  AloneIsRight'
<1>1. CASE UNCHANGED vars
  <2>1. UNCHANGED <<cart, pc, req, alone, tx>>
    BY <1>1 DEF vars, tables
  <2> QED BY <2>1 DEF AloneIsRight, AloneAt, RowsOf
<1> QED BY <1>1, AskIsRight, ServeIsRight DEF Next

\* The commit of a checkout that is alone.
LEMMA OrdersTheCart ==
    ASSUME Inv, AloneIsRight, [Next]_vars, NEW h \in Handlers, Places(h), h \in alone
    PROVE  /\ req[h].items = cart[req[h].user]
           /\ cart' = [cart EXCEPT ![req[h].user] = Empty]
<1>0. /\ pc[h] = "placed" /\ pc'[h] = "idle" /\ groups' # groups
      /\ cart \in [Users -> Cart] /\ pc \in [Handlers -> Stage]
  BY DEF Places, Inv, IInv, TypeOK
<1>1. PICK k \in Handlers : Ask(k) \/ Serve(k) \/ Fail(k)
  BY <1>0 DEF Next, vars, tables
<1>2. k = h
  <2>1. OthersKeep(k)
    <3>1. Good(k)
      BY <1>1, GoodStep
    <3> QED BY <3>1 DEF Good, Local
  <2> QED BY <1>0, <2>1 DEF OthersKeep
<1>3. CommitCheckout(h)
  <2>1. ~Ask(h)
    BY <1>0 DEF Ask, ReadCart, ReadListing, ReadOwned, DeleteRows, EditListing, ReadOrder, AcceptFrom, Accept
  <2>2. ~Fail(h) /\ ~GiveUp(h)
    BY <1>0 DEF Fail, GiveUp, tables
  <2> QED BY <1>0, <1>1, <1>2, <2>1, <2>2
          DEF Serve, CheckListings, Claim, TakenDuringCheckout, ClearCart, ReadRow, Upsert, UpdateRow, Restock,
              UpdateOrder, CommitCancel
<1>4. req[h].user \in Users
  BY <1>0, HandlerFacts DEF Inv, BuyingAt
<1>5. req[h].items = cart[req[h].user] /\ tx[h].cleared = RowsOf(req[h].user)
  BY <1>0, <1>4 DEF AloneIsRight, AloneAt
<1>6. [l \in Listings |-> IF l \in tx[h].cleared THEN 0 ELSE cart[req[h].user][l]] = Empty
  <2>1. PICK c \in Cart : c = cart[req[h].user]
    BY <1>0, <1>4
  <2>2. ASSUME NEW l \in Listings, ~(c[l] > 0) PROVE c[l] = 0
    BY <2>2, CartFacts
  <2> QED BY <1>5, <2>1, <2>2 DEF RowsOf, Empty
<1> QED BY <1>3, <1>5, <1>6 DEF CommitCheckout


LEMMA AloneInit == Init => AloneIsRight
BY NoneAssumption DEF Init, AloneIsRight, AloneAt, NoReq

\* orders.service.ts:112-138, 305: for any customers, carts and requests, a checkout
\* that no other request of its customer overlaps orders exactly what is in the cart
\* when it commits, and leaves that cart empty and every other as it is.
THEOREM CheckoutsOrderTheCart == Spec => CheckoutOrdersTheCart
<1>1. Inv /\ AloneIsRight /\ [Next]_vars =>
         [\A h \in Handlers : Places(h) /\ h \in alone =>
              /\ req[h].items = cart[req[h].user]
              /\ cart' = [cart EXCEPT ![req[h].user] = Empty]]_vars
  BY OrdersTheCart
<1> QED BY <1>1, InvInit, InvStep, AloneInit, AloneStep, PTL DEF Spec, CheckoutOrdersTheCart
=============================================================================
