------------------------------- MODULE Catalog -------------------------------
(***************************************************************************)
(* The catalogue and who may do what with it: the two-level tree of        *)
(* categories (categories.service.ts), the items sold (catalog.service.ts),*)
(* the countries they come from (countries.service.ts) and what each       *)
(* seller offers of them (listings.service.ts); and what the storefront    *)
(* and the admin panel read of all that.                                   *)
(*                                                                         *)
(* A request reads the row it changes, makes its checks one query at a     *)
(* time, and writes; no transaction holds a check and a write together.    *)
(* Prices, stock and media are in Pricing, Checkout and Media.             *)
(***************************************************************************)
EXTENDS Naturals, SequencesExt

CONSTANTS
    None,            \* null
    Gone,            \* a row that was removed: its id does not come back
    Keep,            \* undefined: a field the request does not mention
    Super,           \* the user of role SUPER_ADMIN
    Sellers,         \* users of role SELLER, each named by the seller it works for
    Handlers,        \* requests running at the same time, numbered
    CategoryIds, ItemIds, ListingIds, CountryIds,
    Codes, Skus,     \* keys of tiles, article numbers of sellers
    Variants,        \* pickVariant(): sets of attributes, {} for none
    World,           \* the tables when the process starts
    Mixes,           \* sets of requests, one of which a behaviour draws on
    MaxRequests      \* bound: requests accepted

VARIABLES
    mix,             \* the one of Mixes this behaviour is about
    categories, items, listings, countries,
    pc, req, asked,
    alone            \* history: no request has met another

tables == <<categories, items, listings, countries>>
vars == <<mix, tables, pc, req, asked, alone>>

MaxDepth == 2        \* MAX_CATEGORY_DEPTH
LegacyRoot == "houseplants"

Statuses == {"PENDING", "APPROVED", "REJECTED"}
ListingStatuses == {"DRAFT", "ACTIVE", "ARCHIVED"}

\* Rows.
Category == [parent : CategoryIds \cup {None}, code : Codes \cup {None},
             owner : Sellers \cup {None}, status : Statuses]
Item == [category : CategoryIds, sub : CategoryIds \cup {None}, country : CountryIds \cup {None},
         owner : Sellers \cup {None}, status : Statuses]
Listing == [seller : Sellers, item : ItemIds, variant : Variants, sku : Skus \cup {None},
            status : ListingStatuses]

In(table) == {id \in DOMAIN table : table[id] \notin {None, Gone}}

Or(field, old) == IF field = Keep THEN old ELSE field

-----------------------------------------------------------------------------
(* What the storefront and the admin panel read *)

Approved(c) == c \in In(categories) /\ categories[c].status = "APPROVED"

\* The tiles of the main screen, the screen of one of them, its subcategories, and
\* what the first version of the API took for categories.
Roots == {c \in In(categories) : categories[c].parent = None /\ Approved(c)}
ByCode(code) == {c \in Roots : categories[c].code = code}
Children(p) == {c \in In(categories) : categories[c].parent = p /\ Approved(c)}
Legacy == UNION {Children(c) : c \in {d \in In(categories) : categories[d].code = LegacyRoot}}

\* catalog.findAll: the approved items under a category, of a subcategory or of none.
PublicItems(category, sub) ==
    {i \in In(items) : /\ items[i].status = "APPROVED"
                       /\ items[i].category = category
                       /\ items[i].sub = sub}

\* listings.findStorefront: ACTIVE listings, by the category of their items.  Neither
\* the status of the item nor that of the category is asked.
Storefront == {l \in In(listings) : listings[l].status = "ACTIVE"}
OfCategory(code) ==
    {l \in Storefront : categories[items[listings[l].item].category].code = code}

\* findOnePublic: the listings of one seller for one item, offered side by side.
SideBySide(l) ==
    {k \in Storefront : /\ listings[k].seller = listings[l].seller
                        /\ listings[k].item = listings[l].item}

\* findVisibleFor: all for the platform; what is approved of the platform's and what
\* is theirs for a seller.
Visible(table, user) ==
    {r \in In(table) :
        \/ user = Super
        \/ table[r].owner = None /\ table[r].status = "APPROVED"
        \/ table[r].owner = user}

\* findForSeller, scoped by the controller.
ForSeller(user) == {l \in In(listings) : user = Super \/ listings[l].seller = user}

\* The tree has two levels, and its tiles are the platform's; items stand on it; who
\* sells an item may.
TwoLevels(cs) ==
    \A c \in In(cs) :
        /\ cs[c].parent # None =>
              cs[c].parent \in In(cs) /\ cs[cs[c].parent].parent = None /\ cs[c].code = None
        /\ cs[c].parent = None => cs[c].owner = None
        /\ \A d \in In(cs) : cs[c].code = cs[d].code /\ cs[c].code # None => c = d
OnTheTree(cs, is, ks) ==
    \A i \in In(is) :
        /\ is[i].category \in In(cs) /\ cs[is[i].category].parent = None
        /\ is[i].sub # None => is[i].sub \in In(cs) /\ cs[is[i].sub].parent # None
        /\ is[i].country \in ks \cup {None}
OwnOrCommon(is, ls) ==
    \A l \in In(ls) : ls[l].item \in In(is) /\ is[ls[l].item].owner \in {None, ls[l].seller}
\* Nothing that is not approved has anything hanging on it; no variant is offered twice.
Reviewed(cs, is, ls) ==
    /\ \A c \in In(cs) : cs[c].parent # None => cs[cs[c].parent].status = "APPROVED"
    /\ \A i \in In(is) :
          /\ cs[is[i].category].status = "APPROVED"
          /\ is[i].sub # None => cs[is[i].sub].status = "APPROVED" /\ cs[is[i].sub].parent = is[i].category
    /\ \A l \in In(ls) : is[ls[l].item].status = "APPROVED"
    /\ \A l, k \in In(ls) :
          ls[l].seller = ls[k].seller /\ ls[l].item = ls[k].item /\ ls[l].variant = ls[k].variant => l = k

-----------------------------------------------------------------------------
(* Checks: one query each *)

\* assertUsable of categories: approved, the platform's or one's own.
Usable(c, user) ==
    /\ Approved(c)
    /\ user = Super \/ categories[c].owner \in {None, user}

\* depthOf: the level of a category, up the chain of parents.
Depth(c) ==
    LET up[d \in In(categories)] == IF categories[d].parent = None THEN 1 ELSE 1 + up[categories[d].parent]
    IN  up[c]

\* Slip: an approved item is anybody's.
ItemApproved(i, seller) == i \in In(items) /\ items[i].status = "APPROVED"

\* assertUsable of the catalogue.
ItemUsable(i, seller) ==
    /\ i \in In(items)
    /\ items[i].status = "APPROVED"
    /\ items[i].owner \in {None, seller}

\* assertStatusChangeAllowed: nothing hangs on the category.
CategoryFree(c) ==
    /\ \A i \in In(items) : c \notin {items[i].category, items[i].sub}
    /\ \A d \in In(categories) : categories[d].parent # c

ItemFree(i) == \A l \in In(listings) : listings[l].item # i
CountryFree(k) == \A i \in In(items) : items[i].country # k

VariantFree(seller, item, variant, except) ==
    \A l \in In(listings) \ {except} :
        ~(/\ listings[l].seller = seller
          /\ listings[l].item = item
          /\ listings[l].variant = variant)

\* A check that a request has before it: what is asked, of which row, and whatever
\* else the question needs.
Ask(what, id) == [what |-> what, id |-> id, of |-> None, variant |-> None, except |-> None]

Holds(check, user) ==
    CASE check.what = "parent" -> Usable(check.id, user) /\ Depth(check.id) < MaxDepth
      [] check.what = "top" -> Usable(check.id, user) /\ categories[check.id].parent = None
      [] check.what = "sub" -> Usable(check.id, user) /\ categories[check.id].parent = check.of
      [] check.what = "country" -> check.id \in countries
      [] check.what = "category free" -> CategoryFree(check.id)
      [] check.what = "item free" -> ItemFree(check.id)
      [] check.what = "country free" -> CountryFree(check.id)
      [] check.what = "item" -> ItemUsable(check.id, check.of)
      [] check.what = "variant" -> VariantFree(check.of, check.id, check.variant, check.except)

\* assertUsableForItem.
PairChecks(category, sub) ==
    <<Ask("top", category)>>
        \o (IF sub = None THEN <<>> ELSE <<[Ask("sub", sub) EXCEPT !.of = category]>>)

CountryChecks(country) ==
    IF country \in {None, Keep} THEN <<>> ELSE <<Ask("country", country)>>

ListingChecks(seller, item, variant, except) ==
    <<[Ask("variant", item) EXCEPT !.of = seller, !.variant = variant, !.except = except]>>

-----------------------------------------------------------------------------
(* Requests: who may make them, what they check, what they write *)

NoDto == [parent |-> Keep, code |-> Keep, category |-> Keep, sub |-> Keep, country |-> Keep,
          status |-> Keep, item |-> Keep, variant |-> Keep, sku |-> Keep, seller |-> Keep,
          markup |-> Keep]
NoReq == [kind |-> "none", user |-> None, id |-> None, dto |-> NoDto, row |-> None, checks |-> <<>>]

TableOf(kind) ==
    CASE kind \in {"create category", "update category", "category status"} -> categories
      [] kind \in {"create item", "update item"} -> items
      [] kind \in {"create listing", "update listing", "remove listing"} -> listings
      [] kind \in {"create country", "update country", "remove country"} ->
            [k \in CountryIds |-> IF k \in countries THEN k ELSE None]

Creates == {"create category", "create item", "create listing", "create country"}
Kinds == Creates \cup {"update category", "category status", "update item", "update listing",
                      "remove listing", "update country", "remove country"}
Label == {"idle", "read", "check"}

Dto == [parent : {Keep} \cup CategoryIds, code : {Keep, None} \cup Codes, 
        category : {Keep} \cup CategoryIds, sub : {Keep, None} \cup CategoryIds,
        country : {Keep, None} \cup CountryIds, status : {Keep} \cup Statuses \cup ListingStatuses,
        item : {Keep} \cup ItemIds, variant : {Keep} \cup Variants, sku : {Keep, None} \cup Skus,
        seller : {Keep} \cup Sellers, markup : {Keep} \cup Nat]
Question == [what : {"parent", "top", "sub", "country", "category free", "item free", "country free",
                     "item", "variant"},
             id : CategoryIds \cup ItemIds \cup CountryIds,
             of : {None} \cup CategoryIds \cup Sellers,
             variant : {None} \cup Variants, except : {None} \cup ListingIds]
Request == [kind : Kinds \cup {"none"}, user : Sellers \cup {Super, None},
            id : {None} \cup CategoryIds \cup ItemIds \cup ListingIds \cup CountryIds,
            dto : Dto, row : {None} \cup Category \cup Item \cup Listing \cup CountryIds,
            checks : Seq(Question)]

\* What the routes and the DTOs make sure of: the route has the id, fields that must be
\* there are, and the others are of their kind.
Sound(r) ==
    /\ r \in Request
    /\ r.kind # "none" => r.user \in Sellers \cup {Super}
    /\ r.kind \in {"update category", "category status"} => r.id \in CategoryIds
    /\ r.kind \in {"create category", "update category", "category status", "create item", "update item"} =>
          r.dto.status \in {Keep} \cup Statuses
    /\ r.kind = "category status" => r.dto.code = Keep
    /\ r.kind = "create item" => r.dto.category # Keep
    /\ r.kind = "update item" => r.id \in ItemIds
    /\ r.kind = "create listing" => r.dto.item # Keep /\ r.dto.variant # Keep
    /\ r.kind \in {"update listing", "remove listing"} => r.id \in ListingIds
    /\ r.kind \in {"create listing", "update listing"} => r.dto.status \in {Keep} \cup ListingStatuses
    /\ r.kind \in {"create country", "update country", "remove country"} => r.id \in CountryIds

\* Roles, ownership, and the fields only some may send.
Allowed(r, row) ==
    LET super == r.user = Super
        d == r.dto
    IN CASE r.kind = "create category" ->
              IF d.parent # Keep THEN d.code \in {Keep, None} ELSE super /\ d.code \notin {Keep, None}
         [] r.kind = "update category" ->
              /\ super \/ (row.owner = r.user /\ d.status = Keep /\ d.code = Keep)
              /\ d.code # Keep => row.parent = None
         [] r.kind = "update item" ->
              super \/ (row.owner = r.user /\ d.status = Keep)
         [] r.kind = "create listing" -> IF super THEN d.seller # Keep ELSE d.markup = Keep
         [] r.kind \in {"update listing", "remove listing"} ->
              super \/ (row.seller = r.user /\ d.markup = Keep)
         [] r.kind = "create item" -> TRUE
         [] OTHER -> super

\* Slip: a subcategory stays when the category changes.
SubAsAsked(d, row) == d.sub

\* The subcategory an update leaves: dropped when the category changes without a new
\* one, else as it is or as it is asked.
NewSub(d, row) ==
    IF d.sub # Keep THEN d.sub
    ELSE IF d.category \notin {Keep, row.category} THEN None ELSE Keep

\* Slip: nobody looks for what hangs on a row whose status changes.
NeverChanges(d, row) == FALSE

ChangesStatus(d, row) == d.status \notin {Keep, row.status}

\* The platform names the seller it acts for.
SellerOf(r) == IF r.user = Super THEN r.dto.seller ELSE r.user

ChecksOf(r, row) ==
    LET d == r.dto
    IN CASE r.kind = "create category" ->
              IF d.parent = Keep THEN <<>> ELSE <<Ask("parent", d.parent)>>
         [] r.kind \in {"update category", "category status"} ->
              IF ChangesStatus(d, row) THEN <<Ask("category free", r.id)>> ELSE <<>>
         [] r.kind = "create item" ->
              PairChecks(d.category, Or(d.sub, None)) \o CountryChecks(d.country)
         [] r.kind = "update item" ->
              (IF d.category = Keep /\ NewSub(d, row) = Keep THEN <<>>
               ELSE PairChecks(Or(d.category, row.category), Or(NewSub(d, row), None)))
                  \o CountryChecks(d.country)
                  \o (IF ChangesStatus(d, row) THEN <<Ask("item free", r.id)>> ELSE <<>>)
         [] r.kind = "create listing" ->
              <<[Ask("item", d.item) EXCEPT !.of = SellerOf(r)]>>
                  \o ListingChecks(SellerOf(r), d.item, d.variant, None)
         [] r.kind = "update listing" ->
              (IF d.item = Keep THEN <<>> ELSE <<[Ask("item", d.item) EXCEPT !.of = row.seller]>>)
                  \o ListingChecks(row.seller, Or(d.item, row.item), Or(d.variant, row.variant), r.id)
         [] r.kind = "remove country" -> <<Ask("country free", r.id)>>
         [] OTHER -> <<>>

ASSUME NoneAssumption ==
    /\ None \notin CategoryIds \cup ListingIds \cup CountryIds \cup Sellers \cup {Keep, Gone}
    /\ Keep \notin CategoryIds \cup ItemIds \cup CountryIds \cup Sellers
    /\ {None, Keep} \cap (Codes \cup Skus \cup Statuses \cup ListingStatuses) = {}
    /\ Keep \notin Variants
    /\ None \notin Category \cup Item \cup Listing
    /\ Gone \notin Category \cup Item \cup Listing
ASSUME WorldAssumption ==
    /\ World.categories \in [CategoryIds -> Category \cup {None}]
    /\ World.items \in [ItemIds -> Item \cup {None}]
    /\ World.listings \in [ListingIds -> Listing \cup {None, Gone}]
    /\ World.countries \subseteq CountryIds
    /\ TwoLevels(World.categories)
    /\ OnTheTree(World.categories, World.items, World.countries)
    /\ OwnOrCommon(World.items, World.listings)
ASSUME ReviewedAssumption == Reviewed(World.categories, World.items, World.listings)
ASSUME MixesAssumption ==
    MaxRequests \in Nat /\ \A m \in Mixes : \A r \in m : Sound(r) /\ r.kind # "none"

Go(h, label) == pc' = [pc EXCEPT ![h] = label]
Done(h) == pc' = [pc EXCEPT ![h] = "idle"] /\ req' = [req EXCEPT ![h] = NoReq]

\* Handlers are alike: the first idle one takes the request.
Arrive(h, r) ==
    /\ pc[h] = "idle"
    /\ \A o \in Handlers : pc[o] = "idle" => h <= o
    /\ asked < MaxRequests
    /\ asked' = asked + 1
    /\ alone' = (alone /\ \A o \in Handlers : pc[o] = "idle")
    /\ req' = [req EXCEPT ![h] = r]
    /\ Go(h, "read")
    /\ UNCHANGED tables

\* findRaw.
RowOf(r) == IF r.kind \in Creates THEN None ELSE TableOf(r.kind)[r.id]

\* The row is read, what the request may do is decided by it, and so are the checks.
Read(h) ==
    /\ pc[h] = "read"
    /\ LET r == req[h]
           row == RowOf(r)
       IN  IF (r.kind \notin Creates /\ row \in {None, Gone}) \/ ~Allowed(r, row)
           THEN Done(h)
           ELSE /\ req' = [req EXCEPT ![h].row = row, ![h].checks = ChecksOf(r, row)]
                /\ Go(h, "check")
    /\ UNCHANGED <<tables, asked, alone>>

Check(h) ==
    /\ pc[h] = "check"
    /\ req[h].checks # <<>>
    /\ IF Holds(Head(req[h].checks), req[h].user)
       THEN req' = [req EXCEPT ![h].checks = Tail(@)] /\ UNCHANGED pc
       ELSE Done(h)
    /\ UNCHANGED <<tables, asked, alone>>

\* The master's rows are approved at once, a seller's wait for a review.
Owner(user) == IF user = Super THEN None ELSE user
FirstStatus(user) == IF user = Super THEN "APPROVED" ELSE "PENDING"

\* @unique, @@unique([sellerId, sku]), and the foreign key of the country.
CodeFree(code, except) ==
    code = None \/ \A c \in In(categories) \ {except} : categories[c].code # code
SkuFree(seller, sku, except) ==
    sku = None \/ \A l \in In(listings) \ {except} : ~(listings[l].seller = seller /\ listings[l].sku = sku)
CountryKept(country) == country = None \/ country \in countries

\* Bound: rows are created while there are ids.
NewRows(table) == {id \in DOMAIN table : table[id] = None}

WriteCategory(r) ==
    /\ IF r.kind = "create category"
       THEN \E c \in NewRows(categories) :
              /\ \A d \in NewRows(categories) : c <= d
              /\ CodeFree(Or(r.dto.code, None), None)
              /\ categories' = [categories EXCEPT ![c] =
                    [parent |-> Or(r.dto.parent, None), code |-> Or(r.dto.code, None),
                     owner |-> Owner(r.user), status |-> FirstStatus(r.user)]]
       ELSE /\ CodeFree(Or(r.dto.code, None), r.id)
            /\ categories' = [categories EXCEPT ![r.id].status = Or(r.dto.status, @),
                                               ![r.id].code = Or(r.dto.code, @)]
    /\ UNCHANGED <<items, listings, countries>>

WriteItem(r) ==
    /\ CountryKept(Or(r.dto.country, None))
    /\ IF r.kind = "create item"
       THEN \E i \in NewRows(items) :
              /\ \A j \in NewRows(items) : i <= j
              /\ items' = [items EXCEPT ![i] =
                    [category |-> r.dto.category, sub |-> Or(r.dto.sub, None),
                     country |-> Or(r.dto.country, None),
                     owner |-> Owner(r.user), status |-> FirstStatus(r.user)]]
       ELSE items' = [items EXCEPT ![r.id].category = Or(r.dto.category, @),
                                   ![r.id].sub = Or(NewSub(r.dto, r.row), @),
                                   ![r.id].country = Or(r.dto.country, @),
                                   ![r.id].status = Or(r.dto.status, @)]
    /\ UNCHANGED <<categories, listings, countries>>

WriteListing(r) ==
    /\ IF r.kind = "create listing"
       THEN \E l \in NewRows(listings) :
              /\ \A k \in NewRows(listings) : l <= k
              /\ SkuFree(SellerOf(r), Or(r.dto.sku, None), None)
              /\ listings' = [listings EXCEPT ![l] =
                    [seller |-> SellerOf(r), item |-> r.dto.item, variant |-> r.dto.variant,
                     sku |-> Or(r.dto.sku, None), status |-> Or(r.dto.status, "DRAFT")]]
       ELSE /\ listings[r.id] # Gone
            /\ IF r.kind = "remove listing"
               THEN listings' = [listings EXCEPT ![r.id] = Gone]
               ELSE /\ SkuFree(r.row.seller, Or(r.dto.sku, listings[r.id].sku), r.id)
                    /\ listings' = [listings EXCEPT ![r.id].item = Or(r.dto.item, @),
                                                   ![r.id].variant = Or(r.dto.variant, @),
                                                   ![r.id].sku = Or(r.dto.sku, @),
                                                   ![r.id].status = Or(r.dto.status, @)]
    /\ UNCHANGED <<categories, items, countries>>

\* The country of an item is kept by a foreign key, whatever was counted before.
WriteCountry(r) ==
    /\ IF r.kind = "create country"
       THEN r.id \notin countries /\ countries' = countries \cup {r.id}
       ELSE /\ r.id \in countries
            /\ IF r.kind = "remove country"
               THEN CountryFree(r.id) /\ countries' = countries \ {r.id}
               ELSE UNCHANGED countries
    /\ UNCHANGED <<categories, items, listings>>

\* The write that the kind asks for, or a constraint of the database that refuses it.
WriteOf(r) ==
    CASE r.kind \in {"create category", "update category", "category status"} -> WriteCategory(r)
      [] r.kind \in {"create item", "update item"} -> WriteItem(r)
      [] r.kind \in {"create listing", "update listing", "remove listing"} -> WriteListing(r)
      [] r.kind \in {"create country", "update country", "remove country"} -> WriteCountry(r)

Write(h) ==
    /\ pc[h] = "check"
    /\ req[h].checks = <<>>
    /\ WriteOf(req[h]) \/ UNCHANGED tables   \* refused, or the query failed
    /\ Done(h)
    /\ UNCHANGED <<asked, alone>>

-----------------------------------------------------------------------------

Init ==
    /\ mix \in Mixes
    /\ categories = World.categories
    /\ items = World.items
    /\ listings = World.listings
    /\ countries = World.countries
    /\ pc = [h \in Handlers |-> "idle"]
    /\ req = [h \in Handlers |-> NoReq]
    /\ asked = 0
    /\ alone = TRUE

Next ==
    /\ UNCHANGED mix
    /\ \E h \in Handlers :
          \/ \E r \in mix : Arrive(h, r)
          \/ Read(h) \/ Check(h) \/ Write(h)

Spec == Init /\ [][Next]_vars

-----------------------------------------------------------------------------
(* Properties *)

TypeOK ==
    /\ mix \in Mixes
    /\ categories \in [CategoryIds -> Category \cup {None}]
    /\ items \in [ItemIds -> Item \cup {None}]
    /\ listings \in [ListingIds -> Listing \cup {None, Gone}]
    /\ countries \subseteq CountryIds
    /\ pc \in [Handlers -> Label] /\ req \in [Handlers -> Request]
    /\ alone \in BOOLEAN /\ asked \in 0..MaxRequests

\* However requests overlap, the tree keeps two levels - only tiles have codes, all
\* different; a tile is the platform's; an item stands on a tile, and its subcategory
\* is no tile - and nobody sells another seller's item or hangs his subcategory on
\* another's category.
TreeStands ==
    /\ TypeOK
    /\ TwoLevels(categories)
    /\ OnTheTree(categories, items, countries)
    /\ OwnOrCommon(items, listings)

\* As long as requests come one at a time, a review is not undone from below: what
\* an item, a subcategory or a listing hangs on is approved, the subcategory of an
\* item belongs to its category, and no seller offers one variant twice.
ReviewHolds == alone => Reviewed(categories, items, listings)

\* What is for sale can be found by walking the screens, though the queries of the
\* listings ask for the status of neither item nor category: its category is a tile,
\* its subcategory is on the screen of that tile, its item is in the catalogue there;
\* and its seller sees, among what the admin panel shows him, the item he sells and
\* the tile it is on.
EverythingIsFound ==
    alone =>
        \A l \in Storefront :
            LET i == listings[l].item
                c == items[i].category
                s == items[i].sub
            IN  /\ c \in Roots
                /\ categories[c].code # None =>
                       l \in OfCategory(categories[c].code) /\ c \in ByCode(categories[c].code)
                /\ s # None => s \in Children(c)
                /\ i \in PublicItems(c, s)
                /\ i \in Visible(items, listings[l].seller)
                /\ c \in Visible(categories, listings[l].seller)
                /\ l \in SideBySide(l) \cap ForSeller(listings[l].seller)

\* schema.prisma:319 wants a code for every tile, by which the storefront opens it.
\* The code does not keep it (no run claims it): update writes a null that validation
\* lets through (categories.service.ts:433).
TilesHaveCodes == \A c \in Roots : categories[c].code # None

-----------------------------------------------------------------------------
(* The inductive invariant: what a request knows of the rows when it writes *)

\* A question is still to be asked before the write.
StillAsks(r, what, id) == \E q \in ToSet(r.checks) : q.what = what /\ q.id = id

\* What an answer leaves for good: parents and owners never change.
IsTile(cs, c) == c \in In(cs) /\ cs[c].parent = None
IsBranch(cs, c) == c \in In(cs) /\ cs[c].parent # None
MaySell(is, seller, i) == i \in In(is) /\ is[i].owner \in {None, seller}

\* For whom a request lists an item.
For(r) == IF r.kind = "create listing" THEN SellerOf(r) ELSE r.row.seller

\* What a request that was let through has found in the tables, or is about to ask.
FoundOfTree(r, cs, is) ==
    /\ r.kind = "create category" =>
          IF r.dto.parent = Keep
          THEN r.user = Super
          ELSE /\ r.dto.code \in {Keep, None}
               /\ StillAsks(r, "parent", r.dto.parent) \/ IsTile(cs, r.dto.parent)
    /\ r.kind \in {"update category", "category status"} =>
          /\ r.id \in In(cs)
          /\ r.dto.code # Keep => IsTile(cs, r.id)
    /\ r.kind \in {"create item", "update item"} =>
          /\ r.dto.category # Keep => StillAsks(r, "top", r.dto.category) \/ IsTile(cs, r.dto.category)
          /\ r.dto.sub \notin {Keep, None} => StillAsks(r, "sub", r.dto.sub) \/ IsBranch(cs, r.dto.sub)
          /\ r.kind = "update item" => r.id \in In(is)
FoundOfListings(r, is, ls) ==
    /\ r.kind \in {"create listing", "update listing"} =>
          /\ For(r) \in Sellers
          /\ r.dto.item # Keep => StillAsks(r, "item", r.dto.item) \/ MaySell(is, For(r), r.dto.item)
    /\ r.kind = "update listing" => ls[r.id] = Gone \/ (r.id \in In(ls) /\ ls[r.id].seller = For(r))
    /\ r.kind = "remove listing" => ls[r.id] # None
AsksRight(r) ==
    \A q \in ToSet(r.checks) :
        /\ q.what = "sub" => q.of \in CategoryIds
        /\ q.what = "item" => q.of = For(r)

InPlace(label, r) ==
    /\ Sound(r)
    /\ r.kind = "none" <=> label = "idle"
    /\ label = "check" => AsksRight(r)

RequestsInPlace == \A h \in Handlers : InPlace(pc[h], req[h])
RequestsFound ==
    \A h \in Handlers : pc[h] = "check" =>
        FoundOfTree(req[h], categories, items) /\ FoundOfListings(req[h], items, listings)

IInv == TreeStands /\ RequestsInPlace /\ RequestsFound

\* As long as requests come one at a time, what was read and answered is still so.
OneBusy == alone => \A h, o \in Handlers : pc[h] # "idle" /\ pc[o] # "idle" => h = o
NothingMoved ==
    alone =>
        \A h \in Handlers : pc[h] = "check" =>
            /\ req[h].row = RowOf(req[h])
            /\ \A q \in ToSet(ChecksOf(req[h], req[h].row)) :
                  q \in ToSet(req[h].checks) \/ Holds(q, req[h].user)

ReviewInv == IInv /\ ReviewHolds /\ OneBusy /\ NothingMoved
=============================================================================
