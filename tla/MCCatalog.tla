------------------------------ MODULE MCCatalog ------------------------------
(***************************************************************************)
(* Two tiles, one with a subcategory, an item of the platform under it with*)
(* a listing of the first of two sellers, and an item of that seller; room *)
(* for two more categories, one more item and two more listings; three     *)
(* requests of which two may overlap.                                      *)
(***************************************************************************)
EXTENDS Catalog

CONSTANTS s1, s2, UZ    \* two sellers, a country

MCCategoryIds == 1..5
MCItemIds == 1..3
MCListingIds == 1..3
MCVariants == {{}, {"seedling"}}

Tile(code) == [parent |-> None, code |-> code, owner |-> None, status |-> "APPROVED"]
Branch(of) == [parent |-> of, code |-> None, owner |-> None, status |-> "APPROVED"]

MCWorld ==
    [categories |-> <<Tile("houseplants"), Tile("pots"), Branch(1), None, None>>,
     items |-> <<[category |-> 1, sub |-> 3, country |-> None, owner |-> None, status |-> "APPROVED"],
                 [category |-> 1, sub |-> None, country |-> None, owner |-> s1, status |-> "APPROVED"],
                 None>>,
     listings |-> <<[seller |-> s1, item |-> 1, variant |-> {}, sku |-> None, status |-> "ACTIVE"],
                    None, None>>,
     countries |-> {UZ}]

R(kind, user, id, dto) == [kind |-> kind, user |-> user, id |-> id, dto |-> dto, row |-> None, checks |-> <<>>]
D == NoDto

\* The requests: on the tree,
NewCategory ==
    {R("create category", u, None, [D EXCEPT !.parent = p, !.code = c]) :
        u \in {Super, s1}, p \in {Keep, 1, 3}, c \in {Keep, "houseplants", "gifts"}}
Review ==
    {R("category status", Super, c, [D EXCEPT !.status = st]) : c \in {1, 2, 3, 4}, st \in {"APPROVED", "REJECTED"}}
Recode ==
    {R("update category", u, c, [D EXCEPT !.code = k]) :
        u \in {Super, s1}, c \in {1, 3}, k \in {None, "gifts"}}
        \cup {R("update category", u, c, D) : u \in {s1}, c \in {3, 4}}

\* on the items,
NewItem ==
    {R("create item", u, None, [D EXCEPT !.category = c, !.sub = s]) :
        u \in {Super, s1}, c \in {1, 2}, s \in {Keep, 3, 4}}
MoveItem ==
    {R("update item", u, i, [D EXCEPT !.category = c, !.sub = s]) :
        u \in {Super, s1}, i \in {1, 3}, c \in {Keep, 2}, s \in {Keep, None, 3}}
ReviewItem ==
    {R("update item", Super, i, [D EXCEPT !.status = st]) : i \in {1, 2}, st \in {"APPROVED", "REJECTED"}}

\* on the listings,
NewListing ==
    {R("create listing", u, None, [D EXCEPT !.item = i, !.variant = v, !.sku = k, !.status = "ACTIVE",
                                             !.seller = IF u = Super THEN s1 ELSE Keep]) :
        u \in {Super, s2}, i \in {1, 2}, v \in MCVariants, k \in {Keep, "R-60"}}
OtherListing ==
    {R("update listing", u, l, [D EXCEPT !.item = i, !.variant = v]) :
        u \in {s1}, l \in {1, 2}, i \in {Keep, 2}, v \in {Keep, {}, {"seedling"}}}
        \cup {R("remove listing", u, 1, D) : u \in {Super, s2}}
        \cup {R("update listing", u, 1, [D EXCEPT !.markup = 1]) : u \in {Super, s1}}

\* and on the countries.
Abroad ==
    {R(k, Super, UZ, D) : k \in {"create country", "update country", "remove country"}}
        \cup {R("create item", Super, None, [D EXCEPT !.category = 1, !.country = UZ]),
              R("update item", Super, 1, [D EXCEPT !.country = UZ]),
              R("update item", Super, 1, [D EXCEPT !.country = None])}

MCMixes ==
    {NewCategory \cup Review \cup Recode,
     Review \cup NewItem \cup MoveItem,
     ReviewItem \cup NewListing \cup OtherListing,
     Abroad}
=============================================================================
