--------------------------- MODULE Catalog_proofs ---------------------------
(***************************************************************************)
(* Proofs about Catalog, for any tables, any requests and any number of    *)
(* them at a time: the tree keeps its shape and everyone his own items.    *)
(* For requests that come one at a time: nothing hangs on what is not      *)
(* approved, and what is for sale is found.                                *)
(***************************************************************************)
EXTENDS Catalog, TLAPS

-----------------------------------------------------------------------------
(* Sequences of questions *)

LEMMA SetOfTail ==
    ASSUME NEW S, NEW s \in Seq(S), s # <<>>
    PROVE  /\ Head(s) \in S /\ Tail(s) \in Seq(S)
           /\ \A x \in ToSet(s) : x = Head(s) \/ x \in ToSet(Tail(s))
           /\ \A x \in ToSet(Tail(s)) : x \in ToSet(s)
<1>1. Len(s) \in Nat \ {0} /\ DOMAIN s = 1..Len(s) /\ Head(s) = s[1] /\ Head(s) \in S
  OBVIOUS
<1>2. Tail(s) \in Seq(S) /\ DOMAIN Tail(s) = 1..(Len(s) - 1)
      /\ \A i \in 1..(Len(s) - 1) : Tail(s)[i] = s[i + 1]
  BY <1>1
<1>3. ToSet(s) = {s[i] : i \in 1..Len(s)} /\ ToSet(Tail(s)) = {s[i + 1] : i \in 1..(Len(s) - 1)}
  BY <1>1, <1>2 DEF ToSet
<1>4. \A i \in 1..Len(s) : i = 1 \/ (i - 1 \in 1..(Len(s) - 1) /\ s[i] = s[(i - 1) + 1])
  BY <1>1
<1>5. \A i \in 1..(Len(s) - 1) : i + 1 \in 1..Len(s)
  BY <1>1
<1>6. ASSUME NEW x \in ToSet(s) PROVE x = Head(s) \/ x \in ToSet(Tail(s))
  <2>1. PICK i \in 1..Len(s) : x = s[i]
    BY <1>3
  <2>2. CASE i = 1
    BY <1>1, <2>1, <2>2
  <2>3. CASE i - 1 \in 1..(Len(s) - 1) /\ s[i] = s[(i - 1) + 1]
    BY <1>3, <2>1, <2>3
  <2> QED BY <1>4, <2>1, <2>2, <2>3
<1>7. ASSUME NEW x \in ToSet(Tail(s)) PROVE x \in ToSet(s)
  <2>1. PICK i \in 1..(Len(s) - 1) : x = s[i + 1]
    BY <1>3
  <2> QED BY <1>3, <1>5, <2>1
<1> QED BY <1>1, <1>2, <1>6, <1>7

LEMMA SetOfJoined ==
    ASSUME NEW S, NEW s \in Seq(S), NEW t \in Seq(S)
    PROVE  /\ s \o t \in Seq(S)
           /\ \A x : x \in ToSet(s \o t) <=> x \in ToSet(s) \/ x \in ToSet(t)
<1>1. /\ s \o t \in Seq(S) /\ Len(s) \in Nat /\ Len(t) \in Nat
      /\ DOMAIN s = 1..Len(s) /\ DOMAIN t = 1..Len(t) /\ DOMAIN (s \o t) = 1..(Len(s) + Len(t))
      /\ \A i \in 1..(Len(s) + Len(t)) : (s \o t)[i] = IF i <= Len(s) THEN s[i] ELSE t[i - Len(s)]
  OBVIOUS
<1>2. ASSUME NEW x \in ToSet(s \o t) PROVE x \in ToSet(s) \/ x \in ToSet(t)
  <2>1. PICK i \in 1..(Len(s) + Len(t)) : x = (s \o t)[i]
    BY <1>1, <1>2 DEF ToSet
  <2>2. CASE i <= Len(s)
    BY <1>1, <2>1, <2>2 DEF ToSet
  <2>3. CASE i > Len(s)
    <3>1. i - Len(s) \in 1..Len(t) /\ x = t[i - Len(s)]
      BY <1>1, <2>1, <2>3
    <3> QED BY <1>1, <3>1 DEF ToSet
  <2> QED BY <1>1, <2>2, <2>3
<1>3. ASSUME NEW x \in ToSet(s) PROVE x \in ToSet(s \o t)
  <2>1. PICK i \in 1..Len(s) : x = s[i]
    BY <1>1, <1>3 DEF ToSet
  <2>2. i \in 1..(Len(s) + Len(t)) /\ x = (s \o t)[i]
    BY <1>1, <2>1
  <2> QED BY <1>1, <2>2 DEF ToSet
<1>4. ASSUME NEW x \in ToSet(t) PROVE x \in ToSet(s \o t)
  <2>1. PICK i \in 1..Len(t) : x = t[i]
    BY <1>1, <1>4 DEF ToSet
  <2>2. Len(s) + i \in 1..(Len(s) + Len(t)) /\ ~(Len(s) + i <= Len(s)) /\ (Len(s) + i) - Len(s) = i
    BY <1>1
  <2>3. x = (s \o t)[Len(s) + i]
    BY <1>1, <2>1, <2>2
  <2> QED BY <1>1, <2>2, <2>3 DEF ToSet
<1> QED BY <1>1, <1>2, <1>3, <1>4

LEMMA Joined ==
    ASSUME NEW s \in Seq(Question), NEW t \in Seq(Question)
    PROVE  /\ s \o t \in Seq(Question)
           /\ \A x : x \in ToSet(s \o t) <=> x \in ToSet(s) \/ x \in ToSet(t)
BY SetOfJoined

LEMMA SetOfNone ==
    ASSUME NEW S PROVE <<>> \in Seq(S) /\ ToSet(<<>>) = {}
BY DEF ToSet

LEMMA EmptySet == ToSet(<<>>) = {}
BY DEF ToSet

LEMMA SetOfOne ==
    ASSUME NEW S, NEW q \in S
    PROVE  <<q>> \in Seq(S) /\ ToSet(<<q>>) = {q}
BY DEF ToSet

-----------------------------------------------------------------------------
(* The tree *)

LEMMA DepthOne ==
    ASSUME TwoLevels(categories), NEW c \in In(categories), Depth(c) < MaxDepth
    PROVE  categories[c].parent = None
<1> DEFINE Step(f) == [d \in In(categories) |->
                         IF categories[d].parent = None THEN 1 ELSE 1 + f[categories[d].parent]]
           up == CHOOSE f : f = Step(f)
           two == [d \in In(categories) |-> IF categories[d].parent = None THEN 1 ELSE 2]
<1>1. Depth(c) = up[c]
  BY DEF Depth
<1>2. two = Step(two)
  <2>1. ASSUME NEW d \in In(categories)
        PROVE  two[d] = IF categories[d].parent = None THEN 1 ELSE 1 + two[categories[d].parent]
    BY DEF TwoLevels
  <2> QED BY <2>1
<1>3. \E f : f = Step(f)
  BY <1>2
<1>4. up = Step(up)
  BY <1>3, Zenon
<1>5. ASSUME NEW d \in In(categories)
      PROVE  up[d] = IF categories[d].parent = None THEN 1 ELSE 1 + up[categories[d].parent]
  <2> HIDE DEF up
  <2> QED BY <1>4
<1>6. CASE categories[c].parent # None
  <2> HIDE DEF up
  <2>1. categories[c].parent \in In(categories) /\ categories[categories[c].parent].parent = None
    BY <1>6 DEF TwoLevels
  <2>2. up[categories[c].parent] = 1
    BY <1>5, <2>1
  <2>3. up[c] = 2
    BY <1>5, <1>6, <2>2
  <2> QED BY <1>1, <2>3 DEF MaxDepth
<1> QED BY <1>6

-----------------------------------------------------------------------------
(* What a request asks *)

LEMMA AskTyped ==
    ASSUME NEW what \in {"parent", "top", "sub", "country", "category free", "item free",
                         "country free", "item", "variant"},
           NEW id \in CategoryIds \cup ItemIds \cup CountryIds
    PROVE  Ask(what, id) \in Question /\ Ask(what, id).what = what /\ Ask(what, id).id = id
BY DEF Ask, Question

LEMMA AskOfTyped ==
    ASSUME NEW what \in {"sub", "item"}, NEW id \in CategoryIds \cup ItemIds,
           NEW of \in CategoryIds \cup Sellers
    PROVE  /\ [Ask(what, id) EXCEPT !.of = of] \in Question
           /\ [Ask(what, id) EXCEPT !.of = of].what = what
           /\ [Ask(what, id) EXCEPT !.of = of].id = id
           /\ [Ask(what, id) EXCEPT !.of = of].of = of
BY DEF Ask, Question

Asks(s, what, id) == \E q \in ToSet(s) : q.what = what /\ q.id = id

LEMMA OneAsk ==
    ASSUME NEW what \in {"parent", "category free", "item free", "country free"},
           NEW id \in CategoryIds \cup ItemIds \cup CountryIds
    PROVE  /\ <<Ask(what, id)>> \in Seq(Question)
           /\ \E q \in ToSet(<<Ask(what, id)>>) : q.what = what /\ q.id = id
           /\ \A q \in ToSet(<<Ask(what, id)>>) : q.what \notin {"sub", "item", "variant"}
<1>1. Ask(what, id) \in Question /\ Ask(what, id).what = what /\ Ask(what, id).id = id
  BY DEF Ask, Question
<1>2. <<Ask(what, id)>> \in Seq(Question) /\ ToSet(<<Ask(what, id)>>) = {Ask(what, id)}
  BY <1>1, SetOfOne
<1> QED BY <1>1, <1>2

LEMMA PairAsks ==
    ASSUME NEW c \in CategoryIds, NEW d \in CategoryIds \cup {None}
    PROVE  /\ PairChecks(c, d) \in Seq(Question)
           /\ \E q \in ToSet(PairChecks(c, d)) : q.what = "top" /\ q.id = c
           /\ d # None => \E q \in ToSet(PairChecks(c, d)) : q.what = "sub" /\ q.id = d
           /\ \A q \in ToSet(PairChecks(c, d)) : q.what \notin {"item", "variant"} /\ (q.what = "sub" => q.of = c)
<1> DEFINE top == Ask("top", c)
           sub == [Ask("sub", d) EXCEPT !.of = c]
           rest == IF d = None THEN <<>> ELSE <<sub>>
<1>1. top \in Question /\ top.what = "top" /\ top.id = c
  BY AskTyped
<1>2. <<top>> \in Seq(Question) /\ ToSet(<<top>>) = {top}
  BY <1>1, SetOfOne
<1>3. d # None => sub \in Question /\ sub.what = "sub" /\ sub.id = d /\ sub.of = c
  BY AskOfTyped
<1>4. rest \in Seq(Question) /\ \A q : q \in ToSet(rest) <=> d # None /\ q = sub
  <2>1. CASE d = None
    BY <2>1, SetOfNone
  <2>2. CASE d # None
    <3>1. <<sub>> \in Seq(Question) /\ ToSet(<<sub>>) = {sub}
      BY <1>3, <2>2, SetOfOne
    <3> QED BY <2>2, <3>1
  <2> QED BY <2>1, <2>2
<1>5. PairChecks(c, d) = <<top>> \o rest
  BY DEF PairChecks
<1> HIDE DEF top, sub, rest
<1>6. PairChecks(c, d) \in Seq(Question)
      /\ \A q : q \in ToSet(PairChecks(c, d)) <=> q \in ToSet(<<top>>) \/ q \in ToSet(rest)
  <2>1. <<top>> \in Seq(Question) /\ rest \in Seq(Question)
    BY <1>2, <1>4
  <2> QED BY <1>5, <2>1, Joined, Zenon
<1>7. \A q : q \in ToSet(PairChecks(c, d)) <=> q = top \/ (d # None /\ q = sub)
  BY <1>2, <1>4, <1>6
<1> QED BY <1>1, <1>3, <1>6, <1>7

LEMMA CountryAsks ==
    ASSUME NEW k \in {Keep, None} \cup CountryIds
    PROVE  /\ CountryChecks(k) \in Seq(Question)
           /\ \A q \in ToSet(CountryChecks(k)) : q.what \notin {"sub", "item", "variant"}
<1>1. CASE k \in {Keep, None}
  BY <1>1, SetOfNone DEF CountryChecks
<1>2. CASE k \notin {Keep, None}
  <2>1. Ask("country", k) \in Question /\ Ask("country", k).what = "country"
    BY <1>2, AskTyped
  <2>2. <<Ask("country", k)>> \in Seq(Question) /\ ToSet(<<Ask("country", k)>>) = {Ask("country", k)}
    BY <2>1, SetOfOne
  <2>3. CountryChecks(k) = <<Ask("country", k)>>
    BY <1>2 DEF CountryChecks
  <2> QED BY <2>1, <2>2, <2>3
<1> QED BY <1>1, <1>2

VariantAsked(s, seller, item, variant, except) ==
    /\ s \in Seq(Question) /\ Asks(s, "variant", item)
    /\ \A q \in ToSet(s) : q.what = "variant" /\ q.of = seller /\ q.variant = variant /\ q.except = except

LEMMA ListingAsks ==
    ASSUME NEW seller \in Sellers, NEW item \in ItemIds, NEW variant \in Variants,
           NEW except \in {None} \cup ListingIds
    PROVE  VariantAsked(ListingChecks(seller, item, variant, except), seller, item, variant, except)
<1> DEFINE q == [Ask("variant", item) EXCEPT !.of = seller, !.variant = variant, !.except = except]
<1>1. /\ q \in Question /\ q.what = "variant" /\ q.id = item
      /\ q.of = seller /\ q.variant = variant /\ q.except = except
  BY DEF Ask, Question
<1>2. <<q>> \in Seq(Question) /\ ToSet(<<q>>) = {q}
  BY <1>1, SetOfOne
<1>3. ListingChecks(seller, item, variant, except) = <<q>>
  BY DEF ListingChecks
<1> HIDE DEF q
<1> QED BY <1>1, <1>2, <1>3 DEF Asks, VariantAsked

\* The row that a kind of request reads.
Fits(kind, row) ==
    /\ kind \in {"update category", "category status"} => row \in Category
    /\ kind = "update item" => row \in Item
    /\ kind \in {"update listing", "remove listing"} => row \in Listing

\* Who a listing is for, before the row is in the request.
Seller(r, row) == IF r.kind = "create listing" THEN SellerOf(r) ELSE row.seller

\* The category, item and variant that the row has when the request is done.
CategoryOf(r, row) == Or(r.dto.category, row.category)
ItemOf(r, row) == Or(r.dto.item, row.item)
VariantOf(r, row) == Or(r.dto.variant, row.variant)
Except(r) == IF r.kind = "create listing" THEN None ELSE r.id

AsksAll(r, row, s) ==
    /\ s \in Seq(Question)
    /\ r.kind = "create category" /\ r.dto.parent # Keep => Asks(s, "parent", r.dto.parent)
    /\ r.kind \in {"update category", "category status"} /\ ChangesStatus(r.dto, row) =>
          Asks(s, "category free", r.id)
    /\ r.kind \in {"create item", "update item"} =>
          /\ r.dto.category # Keep => Asks(s, "top", r.dto.category)
          /\ r.dto.sub \notin {Keep, None} => Asks(s, "sub", r.dto.sub)
          /\ r.kind = "update item" /\ ChangesStatus(r.dto, row) => Asks(s, "item free", r.id)
    /\ r.kind \in {"create listing", "update listing"} =>
          /\ Seller(r, row) \in Sellers
          /\ r.dto.item # Keep => Asks(s, "item", r.dto.item)
          /\ Asks(s, "variant", ItemOf(r, row))
    /\ \A q \in ToSet(s) :
          /\ q.what = "sub" => q.of \in CategoryIds /\ q.of = CategoryOf(r, row)
          /\ q.what = "item" => q.of = Seller(r, row)
          /\ q.what = "variant" =>
                q.of = Seller(r, row) /\ q.variant = VariantOf(r, row) /\ q.except = Except(r)

LEMMA AsksOfCategory ==
    ASSUME NEW r, Sound(r), NEW row, Fits(r.kind, row),
           r.kind \in {"create category", "update category", "category status"}
    PROVE  AsksAll(r, row, ChecksOf(r, row))
<1>1. r.dto \in Dto /\ (r.kind # "create category" => r.id \in CategoryIds)
  BY DEF Sound, Request
<1>2. CASE r.kind = "create category"
  <2>1. ChecksOf(r, row) = IF r.dto.parent = Keep THEN <<>> ELSE <<Ask("parent", r.dto.parent)>>
    BY <1>2 DEF ChecksOf
  <2>2. CASE r.dto.parent = Keep
    BY <1>2, <2>1, <2>2, SetOfNone DEF AsksAll
  <2>3. CASE r.dto.parent # Keep
    <3>1. r.dto.parent \in CategoryIds
      BY <1>1, <2>3 DEF Dto
    <3> DEFINE s == <<Ask("parent", r.dto.parent)>>
    <3>2. /\ s \in Seq(Question)
          /\ \E q \in ToSet(s) : q.what = "parent" /\ q.id = r.dto.parent
          /\ \A q \in ToSet(s) : q.what \notin {"sub", "item", "variant"}
      BY <3>1, OneAsk
    <3>3. ChecksOf(r, row) = s
      BY <2>1, <2>3
    <3> HIDE DEF s
    <3> QED BY <1>2, <3>2, <3>3 DEF AsksAll, Asks
  <2> QED BY <2>2, <2>3
<1>3. CASE r.kind \in {"update category", "category status"}
  <2>1. ChecksOf(r, row) = IF ChangesStatus(r.dto, row) THEN <<Ask("category free", r.id)>> ELSE <<>>
    BY <1>3 DEF ChecksOf
  <2>2. CASE ChangesStatus(r.dto, row)
    <3> DEFINE s == <<Ask("category free", r.id)>>
    <3>1. /\ s \in Seq(Question)
          /\ \E q \in ToSet(s) : q.what = "category free" /\ q.id = r.id
          /\ \A q \in ToSet(s) : q.what \notin {"sub", "item", "variant"}
      BY <1>1, <1>3, OneAsk
    <3>2. ChecksOf(r, row) = s
      BY <2>1, <2>2
    <3> HIDE DEF s
    <3> QED BY <1>3, <3>1, <3>2 DEF AsksAll, Asks
  <2>3. CASE ~ChangesStatus(r.dto, row)
    BY <1>3, <2>1, <2>3, SetOfNone DEF AsksAll
  <2> QED BY <2>2, <2>3
<1> QED BY <1>2, <1>3

LEMMA AsksOfItem ==
    ASSUME NEW r, Sound(r), NEW row, Fits(r.kind, row), r.kind \in {"create item", "update item"}
    PROVE  AsksAll(r, row, ChecksOf(r, row))
<1>1. r.dto \in Dto /\ (r.kind = "update item" => r.id \in ItemIds)
      /\ (r.kind = "create item" => r.dto.category # Keep)
  BY DEF Sound, Request
<1>2. r.dto.category \in {Keep} \cup CategoryIds /\ r.dto.sub \in {Keep, None} \cup CategoryIds
      /\ r.dto.country \in {Keep, None} \cup CountryIds
  BY <1>1 DEF Dto
<1>3. CountryChecks(r.dto.country) \in Seq(Question)
      /\ \A q \in ToSet(CountryChecks(r.dto.country)) : q.what \notin {"sub", "item", "variant"}
  BY <1>2, CountryAsks
<1>4. CASE r.kind = "create item"
  <2> DEFINE pair == PairChecks(r.dto.category, Or(r.dto.sub, None))
  <2>1. r.dto.category \in CategoryIds /\ Or(r.dto.sub, None) \in CategoryIds \cup {None}
        /\ (r.dto.sub \notin {Keep, None} => Or(r.dto.sub, None) = r.dto.sub)
    BY <1>1, <1>2, <1>4 DEF Or
  <2>2. /\ pair \in Seq(Question)
        /\ Asks(pair, "top", r.dto.category)
        /\ r.dto.sub \notin {Keep, None} => Asks(pair, "sub", r.dto.sub)
        /\ \A q \in ToSet(pair) :
              q.what \notin {"item", "variant"} /\ (q.what = "sub" => q.of = r.dto.category)
    <3> DEFINE c == r.dto.category
               d == Or(r.dto.sub, None)
    <3>1. c \in CategoryIds /\ d \in CategoryIds \cup {None}
      BY <2>1
    <3>2. /\ PairChecks(c, d) \in Seq(Question)
          /\ Asks(PairChecks(c, d), "top", c)
          /\ d # None => Asks(PairChecks(c, d), "sub", d)
          /\ \A q \in ToSet(PairChecks(c, d)) :
                q.what \notin {"item", "variant"} /\ (q.what = "sub" => q.of = c)
      <4> HIDE DEF c, d
      <4> QED BY <3>1, PairAsks DEF Asks
    <3> QED BY <2>1, <3>2
  <2>3. ChecksOf(r, row) = pair \o CountryChecks(r.dto.country)
    BY <1>4 DEF ChecksOf
  <2> HIDE DEF pair
  <2>4. ChecksOf(r, row) \in Seq(Question)
        /\ \A q : q \in ToSet(ChecksOf(r, row)) <=>
                     q \in ToSet(pair) \/ q \in ToSet(CountryChecks(r.dto.country))
    BY <1>3, <2>2, <2>3, Joined
  <2>5. CategoryOf(r, row) = r.dto.category
    BY <1>1, <1>4 DEF CategoryOf, Or
  <2> QED BY <1>3, <1>4, <2>1, <2>2, <2>4, <2>5 DEF AsksAll, Asks
<1>5. CASE r.kind = "update item"
  <2> DEFINE new == NewSub(r.dto, row)
             pair == IF r.dto.category = Keep /\ new = Keep THEN <<>>
                     ELSE PairChecks(Or(r.dto.category, row.category), Or(new, None))
             free == IF ChangesStatus(r.dto, row) THEN <<Ask("item free", r.id)>> ELSE <<>>
             country == CountryChecks(r.dto.country)
  <2>1. row.category \in CategoryIds
    BY <1>5 DEF Fits, Item
  <2>2. new \in {Keep, None} \cup CategoryIds /\ (r.dto.sub # Keep => new = r.dto.sub)
    BY <1>2 DEF NewSub
  <2>3. /\ pair \in Seq(Question)
        /\ r.dto.category # Keep => Asks(pair, "top", r.dto.category)
        /\ r.dto.sub \notin {Keep, None} => Asks(pair, "sub", r.dto.sub)
        /\ \A q \in ToSet(pair) :
              q.what \notin {"item", "variant"} /\ (q.what = "sub" => q.of = CategoryOf(r, row))
    <3> HIDE DEF new
    <3>1. CASE r.dto.category = Keep /\ new = Keep
      BY <2>2, <3>1, SetOfNone
    <3>2. CASE ~(r.dto.category = Keep /\ new = Keep)
      <4>1. Or(r.dto.category, row.category) \in CategoryIds
            /\ (r.dto.category # Keep => Or(r.dto.category, row.category) = r.dto.category)
        BY <1>2, <2>1 DEF Or
      <4>2. Or(new, None) \in CategoryIds \cup {None}
            /\ (r.dto.sub \notin {Keep, None} => Or(new, None) = r.dto.sub)
        BY <2>2 DEF Or
      <4> DEFINE c == Or(r.dto.category, row.category)
                 d == Or(new, None)
      <4>3. /\ PairChecks(c, d) \in Seq(Question)
            /\ Asks(PairChecks(c, d), "top", c)
            /\ d # None => Asks(PairChecks(c, d), "sub", d)
            /\ \A q \in ToSet(PairChecks(c, d)) :
                  q.what \notin {"item", "variant"} /\ (q.what = "sub" => q.of = c)
        <5>1. c \in CategoryIds /\ d \in CategoryIds \cup {None}
          BY <4>1, <4>2
        <5> HIDE DEF c, d
        <5> QED BY <5>1, PairAsks DEF Asks
      <4>4. pair = PairChecks(c, d)
        BY <3>2
      <4> HIDE DEF pair
      <4>5. CategoryOf(r, row) = c
        BY DEF CategoryOf
      <4> QED BY <4>1, <4>2, <4>3, <4>4, <4>5
    <3> QED BY <3>1, <3>2
  <2>4. /\ free \in Seq(Question) /\ \A q \in ToSet(free) : q.what \notin {"sub", "item", "variant"}
        /\ ChangesStatus(r.dto, row) => Asks(free, "item free", r.id)
    <3>1. CASE ChangesStatus(r.dto, row)
      <4> DEFINE s == <<Ask("item free", r.id)>>
      <4>1. /\ s \in Seq(Question) /\ \A q \in ToSet(s) : q.what \notin {"sub", "item", "variant"}
            /\ Asks(s, "item free", r.id)
        BY <1>1, <1>5, OneAsk DEF Asks
      <4> QED BY <3>1, <4>1
    <3>2. CASE ~ChangesStatus(r.dto, row)
      BY <3>2, SetOfNone
    <3> QED BY <3>1, <3>2
  <2>5. ChecksOf(r, row) = (pair \o country) \o free
    BY <1>5 DEF ChecksOf
  <2> HIDE DEF pair, free, country
  <2>6. /\ pair \o country \in Seq(Question)
        /\ \A q : q \in ToSet(pair \o country) <=> q \in ToSet(pair) \/ q \in ToSet(country)
    BY <1>3, <2>3, Joined DEF country
  <2>7. /\ ChecksOf(r, row) \in Seq(Question)
        /\ \A q : q \in ToSet(ChecksOf(r, row)) <=> q \in ToSet(pair \o country) \/ q \in ToSet(free)
    BY <2>4, <2>5, <2>6, Joined
  <2>8. \A q \in ToSet(country) : q.what \notin {"sub", "item", "variant"}
    BY <1>3 DEF country
  <2>9. CategoryOf(r, row) \in CategoryIds
    BY <1>2, <2>1 DEF CategoryOf, Or
  <2> QED BY <1>5, <2>3, <2>4, <2>6, <2>7, <2>8, <2>9 DEF AsksAll, Asks
<1> QED BY <1>4, <1>5

LEMMA AsksOfListing ==
    ASSUME NEW r, Sound(r), NEW row, Fits(r.kind, row), Seller(r, row) \in Sellers,
           r.kind \in {"create listing", "update listing"}
    PROVE  AsksAll(r, row, ChecksOf(r, row))
<1>1. /\ r.dto.item \in {Keep} \cup ItemIds /\ r.dto.variant \in {Keep} \cup Variants
      /\ r.dto.seller \in {Keep} \cup Sellers
      /\ r.user \in Sellers \cup {Super}
  BY DEF Sound, Request, Dto
<1> DEFINE seller == Seller(r, row)
           item == [Ask("item", r.dto.item) EXCEPT !.of = seller]
<1>2. seller \in Sellers
  OBVIOUS
<1>3. r.dto.item # Keep => item \in Question /\ item.what = "item" /\ item.id = r.dto.item /\ item.of = seller
  <2> HIDE DEF seller
  <2> QED BY <1>1, <1>2 DEF Ask, Question
<1>4. r.dto.item # Keep => <<item>> \in Seq(Question) /\ ToSet(<<item>>) = {item}
  BY <1>3, SetOfOne
<1>5. CASE r.kind = "create listing"
  <2> DEFINE rest == ListingChecks(SellerOf(r), r.dto.item, r.dto.variant, None)
  <2>1. r.dto.item \in ItemIds /\ r.dto.variant \in Variants /\ r.dto.item # Keep /\ SellerOf(r) = seller
    BY <1>1, <1>5, NoneAssumption DEF Sound, Seller
  <2>2. /\ rest \in Seq(Question) /\ Asks(rest, "variant", r.dto.item)
        /\ \A q \in ToSet(rest) : /\ q.what = "variant" /\ q.of = seller
                                  /\ q.variant = r.dto.variant /\ q.except = None
    <3> DEFINE it == r.dto.item
               va == r.dto.variant
    <3>1. rest = ListingChecks(seller, it, va, None)
      BY <2>1
    <3>2. seller \in Sellers /\ it \in ItemIds /\ va \in Variants /\ None \in {None} \cup ListingIds
      BY <1>2, <2>1
    <3> HIDE DEF seller, rest, it, va
    <3>3. VariantAsked(rest, seller, it, va, None)
      BY <3>1, <3>2, ListingAsks
    <3> QED BY <3>3 DEF VariantAsked, it, va
  <2>3. ChecksOf(r, row) = <<item>> \o rest
    BY <1>5, <2>1 DEF ChecksOf
  <2> HIDE DEF item, rest, seller
  <2>4. ChecksOf(r, row) \in Seq(Question)
        /\ \A q : q \in ToSet(ChecksOf(r, row)) <=> q \in ToSet(<<item>>) \/ q \in ToSet(rest)
    <3>1. <<item>> \in Seq(Question) /\ rest \in Seq(Question)
      BY <1>4, <2>1, <2>2
    <3> QED BY <2>3, <3>1, Joined, Zenon
  <2>5. \A q : q \in ToSet(<<item>>) <=> q = item
    BY <1>4, <2>1
  <2>6. ItemOf(r, row) = r.dto.item /\ VariantOf(r, row) = r.dto.variant /\ Except(r) = None
    BY <1>5, <2>1, NoneAssumption DEF ItemOf, VariantOf, Except, Or
  <2>7. Asks(ChecksOf(r, row), "item", r.dto.item) /\ Asks(ChecksOf(r, row), "variant", ItemOf(r, row))
    BY <1>3, <2>1, <2>2, <2>4, <2>5, <2>6 DEF Asks
  <2>8. \A q \in ToSet(ChecksOf(r, row)) :
           /\ q.what # "sub" /\ q.of = seller
           /\ q.what = "variant" => q.variant = VariantOf(r, row) /\ q.except = Except(r)
    BY <1>3, <2>1, <2>2, <2>4, <2>5, <2>6
  <2> QED BY <1>2, <1>5, <2>4, <2>7, <2>8 DEF AsksAll, seller
<1>6. CASE r.kind = "update listing"
  <2> DEFINE first == IF r.dto.item = Keep THEN <<>> ELSE <<item>>
             rest == ListingChecks(row.seller, Or(r.dto.item, row.item), Or(r.dto.variant, row.variant), r.id)
  <2>1. row.seller = seller /\ row.item \in ItemIds /\ row.variant \in Variants /\ r.id \in ListingIds
    BY <1>6 DEF Fits, Listing, Seller, Sound
  <2>2. Or(r.dto.item, row.item) \in ItemIds /\ Or(r.dto.variant, row.variant) \in Variants
    BY <1>1, <2>1 DEF Or
  <2>3. /\ rest \in Seq(Question) /\ Asks(rest, "variant", ItemOf(r, row))
        /\ \A q \in ToSet(rest) : /\ q.what = "variant" /\ q.of = seller
                                  /\ q.variant = VariantOf(r, row) /\ q.except = Except(r)
    <3>1. rest = ListingChecks(seller, ItemOf(r, row), VariantOf(r, row), r.id) /\ Except(r) = r.id
      BY <1>6, <2>1 DEF ItemOf, VariantOf, Except
    <3>2. ItemOf(r, row) \in ItemIds /\ VariantOf(r, row) \in Variants
      BY <2>2 DEF ItemOf, VariantOf
    <3>3. seller \in Sellers /\ Except(r) \in {None} \cup ListingIds
      BY <1>2, <2>1, <3>1
    <3>4. rest = ListingChecks(seller, ItemOf(r, row), VariantOf(r, row), Except(r))
      BY <3>1
    <3> DEFINE it == ItemOf(r, row)
               va == VariantOf(r, row)
               ex == Except(r)
    <3>5. it \in ItemIds /\ va \in Variants /\ ex \in {None} \cup ListingIds
      BY <3>2, <3>3
    <3> HIDE DEF seller, rest, it, va, ex
    <3>6. rest = ListingChecks(seller, it, va, ex)
      BY <3>4 DEF it, va, ex
    <3>7. VariantAsked(rest, seller, it, va, ex)
      BY <3>3, <3>5, <3>6, ListingAsks
    <3> QED BY <3>7 DEF VariantAsked, it, va, ex
  <2>4. first \in Seq(Question) /\ \A q : q \in ToSet(first) <=> r.dto.item # Keep /\ q = item
    <3> HIDE DEF item
    <3>1. CASE r.dto.item = Keep
      BY <3>1, SetOfNone
    <3>2. CASE r.dto.item # Keep
      BY <3>2, <1>4
    <3> QED BY <3>1, <3>2
  <2>5. ChecksOf(r, row) = first \o rest
    BY <1>6, <2>1 DEF ChecksOf
  <2> HIDE DEF item, rest, seller, first
  <2>6. ChecksOf(r, row) \in Seq(Question)
        /\ \A q : q \in ToSet(ChecksOf(r, row)) <=> q \in ToSet(first) \/ q \in ToSet(rest)
    BY <2>3, <2>4, <2>5, Joined
  <2>7. /\ r.dto.item # Keep => Asks(ChecksOf(r, row), "item", r.dto.item)
        /\ Asks(ChecksOf(r, row), "variant", ItemOf(r, row))
    BY <1>3, <2>3, <2>4, <2>6 DEF Asks
  <2>8. \A q \in ToSet(ChecksOf(r, row)) :
           /\ q.what # "sub" /\ q.of = seller
           /\ q.what = "variant" => q.variant = VariantOf(r, row) /\ q.except = Except(r)
    BY <1>3, <2>3, <2>4, <2>6
  <2> QED BY <1>2, <1>6, <2>6, <2>7, <2>8 DEF AsksAll, seller
<1> QED BY <1>5, <1>6

LEMMA AsksOfOthers ==
    ASSUME NEW r, Sound(r), NEW row, Fits(r.kind, row),
           r.kind \in {"remove listing", "create country", "update country", "remove country"}
    PROVE  AsksAll(r, row, ChecksOf(r, row))
<1>1. CASE r.kind = "remove country"
  <2>1. ChecksOf(r, row) = <<Ask("country free", r.id)>> /\ r.id \in CountryIds
    BY <1>1 DEF ChecksOf, Sound
  <2> DEFINE s == <<Ask("country free", r.id)>>
  <2>2. s \in Seq(Question) /\ \A q \in ToSet(s) : q.what \notin {"sub", "item", "variant"}
    BY <2>1, OneAsk
  <2> HIDE DEF s
  <2> QED BY <1>1, <2>1, <2>2 DEF AsksAll, s
<1>2. CASE r.kind # "remove country"
  <2>1. ChecksOf(r, row) = <<>>
    BY <1>2 DEF ChecksOf
  <2> QED BY <1>2, <2>1, SetOfNone DEF AsksAll
<1> QED BY <1>1, <1>2

LEMMA AsksWhatItMust ==
    ASSUME NEW r, Sound(r), r.kind # "none", NEW row, Fits(r.kind, row),
           r.kind \in {"create listing", "update listing"} => Seller(r, row) \in Sellers
    PROVE  AsksAll(r, row, ChecksOf(r, row))
<1>1. r.kind \in Kinds
  BY DEF Sound, Request
<1>2. CASE r.kind \in {"create category", "update category", "category status"}
  BY <1>2, AsksOfCategory
<1>3. CASE r.kind \in {"create item", "update item"}
  BY <1>3, AsksOfItem
<1>4. CASE r.kind \in {"create listing", "update listing"}
  BY <1>4, AsksOfListing
<1>5. CASE r.kind \in {"remove listing", "create country", "update country", "remove country"}
  BY <1>5, AsksOfOthers
<1> QED BY <1>1, <1>2, <1>3, <1>4, <1>5 DEF Kinds, Creates

-----------------------------------------------------------------------------
(* The rows that a step leaves *)

\* Parents, owners and sellers of rows are for good; so is that a listing is gone.
RowsStay ==
    /\ \A c \in In(categories) : c \in In(categories') /\ categories'[c].parent = categories[c].parent
    /\ \A i \in In(items) : i \in In(items') /\ items'[i].owner = items[i].owner
    /\ \A l \in ListingIds :
          /\ listings[l] = Gone => listings'[l] = Gone
          /\ listings[l] # None => listings'[l] # None
          /\ l \in In(listings) => listings'[l] = Gone \/ (l \in In(listings') /\ listings'[l].seller = listings[l].seller)

LEMMA TablesStay ==
    ASSUME UNCHANGED tables
    PROVE  RowsStay
BY DEF tables, RowsStay, In

LEMMA FoundLasts ==
    ASSUME RowsStay, TypeOK, NEW r, Sound(r),
           FoundOfTree(r, categories, items), FoundOfListings(r, items, listings)
    PROVE  FoundOfTree(r, categories', items') /\ FoundOfListings(r, items', listings')
<1>1. \A c : /\ IsTile(categories, c) => IsTile(categories', c)
             /\ IsBranch(categories, c) => IsBranch(categories', c)
  BY DEF RowsStay, IsTile, IsBranch
<1>2. \A s, i : MaySell(items, s, i) => MaySell(items', s, i)
  BY DEF RowsStay, MaySell
<1>3. FoundOfTree(r, categories', items')
  BY <1>1 DEF FoundOfTree, RowsStay
<1>4. FoundOfListings(r, items', listings')
  <2>1. r.kind \in {"update listing", "remove listing"} => r.id \in ListingIds
    BY DEF Sound
  <2>2. ASSUME r.kind = "update listing"
        PROVE  listings'[r.id] = Gone \/ (r.id \in In(listings') /\ listings'[r.id].seller = For(r))
    BY <2>1, <2>2 DEF FoundOfListings, RowsStay
  <2>3. r.kind = "remove listing" => listings'[r.id] # None
    BY <2>1 DEF FoundOfListings, RowsStay
  <2> QED BY <1>2, <2>2, <2>3 DEF FoundOfListings
<1> QED BY <1>3, <1>4

-----------------------------------------------------------------------------
(* A step of one handler *)

Requests == RequestsInPlace /\ RequestsFound

Moves(h, label, r) ==
    /\ label \in Label /\ InPlace(label, r)
    /\ label = "check" => FoundOfTree(r, categories', items') /\ FoundOfListings(r, items', listings')
    /\ pc' = [pc EXCEPT ![h] = label]
    /\ req' = [req EXCEPT ![h] = r]

LEMMA NothingInHand == InPlace("idle", NoReq)
<1>1. NoDto \in Dto
  BY DEF NoDto, Dto
<1>2. <<>> \in Seq(Question)
  BY SetOfNone
<1>3. NoReq \in Request
  BY <1>1, <1>2 DEF NoReq, Request
<1> QED BY <1>3 DEF InPlace, Sound, NoReq

LEMMA DoneMoves ==
    ASSUME NEW h \in Handlers, Done(h)
    PROVE  Moves(h, "idle", NoReq)
BY NothingInHand DEF Done, Moves, Label

LEMMA MovedRequests ==
    ASSUME TypeOK, Requests, RowsStay, NEW h \in Handlers, NEW label, NEW r, Moves(h, label, r)
    PROVE  Requests' /\ pc' \in [Handlers -> Label] /\ req' \in [Handlers -> Request]
<1>1. r \in Request
  BY DEF Moves, InPlace, Sound
<1>2. /\ pc' \in [Handlers -> Label] /\ req' \in [Handlers -> Request]
      /\ pc'[h] = label /\ req'[h] = r
      /\ \A o \in Handlers \ {h} : pc'[o] = pc[o] /\ req'[o] = req[o]
  BY <1>1 DEF Moves, TypeOK
<1>3. \A o \in Handlers : InPlace(pc'[o], req'[o])
  BY <1>2 DEF Moves, Requests, RequestsInPlace
<1>4. ASSUME NEW o \in Handlers, pc'[o] = "check"
      PROVE  FoundOfTree(req'[o], categories', items') /\ FoundOfListings(req'[o], items', listings')
  <2>1. CASE o = h
    BY <1>2, <1>4, <2>1 DEF Moves
  <2>2. CASE o # h
    <3>1. /\ pc[o] = "check" /\ req'[o] = req[o] /\ Sound(req[o])
          /\ FoundOfTree(req[o], categories, items) /\ FoundOfListings(req[o], items, listings)
      BY <1>2, <1>4, <2>2 DEF Requests, RequestsInPlace, RequestsFound, InPlace
    <3> QED BY <3>1, FoundLasts
  <2> QED BY <2>1, <2>2
<1> QED BY <1>2, <1>3, <1>4 DEF Requests, RequestsInPlace, RequestsFound

LEMMA ArriveMoves ==
    ASSUME TypeOK, NEW h \in Handlers, NEW r \in mix, Arrive(h, r)
    PROVE  Moves(h, "read", r)
<1>1. Sound(r) /\ r.kind # "none"
  BY MixesAssumption DEF TypeOK
<1> QED BY <1>1 DEF Arrive, Moves, Go, InPlace, Label

LEMMA ReadMoves ==
    ASSUME TypeOK, TwoLevels(categories), Requests, NEW h \in Handlers, Read(h)
    PROVE  \E label \in Label : \E r : Moves(h, label, r)
<1> DEFINE r == req[h]
           row == RowOf(r)
           s == ChecksOf(r, row)
           q == [r EXCEPT !.row = row, !.checks = s]
<1>1. Sound(r) /\ r.kind # "none" /\ r \in Request /\ pc[h] = "read"
  BY DEF Read, Requests, RequestsInPlace, InPlace, Sound
<1>2. CASE Done(h)
  BY <1>2, DoneMoves DEF Label
<1>3. CASE /\ ~((r.kind \notin Creates /\ row \in {None, Gone}) \/ ~Allowed(r, row))
           /\ req' = [req EXCEPT ![h].row = row, ![h].checks = s]
           /\ Go(h, "check")
           /\ UNCHANGED tables
  <2>1. Allowed(r, row) /\ (r.kind \notin Creates => row \notin {None, Gone})
    BY <1>3
  <2>2. /\ r.kind \in {"update category", "category status"} =>
              row = categories[r.id] /\ row \in Category /\ r.id \in In(categories)
        /\ r.kind = "update item" => row = items[r.id] /\ row \in Item /\ r.id \in In(items)
        /\ r.kind \in {"update listing", "remove listing"} =>
              row = listings[r.id] /\ row \in Listing /\ r.id \in In(listings)
    <3>1. CASE r.kind \in {"update category", "category status"}
      <4>1. row = categories[r.id] /\ r.id \in CategoryIds /\ row \notin {None, Gone}
        BY <1>1, <2>1, <3>1 DEF RowOf, Creates, TableOf, Sound
      <4> QED BY <3>1, <4>1 DEF TypeOK, In
    <3>2. CASE r.kind = "update item"
      <4>1. row = items[r.id] /\ r.id \in ItemIds /\ row \notin {None, Gone}
        BY <1>1, <2>1, <3>2 DEF RowOf, Creates, TableOf, Sound
      <4> QED BY <3>2, <4>1 DEF TypeOK, In
    <3>3. CASE r.kind \in {"update listing", "remove listing"}
      <4>1. row = listings[r.id] /\ r.id \in ListingIds /\ row \notin {None, Gone}
        BY <1>1, <2>1, <3>3 DEF RowOf, Creates, TableOf, Sound
      <4> QED BY <3>3, <4>1 DEF TypeOK, In
    <3> QED BY <3>1, <3>2, <3>3
  <2>3. r.kind \in {"update country", "remove country"} => row \in CountryIds
    <3>1. ASSUME r.kind \in {"update country", "remove country"} PROVE row \in CountryIds
      <4>1. row = (IF r.id \in countries THEN r.id ELSE None) /\ row # None
        BY <1>1, <2>1, <3>1 DEF RowOf, Creates, TableOf, Sound
      <4> QED BY <4>1 DEF TypeOK
    <3> QED BY <3>1
  <2>4. row \in {None} \cup Category \cup Item \cup Listing \cup CountryIds
    BY <1>1, <2>2, <2>3 DEF Request, Kinds, Creates, RowOf
  <2>5. AsksAll(r, row, s)
    <3>1. CASE r.kind = "create listing"
      <4>1. r.user = Super => r.dto.seller # Keep
        BY <2>1, <3>1 DEF Allowed
      <4>2. r.user \in Sellers \cup {Super} /\ r.dto.seller \in {Keep} \cup Sellers
        BY <1>1 DEF Sound, Request, Dto
      <4>3. Seller(r, row) \in Sellers
        BY <3>1, <4>1, <4>2 DEF Seller, SellerOf
      <4> QED BY <1>1, <3>1, <4>3, AsksWhatItMust DEF Fits
    <3>2. CASE r.kind = "update listing"
      <4>1. Seller(r, row) \in Sellers
        BY <2>2, <3>2 DEF Seller, Listing
      <4> QED BY <1>1, <2>2, <3>2, <4>1, AsksWhatItMust DEF Fits
    <3>3. CASE r.kind \notin {"create listing", "update listing"}
      BY <1>1, <2>2, <3>3, AsksWhatItMust DEF Fits
    <3> QED BY <3>1, <3>2, <3>3
  <2> HIDE DEF row, s
  <2>6. s \in Seq(Question)
    BY <2>5 DEF AsksAll
  <2>7. /\ q.kind = r.kind /\ q.user = r.user /\ q.id = r.id /\ q.dto = r.dto
        /\ q.row = row /\ q.checks = s
    BY <1>1 DEF Request
  <2>8. q \in Request
    BY <1>1, <2>4, <2>6 DEF Request
  <2> HIDE DEF q
  <2>9. Sound(q)
    BY <1>1, <2>7, <2>8 DEF Sound
  <2>10. For(q) = Seller(r, row)
    BY <2>7 DEF For, Seller, SellerOf
  <2>11. AsksRight(q)
    BY <2>5, <2>7, <2>10 DEF AsksRight, AsksAll
  <2>12. FoundOfTree(q, categories, items)
    <3>1. CASE r.kind = "create category"
      <4>1. IF r.dto.parent = Keep THEN r.user = Super ELSE r.dto.code \in {Keep, None}
        BY <2>1, <3>1 DEF Allowed
      <4>2. r.dto.parent # Keep => StillAsks(q, "parent", r.dto.parent)
        BY <2>5, <2>7, <3>1 DEF AsksAll, Asks, StillAsks
      <4> QED BY <2>7, <3>1, <4>1, <4>2 DEF FoundOfTree
    <3>2. CASE r.kind \in {"update category", "category status"}
      <4>1. r.dto.code # Keep => categories[r.id].parent = None
        BY <1>1, <2>1, <2>2, <3>2 DEF Allowed, Sound
      <4> QED BY <2>2, <2>7, <3>2, <4>1 DEF FoundOfTree, IsTile
    <3>3. CASE r.kind \in {"create item", "update item"}
      <4>1. /\ r.dto.category # Keep => StillAsks(q, "top", r.dto.category)
            /\ r.dto.sub \notin {Keep, None} => StillAsks(q, "sub", r.dto.sub)
        BY <2>5, <2>7, <3>3 DEF AsksAll, Asks, StillAsks
      <4> QED BY <2>2, <2>7, <3>3, <4>1 DEF FoundOfTree
    <3>4. CASE r.kind \notin {"create category", "update category", "category status",
                              "create item", "update item"}
      BY <2>7, <3>4 DEF FoundOfTree
    <3> QED BY <3>1, <3>2, <3>3, <3>4
  <2>13. FoundOfListings(q, items, listings)
    <3>1. r.kind \in {"create listing", "update listing"} =>
             /\ For(q) \in Sellers
             /\ r.dto.item # Keep => StillAsks(q, "item", r.dto.item)
      BY <2>5, <2>7, <2>10 DEF AsksAll, Asks, StillAsks
    <3>2. r.kind = "update listing" => For(q) = listings[r.id].seller
      BY <2>2, <2>10 DEF Seller
    <3>3. r.kind = "remove listing" => listings[r.id] # None
      BY <2>2 DEF In
    <3> QED BY <2>2, <2>7, <3>1, <3>2, <3>3 DEF FoundOfListings
  <2>14. Moves(h, "check", q)
    <3>1. InPlace("check", q)
      BY <1>1, <2>7, <2>9, <2>11 DEF InPlace
    <3>2. pc' = [pc EXCEPT ![h] = "check"]
      BY <1>3 DEF Go
    <3>3. req' = [req EXCEPT ![h] = q]
      BY <1>3 DEF q
    <3>4. categories' = categories /\ items' = items /\ listings' = listings
      BY <1>3 DEF tables
    <3> QED BY <2>12, <2>13, <3>1, <3>2, <3>3, <3>4 DEF Moves, Label
  <2> QED BY <2>14 DEF Label
<1> QED BY <1>2, <1>3 DEF Read

\* What an answer leaves.
LEMMA Answered ==
    ASSUME TypeOK, TwoLevels(categories), NEW q \in Question, NEW user, Holds(q, user)
    PROVE  /\ q.what \in {"parent", "top"} => IsTile(categories, q.id)
           /\ q.what = "sub" /\ q.of \in CategoryIds => IsBranch(categories, q.id)
           /\ q.what = "item" => MaySell(items, q.of, q.id)
<1>1. ASSUME q.what = "parent" PROVE IsTile(categories, q.id)
  <2>1. q.id \in In(categories) /\ Depth(q.id) < MaxDepth
    BY <1>1 DEF Holds, Usable, Approved
  <2> QED BY <2>1, DepthOne DEF IsTile
<1>2. ASSUME q.what = "top" PROVE IsTile(categories, q.id)
  BY <1>2 DEF Holds, Usable, Approved, IsTile
<1>3. ASSUME q.what = "sub", q.of \in CategoryIds PROVE IsBranch(categories, q.id)
  BY <1>3, NoneAssumption DEF Holds, Usable, Approved, IsBranch
<1>4. ASSUME q.what = "item" PROVE MaySell(items, q.of, q.id)
  BY <1>4 DEF Holds, ItemUsable, MaySell
<1> QED BY <1>1, <1>2, <1>3, <1>4

LEMMA CheckMoves ==
    ASSUME TypeOK, TwoLevels(categories), Requests, NEW h \in Handlers, Check(h)
    PROVE  \E label \in Label : \E r : Moves(h, label, r)
<1> DEFINE r == req[h]
           hd == Head(r.checks)
           q == [r EXCEPT !.checks = Tail(r.checks)]
<1>1. /\ Sound(r) /\ r.kind # "none" /\ r \in Request /\ pc[h] = "check" /\ AsksRight(r)
      /\ FoundOfTree(r, categories, items) /\ FoundOfListings(r, items, listings)
      /\ r.checks \in Seq(Question) /\ r.checks # <<>>
  BY DEF Check, Requests, RequestsInPlace, RequestsFound, InPlace, Sound, Request
<1>2. CASE Done(h)
  BY <1>2, DoneMoves DEF Label
<1>3. CASE Holds(hd, r.user) /\ req' = [req EXCEPT ![h].checks = Tail(@)] /\ UNCHANGED pc /\ UNCHANGED tables
  <2>1. /\ hd \in Question /\ hd \in ToSet(r.checks) /\ Tail(r.checks) \in Seq(Question)
        /\ \A x \in ToSet(r.checks) : x = hd \/ x \in ToSet(Tail(r.checks))
        /\ \A x \in ToSet(Tail(r.checks)) : x \in ToSet(r.checks)
    <3>1. /\ hd \in Question /\ Tail(r.checks) \in Seq(Question)
          /\ \A x \in ToSet(r.checks) : x = hd \/ x \in ToSet(Tail(r.checks))
          /\ \A x \in ToSet(Tail(r.checks)) : x \in ToSet(r.checks)
      BY <1>1, SetOfTail
    <3>2. hd \in ToSet(r.checks)
      BY <1>1 DEF ToSet
    <3> QED BY <3>1, <3>2
  <2>2. /\ q.kind = r.kind /\ q.user = r.user /\ q.id = r.id /\ q.dto = r.dto
        /\ q.row = r.row /\ q.checks = Tail(r.checks) /\ q \in Request
    BY <1>1, <2>1 DEF Request
  <2>3. /\ hd.what \in {"parent", "top"} => IsTile(categories, hd.id)
        /\ hd.what = "sub" => IsBranch(categories, hd.id)
        /\ hd.what = "item" => MaySell(items, For(r), hd.id)
    <3> HIDE DEF hd
    <3>1. (hd.what = "sub" => hd.of \in CategoryIds) /\ (hd.what = "item" => hd.of = For(r))
      BY <1>1, <2>1 DEF AsksRight
    <3>2. /\ hd.what \in {"parent", "top"} => IsTile(categories, hd.id)
          /\ hd.what = "sub" /\ hd.of \in CategoryIds => IsBranch(categories, hd.id)
          /\ hd.what = "item" => MaySell(items, hd.of, hd.id)
      BY <1>3, <2>1, Answered
    <3> QED BY <3>1, <3>2
  <2> HIDE DEF q, hd
  <2>4. \A what, id : StillAsks(r, what, id) => (hd.what = what /\ hd.id = id) \/ StillAsks(q, what, id)
    BY <2>1, <2>2 DEF StillAsks
  <2>5. For(q) = For(r)
    BY <2>2 DEF For, SellerOf
  <2>6. Sound(q) /\ AsksRight(q)
    <3>1. Sound(q)
      BY <1>1, <2>2 DEF Sound
    <3>2. AsksRight(q)
      BY <1>1, <2>1, <2>2, <2>5 DEF AsksRight
    <3> QED BY <3>1, <3>2
  <2>7. FoundOfTree(q, categories, items)
    BY <1>1, <2>2, <2>3, <2>4 DEF FoundOfTree
  <2>8. FoundOfListings(q, items, listings)
    BY <1>1, <2>2, <2>3, <2>4, <2>5 DEF FoundOfListings
  <2>9. Moves(h, "check", q)
    <3>1. InPlace("check", q)
      BY <1>1, <2>2, <2>6 DEF InPlace
    <3>2. pc' = [pc EXCEPT ![h] = "check"]
      BY <1>1, <1>3 DEF TypeOK
    <3>3. req' = [req EXCEPT ![h] = q]
      BY <1>3 DEF q
    <3>4. categories' = categories /\ items' = items /\ listings' = listings
      BY <1>3 DEF tables
    <3> QED BY <2>7, <2>8, <3>1, <3>2, <3>3, <3>4 DEF Moves, Label
  <2> QED BY <2>9 DEF Label
<1> QED BY <1>2, <1>3 DEF Check

-----------------------------------------------------------------------------
(* Writes *)

\* A request that has nothing more to ask knows what it needs.
Knows(r) ==
    /\ Sound(r) /\ r.kind # "none"
    /\ r.kind = "create category" =>
          IF r.dto.parent = Keep THEN r.user = Super
          ELSE r.dto.code \in {Keep, None} /\ IsTile(categories, r.dto.parent)
    /\ r.kind \in {"update category", "category status"} =>
          r.id \in In(categories) /\ (r.dto.code # Keep => IsTile(categories, r.id))
    /\ r.kind \in {"create item", "update item"} =>
          /\ r.dto.category # Keep => IsTile(categories, r.dto.category)
          /\ r.dto.sub \notin {Keep, None} => IsBranch(categories, r.dto.sub)
          /\ r.kind = "update item" => r.id \in In(items)
    /\ r.kind \in {"create listing", "update listing"} =>
          /\ For(r) \in Sellers
          /\ r.dto.item # Keep => MaySell(items, For(r), r.dto.item)
    /\ r.kind = "update listing" =>
          listings[r.id] = Gone \/ (r.id \in In(listings) /\ listings[r.id].seller = For(r))
    /\ r.kind = "remove listing" => listings[r.id] # None

LEMMA NothingMoreToAsk ==
    ASSUME Requests, NEW h \in Handlers, pc[h] = "check", req[h].checks = <<>>
    PROVE  Knows(req[h])
<1>1. /\ Sound(req[h]) /\ req[h].kind # "none"
      /\ FoundOfTree(req[h], categories, items) /\ FoundOfListings(req[h], items, listings)
  BY DEF Requests, RequestsInPlace, RequestsFound, InPlace
<1>2. \A what, id : ~StillAsks(req[h], what, id)
  BY EmptySet DEF StillAsks
<1> QED BY <1>1, <1>2 DEF FoundOfTree, FoundOfListings, Knows

Owners == Sellers \cup {None}

LEMMA UserTyped ==
    ASSUME NEW user \in Sellers \cup {Super}
    PROVE  Owner(user) \in Owners /\ FirstStatus(user) \in Statuses /\ (user = Super => Owner(user) = None)
BY DEF Owner, FirstStatus, Owners, Statuses

LEMMA CategoryWritten ==
    ASSUME TypeOK, TwoLevels(categories), NEW r, Knows(r), WriteCategory(r),
           r.kind \in {"create category", "update category", "category status"}
    PROVE  /\ categories' \in [CategoryIds -> Category \cup {None}] /\ TwoLevels(categories')
           /\ \A c \in In(categories) : c \in In(categories') /\ categories'[c].parent = categories[c].parent
<1> DEFINE d == r.dto
           code == Or(d.code, None)
<1>1. /\ d.parent \in {Keep} \cup CategoryIds /\ d.code \in {Keep, None} \cup Codes
      /\ d.status \in {Keep} \cup Statuses /\ r.user \in Sellers \cup {Super}
      /\ (r.kind = "category status" => d.code = Keep)
  BY DEF Knows, Sound, Request, Dto
<1>2. code \in Codes \cup {None}
  BY <1>1 DEF Or
<1>3. categories \in [CategoryIds -> Category \cup {None}] /\ In(categories) \subseteq CategoryIds
      /\ (\A c \in CategoryIds : categories[c] \in Category => c \in In(categories))
      /\ (\A c \in In(categories) : categories[c] \in Category)
  BY NoneAssumption DEF TypeOK, In
<1>4. \A c \in CategoryIds : c \in In(categories) <=> categories[c] # None
  BY <1>3, NoneAssumption DEF In
<1>5. /\ \A a, b \in In(categories) :
             categories[a].code = categories[b].code /\ categories[a].code # None => a = b
      /\ \A a \in In(categories) : categories[a].parent = None => categories[a].owner = None
      /\ \A a \in In(categories) : categories[a].parent # None =>
             IsTile(categories, categories[a].parent) /\ categories[a].code = None
  BY DEF TwoLevels, IsTile
<1>6. CASE r.kind = "create category"
  <2> DEFINE row == [parent |-> Or(d.parent, None), code |-> code,
                     owner |-> Owner(r.user), status |-> FirstStatus(r.user)]
  <2>1. PICK c \in NewRows(categories) : CodeFree(code, None) /\ categories' = [categories EXCEPT ![c] = row]
    BY <1>6 DEF WriteCategory
  <2>2. c \in CategoryIds /\ c \notin In(categories)
    BY <1>3, <2>1 DEF NewRows, In
  <2>3. Or(d.parent, None) \in CategoryIds \cup {None}
    BY <1>1 DEF Or
  <2>4. row \in Category /\ row.parent = Or(d.parent, None) /\ row.code = code /\ row.owner = Owner(r.user)
    BY <1>1, <1>2, <2>3, UserTyped DEF Category, Owners
  <2>5. /\ row.parent # None => IsTile(categories, row.parent) /\ row.code = None
        /\ row.parent = None => row.owner = None
    <3>1. CASE d.parent = Keep
      BY <1>1, <1>6, <2>4, <3>1, UserTyped DEF Knows, Or
    <3>2. CASE d.parent # Keep
      <4>1. IsTile(categories, d.parent) /\ code = None
        BY <1>6, <3>2 DEF Knows, Or
      <4>2. row.parent = d.parent /\ row.parent # None
        BY <1>1, <2>4, <3>2, NoneAssumption DEF Or
      <4> QED BY <2>4, <4>1, <4>2
    <3> QED BY <3>1, <3>2
  <2>6. row.code # None => \A e \in In(categories) : categories[e].code # row.code
    BY <1>3, <2>1, <2>4, NoneAssumption DEF CodeFree
  <2> HIDE DEF row
  <2>7. /\ categories' \in [CategoryIds -> Category \cup {None}] /\ categories'[c] = row
        /\ \A e \in CategoryIds \ {c} : categories'[e] = categories[e]
    BY <1>3, <2>1, <2>2, <2>4
  <2>8. /\ In(categories') \subseteq In(categories) \cup {c}
        /\ \A e \in In(categories) : e \in In(categories') /\ categories'[e] = categories[e]
    BY <1>3, <2>2, <2>7 DEF In
  <2>9. TwoLevels(categories')
    <3> SUFFICES ASSUME NEW a \in In(categories')
                 PROVE  /\ categories'[a].parent # None =>
                             IsTile(categories', categories'[a].parent) /\ categories'[a].code = None
                        /\ categories'[a].parent = None => categories'[a].owner = None
                        /\ \A b \in In(categories') :
                             categories'[a].code = categories'[b].code /\ categories'[a].code # None => a = b
      BY DEF TwoLevels, IsTile
    <3>1. \A t : IsTile(categories, t) => IsTile(categories', t)
      BY <2>8 DEF IsTile
    <3>2. CASE a = c
      BY <2>5, <2>6, <2>7, <2>8, <3>1, <3>2
    <3>3. CASE a \in In(categories) /\ a # c
      <4>1. categories'[a] = categories[a]
        BY <2>8, <3>3
      <4>2. ASSUME NEW b \in In(categories'),
                   categories'[a].code = categories'[b].code, categories'[a].code # None
            PROVE  a = b
        <5>1. CASE b = c
          BY <2>6, <2>7, <3>3, <4>1, <4>2, <5>1
        <5>2. CASE b \in In(categories)
          BY <1>5, <2>8, <3>3, <4>1, <4>2, <5>2
        <5> QED BY <2>8, <5>1, <5>2
      <4> QED BY <1>5, <3>1, <3>3, <4>1, <4>2
    <3> QED BY <2>8, <3>2, <3>3
  <2> QED BY <2>7, <2>8, <2>9
<1>7. CASE r.kind \in {"update category", "category status"}
  <2> DEFINE old == categories[r.id]
             row == [old EXCEPT !.status = Or(d.status, old.status), !.code = Or(d.code, old.code)]
  <2>1. r.id \in In(categories) /\ old \in Category /\ (d.code # Keep => old.parent = None)
    BY <1>3, <1>7 DEF Knows, IsTile
  <2>2. categories' = [categories EXCEPT ![r.id] = row] /\ CodeFree(code, r.id)
    BY <1>3, <1>7, <2>1 DEF WriteCategory
  <2>3. Or(d.status, old.status) \in Statuses /\ Or(d.code, old.code) \in Codes \cup {None}
    BY <1>1, <2>1 DEF Category, Or
  <2>4. /\ row \in Category /\ row.parent = old.parent /\ row.owner = old.owner
        /\ row.code = Or(d.code, old.code)
    BY <2>1, <2>3 DEF Category
  <2>5. d.code = Keep => row.code = old.code
    BY <2>4 DEF Or
  <2>6. d.code # Keep => row.parent = None
        /\ (row.code # None => \A e \in In(categories) \ {r.id} : categories[e].code # row.code)
    BY <2>1, <2>2, <2>4 DEF CodeFree, Or
  <2> HIDE DEF row
  <2>7. /\ categories' \in [CategoryIds -> Category \cup {None}] /\ categories'[r.id] = row
        /\ \A e \in CategoryIds \ {r.id} : categories'[e] = categories[e]
    BY <1>3, <2>1, <2>2, <2>4
  <2>8. In(categories') = In(categories)
    <3>1. row \notin {None, Gone}
      BY <2>4, NoneAssumption
    <3>2. \A e : e \in In(categories') <=> e \in In(categories)
      BY <1>3, <2>1, <2>7, <3>1 DEF In
    <3> QED BY <3>2
  <2>9. \A e \in In(categories) :
           categories'[e].parent = categories[e].parent /\ categories'[e].owner = categories[e].owner
    BY <1>3, <2>4, <2>7
  <2>10. TwoLevels(categories')
    <3> SUFFICES ASSUME NEW c \in In(categories)
                 PROVE  /\ categories'[c].parent # None =>
                             /\ categories'[c].parent \in In(categories)
                             /\ categories'[categories'[c].parent].parent = None
                             /\ categories'[c].code = None
                        /\ categories'[c].parent = None => categories'[c].owner = None
                        /\ \A e \in In(categories) :
                             categories'[c].code = categories'[e].code /\ categories'[c].code # None => c = e
      BY <2>8 DEF TwoLevels
    <3>1. categories'[c].parent # None => categories'[c].parent \in In(categories)
                                          /\ categories'[categories'[c].parent].parent = None
      BY <2>9 DEF TwoLevels
    <3>2. categories'[c].parent # None => categories'[c].code = None
      BY <1>3, <2>5, <2>6, <2>7, <2>9 DEF TwoLevels
    <3>3. categories'[c].parent = None => categories'[c].owner = None
      BY <2>9 DEF TwoLevels
    <3>4. ASSUME NEW e \in In(categories),
                 categories'[c].code = categories'[e].code, categories'[c].code # None
          PROVE  c = e
      <4>1. CASE d.code = Keep
        <5>1. \A a \in In(categories) : categories'[a].code = categories[a].code
          BY <1>3, <2>5, <2>7, <4>1
        <5> QED BY <1>5, <3>4, <5>1
      <4>2. CASE d.code # Keep
        <5>1. \A a \in In(categories) \ {r.id} : categories'[a].code = categories[a].code
          BY <1>3, <2>7
        <5>2. row.code # None => \A a \in In(categories) \ {r.id} : categories[a].code # row.code
          BY <2>6, <4>2
        <5>3. CASE c = r.id \/ e = r.id
          BY <2>7, <3>4, <5>1, <5>2, <5>3
        <5>4. CASE c # r.id /\ e # r.id
          BY <1>5, <3>4, <5>1, <5>4
        <5> QED BY <5>3, <5>4
      <4> QED BY <4>1, <4>2
    <3> QED BY <3>1, <3>2, <3>3, <3>4
  <2> QED BY <2>7, <2>8, <2>9, <2>10
<1> QED BY <1>6, <1>7

\* Items and listings stand on a tree whose rows stay.
LEMMA StillOnTheTree ==
    ASSUME TypeOK, OnTheTree(categories, items, countries),
           \A c \in In(categories) : c \in In(categories') /\ categories'[c].parent = categories[c].parent
    PROVE  OnTheTree(categories', items, countries)
BY DEF OnTheTree

LEMMA ItemWritten ==
    ASSUME TypeOK, OnTheTree(categories, items, countries), NEW r, Knows(r), WriteItem(r),
           r.kind \in {"create item", "update item"}
    PROVE  /\ items' \in [ItemIds -> Item \cup {None}]
           /\ OnTheTree(categories, items', countries)
           /\ \A i \in In(items) : i \in In(items') /\ items'[i].owner = items[i].owner
<1> DEFINE d == r.dto
           new == NewSub(d, r.row)
           country == Or(d.country, None)
<1>1. /\ d.category \in {Keep} \cup CategoryIds /\ d.sub \in {Keep, None} \cup CategoryIds
      /\ d.country \in {Keep, None} \cup CountryIds
      /\ d.status \in {Keep} \cup Statuses /\ r.user \in Sellers \cup {Super}
      /\ r.kind = "create item" => d.category # Keep
  BY DEF Knows, Sound, Request, Dto
<1>2. /\ d.category # Keep => d.category \in CategoryIds /\ IsTile(categories, d.category)
      /\ d.sub \notin {Keep, None} => d.sub \in CategoryIds /\ IsBranch(categories, d.sub)
      /\ d.sub = Keep => new \in {Keep, None}
      /\ d.sub # Keep => new = d.sub
  BY <1>1 DEF Knows, NewSub
<1>3. country \in countries \cup {None} /\ country \in CountryIds \cup {None}
  BY <1>1 DEF WriteItem, CountryKept, Or
<1>4. /\ items \in [ItemIds -> Item \cup {None}]
      /\ \A i \in ItemIds : i \in In(items) <=> items[i] # None
      /\ In(items) \subseteq ItemIds /\ \A i \in In(items) : items[i] \in Item
  BY NoneAssumption DEF TypeOK, In
<1>5. \A i \in In(items) : /\ IsTile(categories, items[i].category)
                           /\ items[i].sub # None => IsBranch(categories, items[i].sub)
                           /\ items[i].country \in countries \cup {None}
  BY DEF OnTheTree, IsTile, IsBranch
<1>6. CASE r.kind = "create item"
  <2> DEFINE sub == Or(d.sub, None)
             row == [category |-> d.category, sub |-> sub, country |-> country,
                     owner |-> Owner(r.user), status |-> FirstStatus(r.user)]
  <2>1. PICK i \in NewRows(items) : items' = [items EXCEPT ![i] = row]
    BY <1>6 DEF WriteItem
  <2>2. i \in ItemIds /\ i \notin In(items)
    BY <1>4, <2>1 DEF NewRows, In
  <2>3. sub \in CategoryIds \cup {None} /\ (sub # None => IsBranch(categories, sub))
    BY <1>1, <1>2 DEF Or
  <2>4. row \in Item /\ row.category = d.category /\ row.sub = sub /\ row.country = country
    <3> HIDE DEF sub, country
    <3> QED BY <1>1, <1>3, <1>6, <2>3, UserTyped DEF Item, Owners
  <2> HIDE DEF row, sub
  <2>5. /\ items' \in [ItemIds -> Item \cup {None}] /\ items'[i] = row
        /\ \A j \in ItemIds \ {i} : items'[j] = items[j]
    BY <1>4, <2>1, <2>2, <2>4
  <2>6. /\ In(items') \subseteq In(items) \cup {i}
        /\ \A j \in In(items) : j \in In(items') /\ items'[j] = items[j]
    BY <1>4, <2>2, <2>5 DEF In
  <2>7. /\ IsTile(categories, row.category) /\ (row.sub # None => IsBranch(categories, row.sub))
        /\ row.country \in countries \cup {None}
    BY <1>1, <1>2, <1>3, <1>6, <2>3, <2>4
  <2>8. OnTheTree(categories, items', countries)
    BY <1>5, <2>5, <2>6, <2>7 DEF OnTheTree, IsTile, IsBranch
  <2> QED BY <2>5, <2>6, <2>8
<1>7. CASE r.kind = "update item"
  <2> DEFINE old == items[r.id]
             row == [old EXCEPT !.category = Or(d.category, old.category), !.sub = Or(new, old.sub),
                                !.country = Or(d.country, old.country), !.status = Or(d.status, old.status)]
  <2>1. r.id \in In(items) /\ old \in Item
    BY <1>4, <1>7 DEF Knows
  <2>2. items' = [items EXCEPT ![r.id] = row]
    BY <1>4, <1>7, <2>1 DEF WriteItem
  <2>3. /\ Or(d.category, old.category) \in CategoryIds
        /\ IsTile(categories, Or(d.category, old.category))
    BY <1>1, <1>2, <1>5, <2>1 DEF Or, Item
  <2>4. /\ Or(new, old.sub) \in CategoryIds \cup {None}
        /\ Or(new, old.sub) # None => IsBranch(categories, Or(new, old.sub))
    <3> HIDE DEF new
    <3> QED BY <1>1, <1>2, <1>5, <2>1 DEF Or, Item
  <2>5. Or(d.country, old.country) \in CountryIds \cup {None}
        /\ Or(d.country, old.country) \in countries \cup {None}
    BY <1>1, <1>3, <1>5, <2>1 DEF Or, Item
  <2>6. Or(d.status, old.status) \in Statuses
    BY <1>1, <2>1 DEF Or, Item
  <2>7. /\ row \in Item /\ row.owner = old.owner
        /\ row.category = Or(d.category, old.category) /\ row.sub = Or(new, old.sub)
        /\ row.country = Or(d.country, old.country)
    <3> HIDE DEF new
    <3> QED BY <2>1, <2>3, <2>4, <2>5, <2>6 DEF Item
  <2> HIDE DEF row
  <2>8. /\ items' \in [ItemIds -> Item \cup {None}] /\ items'[r.id] = row
        /\ \A j \in ItemIds \ {r.id} : items'[j] = items[j]
    BY <1>4, <2>1, <2>2, <2>7
  <2>9. In(items') \subseteq In(items) /\ \A j \in In(items) : j \in In(items') /\ items'[j].owner = items[j].owner
    <3>1. row \notin {None, Gone}
      BY <2>7, NoneAssumption
    <3> QED BY <1>4, <2>1, <2>7, <2>8, <3>1 DEF In
  <2>10. OnTheTree(categories, items', countries)
    <3> HIDE DEF old, new
    <3>1. /\ IsTile(categories, row.category) /\ (row.sub # None => IsBranch(categories, row.sub))
          /\ row.country \in countries \cup {None}
      BY <2>3, <2>4, <2>5, <2>7
    <3> SUFFICES ASSUME NEW j \in In(items)
                 PROVE  /\ IsTile(categories, items'[j].category)
                        /\ items'[j].sub # None => IsBranch(categories, items'[j].sub)
                        /\ items'[j].country \in countries \cup {None}
      BY <2>9 DEF OnTheTree, IsTile, IsBranch
    <3>2. CASE j = r.id
      BY <2>8, <3>1, <3>2
    <3>3. CASE j # r.id
      BY <1>4, <1>5, <2>8, <3>3
    <3> QED BY <3>2, <3>3
  <2> QED BY <2>8, <2>9, <2>10
<1> QED BY <1>6, <1>7

LEMMA ListingWritten ==
    ASSUME TypeOK, OwnOrCommon(items, listings), NEW r, Knows(r), WriteListing(r),
           r.kind \in {"create listing", "update listing", "remove listing"}
    PROVE  /\ listings' \in [ListingIds -> Listing \cup {None, Gone}]
           /\ OwnOrCommon(items, listings')
           /\ \A l \in ListingIds :
                 /\ listings[l] = Gone => listings'[l] = Gone
                 /\ listings[l] # None => listings'[l] # None
                 /\ l \in In(listings) =>
                       listings'[l] = Gone \/ (l \in In(listings') /\ listings'[l].seller = listings[l].seller)
<1> DEFINE d == r.dto
<1>1. /\ d.item \in {Keep} \cup ItemIds /\ d.variant \in {Keep} \cup Variants
      /\ d.sku \in {Keep, None} \cup Skus
      /\ r.kind \in {"create listing", "update listing"} => d.status \in {Keep} \cup ListingStatuses
      /\ r.kind = "create listing" => d.item # Keep /\ d.variant # Keep
      /\ r.kind \in {"update listing", "remove listing"} => r.id \in ListingIds
  BY DEF Knows, Sound, Request, Dto
<1>2. /\ listings \in [ListingIds -> Listing \cup {None, Gone}]
      /\ \A l \in ListingIds : l \in In(listings) <=> listings[l] \notin {None, Gone}
      /\ In(listings) \subseteq ListingIds /\ \A l \in In(listings) : listings[l] \in Listing
  BY DEF TypeOK, In
<1>3. \A l \in In(listings) : MaySell(items, listings[l].seller, listings[l].item)
  BY DEF OwnOrCommon, MaySell
<1>4. CASE r.kind = "create listing"
  <2> DEFINE row == [seller |-> SellerOf(r), item |-> d.item, variant |-> d.variant,
                     sku |-> Or(d.sku, None), status |-> Or(d.status, "DRAFT")]
  <2>1. PICK l \in NewRows(listings) : listings' = [listings EXCEPT ![l] = row]
    BY <1>4 DEF WriteListing
  <2>2. l \in ListingIds /\ listings[l] = None
    BY <1>2, <2>1 DEF NewRows
  <2>3. SellerOf(r) \in Sellers /\ MaySell(items, SellerOf(r), d.item)
    BY <1>1, <1>4 DEF Knows, For
  <2>4. Or(d.sku, None) \in Skus \cup {None} /\ Or(d.status, "DRAFT") \in ListingStatuses
    BY <1>1, <1>4 DEF Or, ListingStatuses
  <2>5. row \in Listing /\ row.seller = SellerOf(r) /\ row.item = d.item
    BY <1>1, <1>4, <2>3, <2>4 DEF Listing
  <2> HIDE DEF row
  <2>6. /\ listings' \in [ListingIds -> Listing \cup {None, Gone}] /\ listings'[l] = row
        /\ \A k \in ListingIds \ {l} : listings'[k] = listings[k]
    BY <1>2, <2>1, <2>2, <2>5
  <2>7. /\ In(listings') \subseteq In(listings) \cup {l} /\ l \notin In(listings)
        /\ \A k \in In(listings) : k \in In(listings') /\ listings'[k] = listings[k]
    BY <1>2, <2>2, <2>6 DEF In
  <2>8. OwnOrCommon(items, listings')
    BY <1>3, <2>3, <2>5, <2>6, <2>7 DEF OwnOrCommon, MaySell
  <2>9. None # Gone
    BY NoneAssumption
  <2> QED BY <2>2, <2>6, <2>7, <2>8, <2>9
<1>5. CASE r.kind = "remove listing"
  <2>1. r.id \in ListingIds /\ listings' = [listings EXCEPT ![r.id] = Gone]
    BY <1>1, <1>5 DEF WriteListing
  <2>2. /\ listings' \in [ListingIds -> Listing \cup {None, Gone}] /\ listings'[r.id] = Gone
        /\ \A k \in ListingIds \ {r.id} : listings'[k] = listings[k]
    BY <1>2, <2>1
  <2>3. /\ In(listings') \subseteq In(listings) /\ r.id \notin In(listings')
        /\ \A k \in In(listings) \ {r.id} : k \in In(listings')
    BY <1>2, <2>2 DEF In
  <2>4. OwnOrCommon(items, listings')
    BY <1>2, <2>2, <2>3 DEF OwnOrCommon
  <2>5. None # Gone
    BY NoneAssumption
  <2> QED BY <2>2, <2>3, <2>4, <2>5
<1>6. CASE r.kind = "update listing"
  <2> DEFINE old == listings[r.id]
             row == [old EXCEPT !.item = Or(d.item, old.item), !.variant = Or(d.variant, old.variant),
                                !.sku = Or(d.sku, old.sku), !.status = Or(d.status, old.status)]
  <2>1. r.id \in In(listings) /\ old \in Listing /\ old.seller = For(r)
    BY <1>2, <1>6 DEF WriteListing, Knows
  <2>2. listings' = [listings EXCEPT ![r.id] = row]
    BY <1>2, <1>6, <2>1 DEF WriteListing
  <2>3. Or(d.item, old.item) \in ItemIds /\ MaySell(items, old.seller, Or(d.item, old.item))
    BY <1>1, <1>3, <1>6, <2>1 DEF Or, Listing, Knows
  <2>4. Or(d.variant, old.variant) \in Variants /\ Or(d.sku, old.sku) \in Skus \cup {None}
        /\ Or(d.status, old.status) \in ListingStatuses
    BY <1>1, <1>6, <2>1 DEF Or, Listing
  <2>5. row \in Listing /\ row.seller = old.seller /\ row.item = Or(d.item, old.item)
    BY <2>1, <2>3, <2>4 DEF Listing
  <2> HIDE DEF row
  <2>6. /\ listings' \in [ListingIds -> Listing \cup {None, Gone}] /\ listings'[r.id] = row
        /\ \A k \in ListingIds \ {r.id} : listings'[k] = listings[k]
    BY <1>2, <2>1, <2>2, <2>5
  <2>7. In(listings') = In(listings)
    <3>1. row \notin {None, Gone}
      BY <2>5, NoneAssumption
    <3>2. \A k : k \in In(listings') <=> k \in In(listings)
      BY <1>2, <2>1, <2>6, <3>1 DEF In
    <3> QED BY <3>2
  <2>8. \A k \in In(listings) : MaySell(items, listings'[k].seller, listings'[k].item)
    <3> SUFFICES ASSUME NEW k \in In(listings) PROVE MaySell(items, listings'[k].seller, listings'[k].item)
      OBVIOUS
    <3> HIDE DEF old
    <3>1. CASE k = r.id
      BY <2>3, <2>5, <2>6, <3>1
    <3>2. CASE k # r.id
      BY <1>2, <1>3, <2>6, <3>2
    <3> QED BY <3>1, <3>2
  <2>9. OwnOrCommon(items, listings')
    BY <2>7, <2>8 DEF OwnOrCommon, MaySell
  <2>10. \A l \in ListingIds :
            /\ listings[l] = Gone => listings'[l] = Gone
            /\ listings[l] # None => listings'[l] # None
            /\ l \in In(listings) => listings'[l].seller = listings[l].seller
    <3> SUFFICES ASSUME NEW l \in ListingIds
                 PROVE  /\ listings[l] = Gone => listings'[l] = Gone
                        /\ listings[l] # None => listings'[l] # None
                        /\ l \in In(listings) => listings'[l].seller = listings[l].seller
      OBVIOUS
    <3>1. CASE l = r.id
      <4>1. listings'[l] = row /\ listings[l] = old /\ old \in Listing
        BY <2>1, <2>6, <3>1
      <4>2. row # None /\ old # Gone
        BY <2>5, <4>1, NoneAssumption
      <4> QED BY <2>5, <4>1, <4>2
    <3>2. CASE l # r.id
      BY <2>6, <3>2
    <3> QED BY <3>1, <3>2
  <2> QED BY <2>6, <2>7, <2>9, <2>10
<1> QED BY <1>4, <1>5, <1>6

LEMMA CountryWritten ==
    ASSUME TypeOK, OnTheTree(categories, items, countries), NEW r, Knows(r), WriteCountry(r),
           r.kind \in {"create country", "update country", "remove country"}
    PROVE  countries' \subseteq CountryIds /\ OnTheTree(categories, items, countries')
<1>1. r.id \in CountryIds
  BY DEF Knows, Sound
<1>2. CASE r.kind = "create country"
  <2>1. countries' = countries \cup {r.id}
    BY <1>2 DEF WriteCountry
  <2> QED BY <1>1, <2>1 DEF TypeOK, OnTheTree
<1>3. CASE r.kind = "update country"
  <2>1. countries' = countries
    BY <1>3 DEF WriteCountry
  <2> QED BY <2>1 DEF TypeOK
<1>4. CASE r.kind = "remove country"
  <2>1. countries' = countries \ {r.id} /\ \A i \in In(items) : items[i].country # r.id
    BY <1>4 DEF WriteCountry, CountryFree
  <2> QED BY <2>1 DEF TypeOK, OnTheTree
<1> QED BY <1>2, <1>3, <1>4

Tree == TwoLevels(categories) /\ OnTheTree(categories, items, countries) /\ OwnOrCommon(items, listings)

Tables ==
    /\ categories \in [CategoryIds -> Category \cup {None}]
    /\ items \in [ItemIds -> Item \cup {None}]
    /\ listings \in [ListingIds -> Listing \cup {None, Gone}]
    /\ countries \subseteq CountryIds

\* Whatever is written, the tree stands and rows keep what they are.
LEMMA WriteKeeps ==
    ASSUME TypeOK, Tree, NEW r, Knows(r), WriteOf(r)
    PROVE  Tables' /\ Tree' /\ RowsStay
<1>1. r.kind \in Kinds
  BY DEF Knows, Sound, Request
<1>2. CASE r.kind \in {"create category", "update category", "category status"}
  <2>1. WriteCategory(r)
    BY <1>2 DEF WriteOf
  <2>2. items' = items /\ listings' = listings /\ countries' = countries
    BY <2>1 DEF WriteCategory
  <2>3. /\ categories' \in [CategoryIds -> Category \cup {None}] /\ TwoLevels(categories')
        /\ \A c \in In(categories) : c \in In(categories') /\ categories'[c].parent = categories[c].parent
    BY <1>2, <2>1, CategoryWritten DEF Tree
  <2>4. OnTheTree(categories', items, countries)
    BY <2>3, StillOnTheTree DEF Tree
  <2>5. Tables' /\ Tree'
    BY <2>2, <2>3, <2>4 DEF Tables, Tree, TypeOK
  <2> QED BY <2>2, <2>3, <2>5 DEF RowsStay
<1>3. CASE r.kind \in {"create item", "update item"}
  <2>1. WriteItem(r)
    BY <1>3 DEF WriteOf
  <2>2. categories' = categories /\ listings' = listings /\ countries' = countries
    BY <2>1 DEF WriteItem
  <2>3. /\ items' \in [ItemIds -> Item \cup {None}] /\ OnTheTree(categories, items', countries)
        /\ \A i \in In(items) : i \in In(items') /\ items'[i].owner = items[i].owner
    BY <1>3, <2>1, ItemWritten DEF Tree
  <2>4. OwnOrCommon(items', listings)
    BY <2>3 DEF Tree, OwnOrCommon
  <2>5. Tables' /\ Tree'
    BY <2>2, <2>3, <2>4 DEF Tables, Tree, TypeOK
  <2> QED BY <2>2, <2>3, <2>5 DEF RowsStay
<1>4. CASE r.kind \in {"create listing", "update listing", "remove listing"}
  <2>1. WriteListing(r)
    BY <1>4 DEF WriteOf
  <2>2. categories' = categories /\ items' = items /\ countries' = countries
    BY <2>1 DEF WriteListing
  <2>3. /\ listings' \in [ListingIds -> Listing \cup {None, Gone}] /\ OwnOrCommon(items, listings')
        /\ \A l \in ListingIds :
              /\ listings[l] = Gone => listings'[l] = Gone
              /\ listings[l] # None => listings'[l] # None
              /\ l \in In(listings) =>
                    listings'[l] = Gone \/ (l \in In(listings') /\ listings'[l].seller = listings[l].seller)
    BY <1>4, <2>1, ListingWritten DEF Tree
  <2>4. Tables' /\ Tree'
    BY <2>2, <2>3 DEF Tables, Tree, TypeOK
  <2> QED BY <2>2, <2>3, <2>4 DEF RowsStay
<1>5. CASE r.kind \in {"create country", "update country", "remove country"}
  <2>1. WriteCountry(r)
    BY <1>5 DEF WriteOf
  <2>2. categories' = categories /\ items' = items /\ listings' = listings
    BY <2>1 DEF WriteCountry
  <2>3. countries' \subseteq CountryIds /\ OnTheTree(categories, items, countries')
    BY <1>5, <2>1, CountryWritten DEF Tree
  <2>4. Tables' /\ Tree'
    BY <2>2, <2>3 DEF Tables, Tree, TypeOK
  <2> QED BY <2>2, <2>4 DEF RowsStay
<1> QED BY <1>1, <1>2, <1>3, <1>4, <1>5 DEF Kinds, Creates

LEMMA WriteStep ==
    ASSUME TypeOK, Tree, Requests, NEW h \in Handlers, Write(h)
    PROVE  Tables' /\ Tree' /\ RowsStay /\ Moves(h, "idle", NoReq)
<1>1. Moves(h, "idle", NoReq)
  BY DoneMoves DEF Write
<1>2. CASE WriteOf(req[h])
  <2>1. Knows(req[h])
    BY NothingMoreToAsk DEF Write
  <2> QED BY <1>1, <1>2, <2>1, WriteKeeps
<1>3. CASE UNCHANGED tables
  <2>1. categories' = categories /\ items' = items /\ listings' = listings /\ countries' = countries
    BY <1>3 DEF tables
  <2> QED BY <1>1, <1>3, <2>1, TablesStay DEF Tables, Tree, TypeOK
<1> QED BY <1>2, <1>3 DEF Write

-----------------------------------------------------------------------------
(* The theorem *)

LEMMA InitHolds ==
    ASSUME Init
    PROVE  IInv
<1>1. TypeOK
  <2>1. NoReq \in Request
    BY NothingInHand DEF InPlace, Sound
  <2> QED BY <2>1, WorldAssumption, MixesAssumption DEF Init, TypeOK, Label
<1>2. TreeStands
  BY <1>1, WorldAssumption DEF Init, TreeStands
<1>3. RequestsInPlace /\ RequestsFound
  BY NothingInHand DEF Init, RequestsInPlace, RequestsFound
<1> QED BY <1>2, <1>3 DEF IInv

LEMMA StepHolds ==
    ASSUME IInv, Next
    PROVE  IInv'
<1>1. TypeOK /\ Tree /\ Requests /\ mix' = mix
  BY DEF IInv, TreeStands, Tree, Requests, Next
<1>2. ASSUME UNCHANGED tables
      PROVE  Tables' /\ Tree' /\ RowsStay
  <2>1. categories' = categories /\ items' = items /\ listings' = listings /\ countries' = countries
    BY <1>2 DEF tables
  <2> QED BY <1>1, <1>2, <2>1, TablesStay DEF Tables, Tree, TypeOK
<1>3. PICK h \in Handlers : (\E r \in mix : Arrive(h, r)) \/ Read(h) \/ Check(h) \/ Write(h)
  BY DEF Next
<1>4. Tables' /\ Tree' /\ RowsStay /\ \E label \in Label : \E r : Moves(h, label, r)
  <2>1. CASE \E r \in mix : Arrive(h, r)
    <3>1. PICK r \in mix : Arrive(h, r)
      BY <2>1
    <3>2. Moves(h, "read", r)
      BY <1>1, <3>1, ArriveMoves
    <3>3. UNCHANGED tables
      BY <3>1 DEF Arrive
    <3> QED BY <1>2, <3>2, <3>3 DEF Label
  <2>2. CASE Read(h)
    <3>1. \E label \in Label : \E r : Moves(h, label, r)
      BY <1>1, <2>2, ReadMoves DEF Tree
    <3>2. UNCHANGED tables
      BY <2>2 DEF Read
    <3> QED BY <1>2, <3>1, <3>2
  <2>3. CASE Check(h)
    <3>1. \E label \in Label : \E r : Moves(h, label, r)
      BY <1>1, <2>3, CheckMoves DEF Tree
    <3>2. UNCHANGED tables
      BY <2>3 DEF Check
    <3> QED BY <1>2, <3>1, <3>2
  <2>4. CASE Write(h)
    BY <1>1, <2>4, WriteStep DEF Label
  <2> QED BY <1>3, <2>1, <2>2, <2>3, <2>4
<1>5. PICK label, t : label \in Label /\ Moves(h, label, t)
  BY <1>4
<1>6. Requests' /\ pc' \in [Handlers -> Label] /\ req' \in [Handlers -> Request]
  BY <1>1, <1>4, <1>5, MovedRequests
<1>7. alone' \in BOOLEAN /\ asked' \in 0..MaxRequests
  <2>1. alone \in BOOLEAN /\ asked \in 0..MaxRequests /\ MaxRequests \in Nat
    BY <1>1, MixesAssumption DEF TypeOK
  <2>2. CASE \E r \in mix : Arrive(h, r)
    <3>1. asked < MaxRequests /\ asked' = asked + 1 /\ alone' = (alone /\ \A o \in Handlers : pc[o] = "idle")
      BY <2>2 DEF Arrive
    <3>2. asked' \in 0..MaxRequests
      BY <2>1, <3>1
    <3>3. alone' \in BOOLEAN
      BY <3>1, Zenon
    <3> QED BY <3>2, <3>3
  <2>3. CASE Read(h) \/ Check(h) \/ Write(h)
    BY <2>1, <2>3 DEF Read, Check, Write
  <2> QED BY <1>3, <2>2, <2>3
<1>8. TypeOK'
  BY <1>1, <1>4, <1>6, <1>7 DEF TypeOK, Tables
<1> QED BY <1>4, <1>6, <1>8 DEF IInv, TreeStands, Tree, Requests

\* In any world that is in order, however many requests overlap and wherever they are
\* refused or fail, the tree keeps its two levels with distinct codes on its tiles only,
\* items stand on it, and no seller sells what is another's (TreeStands, of the services
\* of categories, catalogue, countries and listings).
THEOREM TreeStandsAlways == Spec => []TreeStands
<1>1. Init => IInv
  BY InitHolds
<1>2. IInv /\ [Next]_vars => IInv'
  <2>1. ASSUME IInv, UNCHANGED vars PROVE IInv'
    BY <2>1 DEF vars, tables, IInv, TreeStands, TypeOK, RequestsInPlace, RequestsFound
  <2> QED BY <2>1, StepHolds
<1>3. IInv => TreeStands
  BY DEF IInv
<1> QED BY <1>1, <1>2, <1>3, PTL DEF Spec

-----------------------------------------------------------------------------
(* Reviews, as long as requests come one at a time *)

\* The parts of Reviewed.
BranchesReviewed(cs) == \A c \in In(cs) : cs[c].parent # None => cs[cs[c].parent].status = "APPROVED"
ItemReviewed(cs, item) ==
    /\ cs[item.category].status = "APPROVED"
    /\ item.sub # None => cs[item.sub].status = "APPROVED" /\ cs[item.sub].parent = item.category
ItemsReviewed(cs, is) == \A i \in In(is) : ItemReviewed(cs, is[i])
ListingsReviewed(is, ls) == \A l \in In(ls) : is[ls[l].item].status = "APPROVED"
Alike(a, b) == a.seller = b.seller /\ a.item = b.item /\ a.variant = b.variant
OfferedOnce(ls) == \A l, k \in In(ls) : Alike(ls[l], ls[k]) => l = k

LEMMA ReviewedParts ==
    ASSUME NEW cs, NEW is, NEW ls
    PROVE  Reviewed(cs, is, ls) <=> /\ BranchesReviewed(cs) /\ ItemsReviewed(cs, is)
                                    /\ ListingsReviewed(is, ls) /\ OfferedOnce(ls)
BY DEF Reviewed, BranchesReviewed, ItemsReviewed, ItemReviewed, ListingsReviewed, OfferedOnce, Alike

\* What the answers say that a request goes by when it writes.
Answers(r, row) ==
    /\ r.kind = "create category" /\ r.dto.parent # Keep => Approved(r.dto.parent)
    /\ r.kind \in {"update category", "category status"} /\ ChangesStatus(r.dto, row) => CategoryFree(r.id)
    /\ r.kind \in {"create item", "update item"} =>
          /\ r.dto.category # Keep => Approved(r.dto.category)
          /\ r.dto.sub \notin {Keep, None} =>
                Approved(r.dto.sub) /\ categories[r.dto.sub].parent = CategoryOf(r, row)
          /\ r.kind = "update item" /\ ChangesStatus(r.dto, row) => ItemFree(r.id)
    /\ r.kind \in {"create listing", "update listing"} =>
          /\ r.dto.item # Keep => ItemUsable(r.dto.item, Seller(r, row))
          /\ VariantFree(Seller(r, row), ItemOf(r, row), VariantOf(r, row), Except(r))

LEMMA AllAnswered ==
    ASSUME NEW r, NEW row, NEW s, AsksAll(r, row, s), \A q \in ToSet(s) : Holds(q, r.user)
    PROVE  Answers(r, row)
<1>1. ASSUME NEW id, Asks(s, "parent", id)
      PROVE  Approved(id)
  <2>1. PICK q \in ToSet(s) : q.what = "parent" /\ q.id = id
    BY <1>1 DEF Asks
  <2>2. Holds(q, r.user)
    OBVIOUS
  <2> QED BY <2>1, <2>2 DEF Holds, Usable
<1>2. ASSUME NEW id, Asks(s, "top", id)
      PROVE  Approved(id)
  <2>1. PICK q \in ToSet(s) : q.what = "top" /\ q.id = id
    BY <1>2 DEF Asks
  <2>2. Holds(q, r.user)
    OBVIOUS
  <2> QED BY <2>1, <2>2 DEF Holds, Usable
<1>3. ASSUME NEW id, Asks(s, "sub", id)
      PROVE  Approved(id) /\ categories[id].parent = CategoryOf(r, row)
  <2>1. PICK q \in ToSet(s) : q.what = "sub" /\ q.id = id
    BY <1>3 DEF Asks
  <2>2. Holds(q, r.user)
    OBVIOUS
  <2> QED BY <2>1, <2>2 DEF Holds, Usable, AsksAll
<1>4. ASSUME NEW id, Asks(s, "category free", id)
      PROVE  CategoryFree(id)
  <2>1. PICK q \in ToSet(s) : q.what = "category free" /\ q.id = id
    BY <1>4 DEF Asks
  <2>2. Holds(q, r.user)
    OBVIOUS
  <2> QED BY <2>1, <2>2 DEF Holds
<1>5. ASSUME NEW id, Asks(s, "item free", id)
      PROVE  ItemFree(id)
  <2>1. PICK q \in ToSet(s) : q.what = "item free" /\ q.id = id
    BY <1>5 DEF Asks
  <2>2. Holds(q, r.user)
    OBVIOUS
  <2> QED BY <2>1, <2>2 DEF Holds
<1>6. ASSUME NEW id, Asks(s, "item", id)
      PROVE  ItemUsable(id, Seller(r, row))
  <2>1. PICK q \in ToSet(s) : q.what = "item" /\ q.id = id
    BY <1>6 DEF Asks
  <2>2. Holds(q, r.user)
    OBVIOUS
  <2> QED BY <2>1, <2>2 DEF Holds, AsksAll
<1>7. ASSUME NEW id, Asks(s, "variant", id)
      PROVE  VariantFree(Seller(r, row), id, VariantOf(r, row), Except(r))
  <2>1. PICK q \in ToSet(s) : q.what = "variant" /\ q.id = id
    BY <1>7 DEF Asks
  <2>2. Holds(q, r.user)
    OBVIOUS
  <2> QED BY <2>1, <2>2 DEF Holds, AsksAll
<1> QED BY <1>1, <1>2, <1>3, <1>4, <1>5, <1>6, <1>7 DEF AsksAll, Answers

\* Rows of categories keep their parents; those that anything hangs on, their status.
LEMMA CategoryReviewed ==
    ASSUME TypeOK, Tree, Reviewed(categories, items, listings), NEW r, Knows(r), WriteCategory(r),
           r.kind \in {"create category", "update category", "category status"},
           r.kind # "create category" => r.id \in In(categories),
           Answers(r, IF r.kind = "create category" THEN None ELSE categories[r.id])
    PROVE  Reviewed(categories', items, listings)
<1> DEFINE d == r.dto
           Kept(c) == c \in In(categories') /\ categories'[c].parent = categories[c].parent
                      /\ categories'[c].status = categories[c].status
<1>1. /\ BranchesReviewed(categories) /\ ItemsReviewed(categories, items)
      /\ ListingsReviewed(items, listings) /\ OfferedOnce(listings)
  BY ReviewedParts
<1>2. /\ categories \in [CategoryIds -> Category \cup {None}] /\ In(categories) \subseteq CategoryIds
      /\ \A c \in In(categories) : categories[c] \in Category
  BY DEF TypeOK, In
<1>3. /\ \A c \in In(categories) : categories[c].parent # None => categories[c].parent \in In(categories)
      /\ \A i \in In(items) : items[i].category \in In(categories)
                              /\ (items[i].sub # None => items[i].sub \in In(categories))
  BY DEF Tree, TwoLevels, OnTheTree
<1>4. CASE r.kind = "create category"
  <2> DEFINE row == [parent |-> Or(d.parent, None), code |-> Or(d.code, None),
                     owner |-> Owner(r.user), status |-> FirstStatus(r.user)]
  <2>1. PICK c \in NewRows(categories) : categories' = [categories EXCEPT ![c] = row]
    BY <1>4 DEF WriteCategory
  <2>2. c \in CategoryIds /\ c \notin In(categories)
    BY <1>2, <2>1 DEF NewRows, In
  <2>3. row.parent # None => Approved(row.parent)
    BY <1>4 DEF Answers, Or
  <2> HIDE DEF row
  <2>4. /\ categories'[c] = row /\ \A e \in CategoryIds \ {c} : categories'[e] = categories[e]
        /\ DOMAIN categories' = CategoryIds
    BY <1>2, <2>1, <2>2
  <2>5. /\ \A e \in In(categories) : Kept(e)
        /\ In(categories') \subseteq In(categories) \cup {c}
    BY <1>2, <2>2, <2>4 DEF In
  <2> HIDE DEF Kept
  <2>6. BranchesReviewed(categories')
    <3> SUFFICES ASSUME NEW e \in In(categories'), categories'[e].parent # None
                 PROVE  categories'[categories'[e].parent].status = "APPROVED"
      BY DEF BranchesReviewed
    <3>1. CASE e = c
      BY <2>3, <2>4, <2>5, <3>1 DEF Approved, Kept
    <3>2. CASE e \in In(categories)
      BY <1>1, <1>3, <2>5, <3>2 DEF BranchesReviewed, Kept
    <3> QED BY <2>5, <3>1, <3>2
  <2>7. ItemsReviewed(categories', items)
    BY <1>1, <1>3, <2>5 DEF ItemsReviewed, ItemReviewed, Kept
  <2> QED BY <1>1, <2>6, <2>7, ReviewedParts
<1>5. CASE r.kind \in {"update category", "category status"}
  <2> DEFINE old == categories[r.id]
             row == [old EXCEPT !.status = Or(d.status, old.status), !.code = Or(d.code, old.code)]
  <2>1. r.id \in In(categories) /\ old \in Category
    BY <1>2, <1>5
  <2>2. categories' = [categories EXCEPT ![r.id] = row]
    BY <1>2, <1>5, <2>1 DEF WriteCategory
  <2>3. row.parent = old.parent /\ (CategoryFree(r.id) \/ row.status = old.status)
    BY <1>5, <2>1 DEF Answers, ChangesStatus, Or, Category
  <2>4. row \in Category
    <3>1. d.status \in {Keep} \cup Statuses /\ d.code \in {Keep, None} \cup Codes
      BY <1>5 DEF Knows, Sound, Request, Dto
    <3>2. Or(d.status, old.status) \in Statuses /\ Or(d.code, old.code) \in Codes \cup {None}
      BY <2>1, <3>1 DEF Or, Category
    <3> QED BY <2>1, <3>2 DEF Category
  <2> HIDE DEF row
  <2>5. /\ categories'[r.id] = row /\ \A e \in CategoryIds \ {r.id} : categories'[e] = categories[e]
        /\ DOMAIN categories' = CategoryIds /\ row \notin {None, Gone}
    BY <1>2, <2>1, <2>2, <2>4, NoneAssumption
  <2>6. /\ \A e : e \in In(categories') <=> e \in In(categories)
        /\ \A e \in In(categories) : categories'[e].parent = categories[e].parent
    BY <1>2, <2>1, <2>3, <2>5 DEF In
  <2>7. ASSUME NEW e \in In(categories), e = r.id => ~CategoryFree(r.id)
        PROVE  Kept(e)
    BY <1>2, <2>1, <2>3, <2>5, <2>6, <2>7
  <2> HIDE DEF Kept
  <2>8. BranchesReviewed(categories')
    <3> SUFFICES ASSUME NEW e \in In(categories), categories[e].parent # None
                 PROVE  categories'[categories[e].parent].status = "APPROVED"
      BY <2>6 DEF BranchesReviewed
    <3>1. categories[e].parent = r.id => ~CategoryFree(r.id)
      BY DEF CategoryFree
    <3>2. Kept(categories[e].parent)
      BY <1>3, <2>7, <3>1
    <3> QED BY <1>1, <3>2 DEF BranchesReviewed, Kept
  <2>9. ItemsReviewed(categories', items)
    <3> SUFFICES ASSUME NEW i \in In(items)
                 PROVE  ItemReviewed(categories', items[i])
      BY DEF ItemsReviewed
    <3>1. r.id \in {items[i].category, items[i].sub} => ~CategoryFree(r.id)
      BY DEF CategoryFree
    <3>2. Kept(items[i].category) /\ (items[i].sub # None => Kept(items[i].sub))
      BY <1>3, <2>7, <3>1
    <3> QED BY <1>1, <3>2 DEF ItemsReviewed, ItemReviewed, Kept
  <2> QED BY <1>1, <2>8, <2>9, ReviewedParts
<1> QED BY <1>4, <1>5

LEMMA ItemReviewedToo ==
    ASSUME TypeOK, Tree, Reviewed(categories, items, listings), NEW r, Knows(r), WriteItem(r),
           r.kind \in {"create item", "update item"},
           r.kind = "update item" => r.row = items[r.id],
           Answers(r, r.row)
    PROVE  Reviewed(categories, items', listings)
<1> DEFINE d == r.dto
<1>1. /\ BranchesReviewed(categories) /\ ItemsReviewed(categories, items)
      /\ ListingsReviewed(items, listings) /\ OfferedOnce(listings)
  BY ReviewedParts
<1>2. /\ items \in [ItemIds -> Item \cup {None}] /\ In(items) \subseteq ItemIds
      /\ \A i \in In(items) : items[i] \in Item
  BY DEF TypeOK, In
<1>3. \A l \in In(listings) : listings[l].item \in In(items)
  BY DEF Tree, OwnOrCommon
<1>4. d.category \in {Keep} \cup CategoryIds /\ d.sub \in {Keep, None} \cup CategoryIds
      /\ d.country \in {Keep, None} \cup CountryIds /\ d.status \in {Keep} \cup Statuses
      /\ (r.kind = "create item" => d.category # Keep)
  BY DEF Knows, Sound, Request, Dto
<1>5. /\ d.category # Keep => Approved(d.category)
      /\ d.sub \notin {Keep, None} => Approved(d.sub) /\ categories[d.sub].parent = CategoryOf(r, r.row)
      /\ r.kind = "update item" /\ ChangesStatus(d, r.row) => ItemFree(r.id)
  BY DEF Answers
<1>6. CASE r.kind = "create item"
  <2> DEFINE row == [category |-> d.category, sub |-> Or(d.sub, None), country |-> Or(d.country, None),
                     owner |-> Owner(r.user), status |-> FirstStatus(r.user)]
  <2>1. PICK i \in NewRows(items) : items' = [items EXCEPT ![i] = row]
    BY <1>6 DEF WriteItem
  <2>2. i \in ItemIds /\ i \notin In(items)
    BY <1>2, <2>1 DEF NewRows, In
  <2>3. ItemReviewed(categories, row)
    BY <1>4, <1>5, <1>6 DEF ItemReviewed, Approved, CategoryOf, Or
  <2> HIDE DEF row
  <2>4. /\ items'[i] = row /\ \A j \in ItemIds \ {i} : items'[j] = items[j]
        /\ DOMAIN items' = ItemIds
    BY <1>2, <2>1, <2>2
  <2>5. /\ In(items') \subseteq In(items) \cup {i} /\ \A j \in In(items) : items'[j] = items[j]
    BY <1>2, <2>2, <2>4 DEF In
  <2>6. ItemsReviewed(categories, items')
    BY <1>1, <2>3, <2>4, <2>5 DEF ItemsReviewed
  <2>7. ListingsReviewed(items', listings)
    BY <1>1, <1>3, <2>5 DEF ListingsReviewed
  <2> QED BY <1>1, <2>6, <2>7, ReviewedParts
<1>7. CASE r.kind = "update item"
  <2> DEFINE old == items[r.id]
             sub == NewSub(d, r.row)
             row == [old EXCEPT !.category = Or(d.category, old.category), !.sub = Or(sub, old.sub),
                                !.country = Or(d.country, old.country), !.status = Or(d.status, old.status)]
  <2>1. r.id \in In(items) /\ old \in Item /\ r.row = old /\ ItemReviewed(categories, old)
    BY <1>1, <1>2, <1>7 DEF Knows, ItemsReviewed
  <2>2. items' = [items EXCEPT ![r.id] = row]
    BY <1>2, <1>7, <2>1 DEF WriteItem
  <2>3. row.category = Or(d.category, old.category) /\ row.sub = Or(sub, old.sub)
        /\ row.status = Or(d.status, old.status) /\ row \in Item
    <3>1. /\ Or(d.category, old.category) \in CategoryIds /\ Or(sub, old.sub) \in CategoryIds \cup {None}
          /\ Or(d.country, old.country) \in CountryIds \cup {None} /\ Or(d.status, old.status) \in Statuses
      BY <1>4, <2>1 DEF Or, NewSub, Item
    <3> QED BY <2>1, <3>1 DEF Item
  <2>4. ItemReviewed(categories, row)
    <3> HIDE DEF row, old
    <3>1. categories[row.category].status = "APPROVED"
      BY <1>5, <2>1, <2>3 DEF ItemReviewed, Approved, Or
    <3>2. CASE d.sub # Keep
      BY <1>5, <2>1, <2>3, <3>1, <3>2 DEF ItemReviewed, Approved, CategoryOf, Or, NewSub
    <3>3. CASE d.sub = Keep
      BY <2>1, <2>3, <3>1, <3>3, NoneAssumption DEF ItemReviewed, Or, NewSub
    <3> QED BY <3>2, <3>3
  <2>5. ItemFree(r.id) \/ row.status = old.status
    BY <1>5, <1>7, <2>1, <2>3 DEF ChangesStatus, Or
  <2> HIDE DEF row
  <2>6. /\ items'[r.id] = row /\ \A j \in ItemIds \ {r.id} : items'[j] = items[j]
        /\ DOMAIN items' = ItemIds
    BY <1>2, <2>1, <2>2
  <2>7. In(items') \subseteq In(items) /\ \A j \in In(items) \ {r.id} : items'[j] = items[j]
    BY <1>2, <2>1, <2>6 DEF In
  <2>8. ItemsReviewed(categories, items')
    BY <1>1, <2>4, <2>6, <2>7 DEF ItemsReviewed
  <2>9. ListingsReviewed(items', listings)
    <3> SUFFICES ASSUME NEW l \in In(listings) PROVE items'[listings[l].item].status = "APPROVED"
      BY DEF ListingsReviewed
    <3>1. listings[l].item \in In(items) /\ items[listings[l].item].status = "APPROVED"
      BY <1>1, <1>3 DEF ListingsReviewed
    <3>2. CASE listings[l].item = r.id
      BY <2>5, <2>6, <3>1, <3>2 DEF ItemFree
    <3>3. CASE listings[l].item # r.id
      BY <2>7, <3>1, <3>3
    <3> QED BY <3>2, <3>3
  <2> QED BY <1>1, <2>8, <2>9, ReviewedParts
<1> QED BY <1>6, <1>7

LEMMA ListingReviewed ==
    ASSUME TypeOK, Tree, Reviewed(categories, items, listings), NEW r, Knows(r), WriteListing(r),
           r.kind \in {"create listing", "update listing", "remove listing"},
           r.kind # "create listing" => r.row = listings[r.id],
           Answers(r, r.row)
    PROVE  Reviewed(categories, items, listings')
<1> DEFINE d == r.dto
<1>1. /\ BranchesReviewed(categories) /\ ItemsReviewed(categories, items)
      /\ ListingsReviewed(items, listings) /\ OfferedOnce(listings)
  BY ReviewedParts
<1>2. /\ listings \in [ListingIds -> Listing \cup {None, Gone}] /\ In(listings) \subseteq ListingIds
      /\ \A l \in In(listings) : listings[l] \in Listing
      /\ \A l \in ListingIds : l \in In(listings) <=> listings[l] \notin {None, Gone}
  BY DEF TypeOK, In
<1>3. /\ d.item \in {Keep} \cup ItemIds /\ d.variant \in {Keep} \cup Variants
      /\ r.kind = "create listing" => d.item # Keep /\ d.variant # Keep
      /\ r.kind \in {"update listing", "remove listing"} => r.id \in ListingIds
  BY DEF Knows, Sound, Request, Dto
<1>4. CASE r.kind = "create listing"
  <2> DEFINE row == [seller |-> SellerOf(r), item |-> d.item, variant |-> d.variant,
                     sku |-> Or(d.sku, None), status |-> Or(d.status, "DRAFT")]
  <2>1. PICK l \in NewRows(listings) : listings' = [listings EXCEPT ![l] = row]
    BY <1>4 DEF WriteListing
  <2>2. l \in ListingIds /\ l \notin In(listings)
    BY <1>2, <2>1 DEF NewRows, In
  <2>3. items[row.item].status = "APPROVED" /\ VariantFree(row.seller, row.item, row.variant, None)
    BY <1>3, <1>4 DEF Answers, ItemUsable, Seller, ItemOf, VariantOf, Except, Or
  <2> HIDE DEF row
  <2>4. \A k \in In(listings) : ~Alike(listings[k], row)
    BY <1>2, <2>3, NoneAssumption DEF VariantFree, Alike
  <2>5. /\ listings'[l] = row /\ \A k \in ListingIds \ {l} : listings'[k] = listings[k]
        /\ DOMAIN listings' = ListingIds
    BY <1>2, <2>1, <2>2
  <2>6. In(listings') \subseteq In(listings) \cup {l} /\ \A k \in In(listings) : listings'[k] = listings[k]
    BY <1>2, <2>2, <2>5 DEF In
  <2>7. ListingsReviewed(items, listings')
    BY <1>1, <2>3, <2>5, <2>6 DEF ListingsReviewed
  <2>8. OfferedOnce(listings')
    <3> SUFFICES ASSUME NEW a \in In(listings'), NEW b \in In(listings'), Alike(listings'[a], listings'[b])
                 PROVE  a = b
      BY DEF OfferedOnce
    <3>1. CASE a = l /\ b # l
      BY <2>4, <2>5, <2>6, <3>1 DEF Alike
    <3>2. CASE a # l /\ b = l
      BY <2>4, <2>5, <2>6, <3>2
    <3>3. CASE a # l /\ b # l
      BY <1>1, <2>6, <3>3 DEF OfferedOnce
    <3> QED BY <3>1, <3>2, <3>3
  <2> QED BY <1>1, <2>7, <2>8, ReviewedParts
<1>5. CASE r.kind = "remove listing"
  <2>1. r.id \in ListingIds /\ listings' = [listings EXCEPT ![r.id] = Gone]
    BY <1>3, <1>5 DEF WriteListing
  <2>2. /\ listings'[r.id] = Gone /\ \A k \in ListingIds \ {r.id} : listings'[k] = listings[k]
        /\ DOMAIN listings' = ListingIds
    BY <1>2, <2>1
  <2>3. \A k \in In(listings') : k \in In(listings) /\ listings'[k] = listings[k]
    BY <1>2, <2>2 DEF In
  <2>4. ListingsReviewed(items, listings') /\ OfferedOnce(listings')
    BY <1>1, <2>3 DEF ListingsReviewed, OfferedOnce
  <2> QED BY <1>1, <2>4, ReviewedParts
<1>6. CASE r.kind = "update listing"
  <2> DEFINE old == listings[r.id]
             row == [old EXCEPT !.item = Or(d.item, old.item), !.variant = Or(d.variant, old.variant),
                                !.sku = Or(d.sku, old.sku), !.status = Or(d.status, old.status)]
  <2>1. r.id \in In(listings) /\ old \in Listing /\ r.row = old
    BY <1>2, <1>6 DEF WriteListing, Knows
  <2>2. listings' = [listings EXCEPT ![r.id] = row]
    BY <1>2, <1>6, <2>1 DEF WriteListing
  <2>3. row.seller = old.seller /\ row.item = Or(d.item, old.item) /\ row.variant = Or(d.variant, old.variant)
    BY <2>1 DEF Listing
  <2>4. items[old.item].status = "APPROVED"
    BY <1>1, <2>1 DEF ListingsReviewed
  <2>5. items[row.item].status = "APPROVED" /\ VariantFree(row.seller, row.item, row.variant, r.id)
    <3> HIDE DEF row, old
    <3> QED BY <1>6, <2>1, <2>3, <2>4 DEF Answers, ItemUsable, Seller, ItemOf, VariantOf, Except, Or
  <2> HIDE DEF row
  <2>6. \A k \in In(listings) \ {r.id} : ~Alike(listings[k], row)
    BY <2>5 DEF VariantFree, Alike
  <2>7. /\ listings'[r.id] = row /\ \A k \in ListingIds \ {r.id} : listings'[k] = listings[k]
        /\ DOMAIN listings' = ListingIds
    BY <1>2, <2>1, <2>2
  <2>8. \A k \in In(listings') : k \in In(listings) /\ (k # r.id => listings'[k] = listings[k])
    BY <1>2, <2>1, <2>7 DEF In
  <2>9. ListingsReviewed(items, listings')
    BY <1>1, <2>5, <2>7, <2>8 DEF ListingsReviewed
  <2>10. OfferedOnce(listings')
    <3> SUFFICES ASSUME NEW a \in In(listings'), NEW b \in In(listings'), Alike(listings'[a], listings'[b])
                 PROVE  a = b
      BY DEF OfferedOnce
    <3>1. CASE a = r.id /\ b # r.id
      BY <2>6, <2>7, <2>8, <3>1 DEF Alike
    <3>2. CASE a # r.id /\ b = r.id
      BY <2>6, <2>7, <2>8, <3>2
    <3>3. CASE a # r.id /\ b # r.id
      BY <1>1, <2>8, <3>3 DEF OfferedOnce
    <3> QED BY <3>1, <3>2, <3>3
  <2> QED BY <1>1, <2>9, <2>10, ReviewedParts
<1> QED BY <1>4, <1>5, <1>6

\* A request that nobody was in the way of writes what a review allows.
LEMMA WriteReviewed ==
    ASSUME TypeOK, Tree, Reviewed(categories, items, listings), NEW r, Knows(r), WriteOf(r),
           r.row = RowOf(r), \A q \in ToSet(ChecksOf(r, r.row)) : Holds(q, r.user)
    PROVE  Reviewed(categories', items', listings')
<1>1. r.kind \in Kinds /\ r.kind # "none" /\ Sound(r)
  BY DEF Knows, Sound, Request
<1>2. /\ r.kind \in {"update category", "category status"} =>
              r.row = categories[r.id] /\ r.id \in In(categories) /\ r.row \in Category
      /\ r.kind = "update item" => r.row = items[r.id] /\ r.row \in Item
      /\ r.kind \in {"update listing", "remove listing"} => r.row = listings[r.id] /\ r.row \in Listing
  <2>1. CASE r.kind \in {"update category", "category status"}
    BY <1>1, <2>1 DEF RowOf, Creates, TableOf, Knows, TypeOK, In
  <2>2. CASE r.kind = "update item"
    BY <1>1, <2>2 DEF RowOf, Creates, TableOf, Knows, TypeOK, In
  <2>3. CASE r.kind \in {"update listing", "remove listing"}
    <3>1. r.row = listings[r.id] /\ r.id \in ListingIds
      BY <1>1, <2>3 DEF RowOf, Creates, TableOf, Sound
    <3>2. listings[r.id] \notin {None, Gone}
      BY <2>3 DEF WriteOf, WriteListing, Knows, In
    <3> QED BY <2>3, <3>1, <3>2 DEF TypeOK
  <2> QED BY <2>1, <2>2, <2>3
<1>3. r.kind \in {"create listing", "update listing"} => Seller(r, r.row) \in Sellers
  BY DEF Knows, For, Seller
<1>4. AsksAll(r, r.row, ChecksOf(r, r.row))
  BY <1>1, <1>2, <1>3, AsksWhatItMust DEF Fits
<1>5. Answers(r, r.row)
  BY <1>4, AllAnswered
<1>6. CASE r.kind \in {"create category", "update category", "category status"}
  <2>1. WriteCategory(r) /\ items' = items /\ listings' = listings
    BY <1>6 DEF WriteOf, WriteCategory
  <2>2. r.row = IF r.kind = "create category" THEN None ELSE categories[r.id]
    BY <1>2, <1>6 DEF RowOf, Creates
  <2>3. Reviewed(categories', items, listings)
    BY <1>2, <1>5, <1>6, <2>1, <2>2, CategoryReviewed
  <2> QED BY <2>1, <2>3
<1>7. CASE r.kind \in {"create item", "update item"}
  <2>1. WriteItem(r) /\ categories' = categories /\ listings' = listings
    BY <1>7 DEF WriteOf, WriteItem
  <2>2. Reviewed(categories, items', listings)
    BY <1>2, <1>5, <1>7, <2>1, ItemReviewedToo
  <2> QED BY <2>1, <2>2
<1>8. CASE r.kind \in {"create listing", "update listing", "remove listing"}
  <2>1. WriteListing(r) /\ categories' = categories /\ items' = items
    BY <1>8 DEF WriteOf, WriteListing
  <2>2. Reviewed(categories, items, listings')
    BY <1>2, <1>5, <1>8, <2>1, ListingReviewed
  <2> QED BY <2>1, <2>2
<1>9. CASE r.kind \in {"create country", "update country", "remove country"}
  <2>1. categories' = categories /\ items' = items /\ listings' = listings
    BY <1>9 DEF WriteOf, WriteCountry
  <2> QED BY <2>1
<1> QED BY <1>1, <1>6, <1>7, <1>8, <1>9 DEF Kinds, Creates

\* What a request has read and been answered is so.
Remains(r) ==
    /\ r.row = RowOf(r)
    /\ \A q \in ToSet(ChecksOf(r, r.row)) : q \in ToSet(r.checks) \/ Holds(q, r.user)

Same(q, r) == q.kind = r.kind /\ q.user = r.user /\ q.id = r.id /\ q.dto = r.dto

LEMMA AsksTheSame ==
    ASSUME NEW r, NEW q, NEW row, Same(q, r)
    PROVE  ChecksOf(q, row) = ChecksOf(r, row) /\ RowOf(q) = RowOf(r)
BY DEF Same, ChecksOf, RowOf, SellerOf

LEMMA JustRead ==
    ASSUME NEW r, NEW q, Same(q, r), q.row = RowOf(r), q.checks = ChecksOf(r, q.row)
    PROVE  Remains(q)
<1>1. ChecksOf(q, q.row) = ChecksOf(r, q.row) /\ RowOf(q) = RowOf(r)
  BY AsksTheSame
<1> QED BY <1>1 DEF Remains

LEMMA JustAnswered ==
    ASSUME NEW r \in Request, Remains(r), r.checks # <<>>, Holds(Head(r.checks), r.user),
           NEW q, Same(q, r), q.row = r.row, q.checks = Tail(r.checks)
    PROVE  Remains(q)
<1>1. ChecksOf(q, r.row) = ChecksOf(r, r.row) /\ RowOf(q) = RowOf(r)
  BY AsksTheSame
<1>2. \A x \in ToSet(r.checks) : x = Head(r.checks) \/ x \in ToSet(q.checks)
  <2>1. r.checks \in Seq(Question) /\ r.checks # <<>>
    BY DEF Request
  <2> QED BY <2>1, SetOfTail
<1> QED BY <1>1, <1>2 DEF Remains, Same

\* Without a write, rows and answers are what they were.
LEMMA AnswersStay ==
    ASSUME UNCHANGED tables, NEW r, Remains(r)
    PROVE  Remains(r)'
<1>1. RowOf(r)' = RowOf(r)
  BY DEF tables, RowOf, TableOf
<1>2. ASSUME NEW q, NEW user, Holds(q, user)
      PROVE  Holds(q, user)'
  <2>1. Depth(q.id)' = Depth(q.id)
    BY DEF tables, Depth, In
  <2> QED BY <1>2, <2>1 DEF tables, Holds, Usable, Approved, CategoryFree, ItemFree, CountryFree,
                            ItemUsable, VariantFree, In
<1> QED BY <1>1, <1>2 DEF Remains

LEMMA ReviewStep ==
    ASSUME ReviewInv, IInv', Next, alone'
    PROVE  /\ Reviewed(categories', items', listings')
           /\ \A h, o \in Handlers : pc'[h] # "idle" /\ pc'[o] # "idle" => h = o
           /\ \A h \in Handlers : (pc[h] = "check" => Remains(req[h]))'
<1>1. /\ TypeOK /\ Tree /\ Requests /\ (alone => Reviewed(categories, items, listings))
      /\ alone => \A a, o \in Handlers : pc[a] # "idle" /\ pc[o] # "idle" => a = o
      /\ alone => \A a \in Handlers : (pc[a] = "check" => Remains(req[a]))
  BY DEF ReviewInv, IInv, TreeStands, Tree, Requests, ReviewHolds, OneBusy, NothingMoved, Remains
<1>2. PICK h \in Handlers : (\E r \in mix : Arrive(h, r)) \/ Read(h) \/ Check(h) \/ Write(h)
  BY DEF Next
<1>3. alone
  BY <1>2 DEF Arrive, Read, Check, Write
<1>4. /\ pc \in [Handlers -> Label] /\ req \in [Handlers -> Request]
      /\ \A a \in Handlers : pc[a] # "idle" => req[a].checks \in Seq(Question)
  BY <1>1 DEF TypeOK, Request
<1>5. CASE \E r \in mix : Arrive(h, r)
  <2>1. PICK r \in mix : Arrive(h, r)
    BY <1>5
  <2>2. /\ \A o \in Handlers : pc[o] = "idle"
        /\ pc' = [pc EXCEPT ![h] = "read"] /\ UNCHANGED tables
    BY <2>1 DEF Arrive, Go
  <2>3. \A o \in Handlers : pc'[o] # "idle" => o = h /\ pc'[o] = "read"
    BY <1>4, <2>2
  <2>4. Reviewed(categories', items', listings')
    BY <1>1, <1>3, <2>2 DEF tables
  <2>5. \A o \in Handlers : (pc[o] = "check" => Remains(req[o]))'
    BY <2>3 DEF Remains
  <2> QED BY <2>3, <2>4, <2>5
<1>6. CASE Read(h)
  <2> DEFINE r == req[h]
             row == RowOf(r)
  <2>1. pc[h] = "read" /\ UNCHANGED tables
    BY <1>6 DEF Read
  <2>2. Reviewed(categories', items', listings')
    BY <1>1, <1>3, <2>1 DEF tables
  <2>3. CASE Done(h)
    <3>1. \A o \in Handlers : pc'[o] = "idle"
      BY <1>1, <1>3, <1>4, <2>1, <2>3 DEF Done
    <3> QED BY <2>2, <3>1 DEF Remains
  <2>4. CASE req' = [req EXCEPT ![h].row = row, ![h].checks = ChecksOf(r, row)] /\ Go(h, "check")
    <3>1. \A o \in Handlers : pc'[o] # "idle" => o = h
      BY <1>1, <1>3, <1>4, <2>1, <2>4 DEF Go
    <3>2. PICK q : q = req'[h]
      OBVIOUS
    <3>3. Same(q, r) /\ q.row = row /\ q.checks = ChecksOf(r, row)
      BY <1>4, <2>4, <3>2 DEF Request, Same
    <3> HIDE DEF r, row
    <3>4. Remains(q)
      BY <3>3, JustRead DEF row
    <3>5. Remains(req[h])'
      BY <2>1, <3>2, <3>4, AnswersStay
    <3> QED BY <2>2, <3>1, <3>5
  <2> QED BY <1>6, <2>3, <2>4 DEF Read
<1>7. CASE Check(h)
  <2> DEFINE r == req[h]
             hd == Head(r.checks)
  <2>1. pc[h] = "check" /\ r.checks # <<>> /\ UNCHANGED tables
    BY <1>7 DEF Check
  <2>2. Reviewed(categories', items', listings')
    BY <1>1, <1>3, <2>1 DEF tables
  <2>3. CASE Done(h)
    <3>1. \A o \in Handlers : pc'[o] = "idle"
      BY <1>1, <1>3, <1>4, <2>1, <2>3 DEF Done
    <3> QED BY <2>2, <3>1 DEF Remains
  <2>4. CASE Holds(hd, r.user) /\ req' = [req EXCEPT ![h].checks = Tail(@)] /\ UNCHANGED pc
    <3>1. \A o \in Handlers : pc'[o] # "idle" => o = h
      BY <1>1, <1>3, <1>4, <2>1, <2>4
    <3>2. PICK q : q = req'[h]
      OBVIOUS
    <3>3. r \in Request /\ Same(q, r) /\ q.row = r.row /\ q.checks = Tail(r.checks)
      BY <1>4, <2>4, <3>2 DEF Request, Same
    <3>4. Remains(r) /\ r.checks # <<>> /\ Holds(Head(r.checks), r.user)
      BY <1>1, <1>3, <2>1, <2>4
    <3> HIDE DEF r
    <3>5. Remains(q)
      BY <3>3, <3>4, JustAnswered
    <3>6. Remains(req[h])'
      BY <2>1, <3>2, <3>5, AnswersStay
    <3> QED BY <2>2, <3>1, <3>6
  <2> QED BY <1>7, <2>3, <2>4 DEF Check
<1>8. CASE Write(h)
  <2>1. pc[h] = "check" /\ req[h].checks = <<>> /\ Done(h)
    BY <1>8 DEF Write
  <2>2. \A o \in Handlers : pc'[o] = "idle"
    BY <1>1, <1>3, <1>4, <2>1 DEF Done
  <2>3. CASE UNCHANGED tables
    <3>1. Reviewed(categories', items', listings')
      BY <1>1, <1>3, <2>3 DEF tables
    <3> QED BY <2>2, <3>1 DEF Remains
  <2>4. CASE WriteOf(req[h])
    <3>1. Knows(req[h])
      BY <1>1, <2>1, NothingMoreToAsk
    <3>2. req[h].row = RowOf(req[h]) /\ \A q \in ToSet(ChecksOf(req[h], req[h].row)) : Holds(q, req[h].user)
      BY <1>1, <1>3, <2>1, EmptySet DEF Remains
    <3>3. Reviewed(categories', items', listings')
      BY <1>1, <1>3, <2>4, <3>1, <3>2, WriteReviewed
    <3> QED BY <2>2, <3>3 DEF Remains
  <2> QED BY <1>8, <2>3, <2>4 DEF Write
<1> QED BY <1>2, <1>5, <1>6, <1>7, <1>8

LEMMA ReviewAlways == Spec => []ReviewInv
<1>1. Init => ReviewInv
  <2>1. ASSUME Init PROVE ReviewInv
    <3>1. IInv
      BY <2>1, InitHolds
    <3>2. ReviewHolds
      BY <2>1, ReviewedAssumption DEF Init, ReviewHolds
    <3>3. OneBusy /\ NothingMoved
      BY <2>1 DEF Init, OneBusy, NothingMoved
    <3> QED BY <3>1, <3>2, <3>3 DEF ReviewInv
  <2> QED BY <2>1
<1>2. ReviewInv /\ [Next]_vars => ReviewInv'
  <2>1. ASSUME ReviewInv, Next PROVE ReviewInv'
    <3>1. IInv'
      BY <2>1, StepHolds DEF ReviewInv
    <3>2. CASE ~alone'
      BY <3>1, <3>2 DEF ReviewInv, ReviewHolds, OneBusy, NothingMoved
    <3>3. CASE alone'
      <4>1. /\ Reviewed(categories', items', listings')
            /\ \A h, o \in Handlers : pc'[h] # "idle" /\ pc'[o] # "idle" => h = o
            /\ \A h \in Handlers : (pc[h] = "check" => Remains(req[h]))'
        BY <2>1, <3>1, <3>3, ReviewStep
      <4>2. ReviewHolds' /\ OneBusy'
        BY <4>1 DEF ReviewHolds, OneBusy
      <4>3. NothingMoved'
        BY <4>1 DEF NothingMoved, Remains
      <4> QED BY <3>1, <4>2, <4>3 DEF ReviewInv
    <3> QED BY <3>2, <3>3
  <2>2. ASSUME ReviewInv, UNCHANGED vars PROVE ReviewInv'
    <3>1. IInv'
      BY <2>2 DEF ReviewInv, vars, tables, IInv, TreeStands, TypeOK, RequestsInPlace, RequestsFound
    <3>2. ReviewHolds' /\ OneBusy'
      BY <2>2 DEF ReviewInv, vars, tables, ReviewHolds, OneBusy
    <3>3. NothingMoved'
      <4>1. ASSUME alone, NEW h \in Handlers, pc[h] = "check" PROVE Remains(req[h])'
        <5>1. Remains(req[h]) /\ UNCHANGED tables /\ req' = req
          BY <2>2, <4>1 DEF ReviewInv, NothingMoved, Remains, vars
        <5>2. PICK q : q = req[h]
          OBVIOUS
        <5>3. Remains(q)'
          BY <5>1, <5>2, AnswersStay
        <5> QED BY <5>1, <5>2, <5>3
      <4> QED BY <2>2, <4>1 DEF NothingMoved, Remains, vars
    <3> QED BY <3>1, <3>2, <3>3 DEF ReviewInv
  <2> QED BY <2>1, <2>2
<1> QED BY <1>1, <1>2, PTL DEF Spec

\* Whatever the tables and the requests, as long as these come one at a time the checks
\* that the services make before they write are enough: what a row hangs on is approved
\* and stays so, and no variant is offered twice (ReviewHolds, of assertUsable,
\* assertStatusChangeAllowed and assertUniqueVariant).
THEOREM ReviewHoldsAlways == Spec => []ReviewHolds
<1>1. ReviewInv => ReviewHolds
  BY DEF ReviewInv
<1> QED BY <1>1, ReviewAlways, PTL

LEMMA Findable ==
    ASSUME TypeOK, Tree, Reviewed(categories, items, listings), NEW l \in Storefront
    PROVE  LET i == listings[l].item
               c == items[i].category
               s == items[i].sub
           IN  /\ c \in Roots
               /\ categories[c].code # None =>
                      l \in OfCategory(categories[c].code) /\ c \in ByCode(categories[c].code)
               /\ s # None => s \in Children(c)
               /\ i \in PublicItems(c, s)
               /\ i \in Visible(items, listings[l].seller)
               /\ c \in Visible(categories, listings[l].seller)
               /\ l \in SideBySide(l) \cap ForSeller(listings[l].seller)
<1> DEFINE i == listings[l].item
           c == items[i].category
           s == items[i].sub
<1>1. l \in In(listings) /\ listings[l].status = "ACTIVE"
  BY DEF Storefront
<1>2. /\ i \in In(items) /\ items[i].owner \in {None, listings[l].seller} /\ items[i].status = "APPROVED"
  BY <1>1 DEF Tree, OwnOrCommon, Reviewed
<1>3. /\ c \in In(categories) /\ categories[c].parent = None /\ categories[c].owner = None
      /\ categories[c].status = "APPROVED"
  BY <1>2 DEF Tree, OnTheTree, TwoLevels, Reviewed
<1>4. s # None => s \in In(categories) /\ categories[s].status = "APPROVED" /\ categories[s].parent = c
  BY <1>2 DEF Tree, OnTheTree, Reviewed
<1>5. c \in Roots /\ (s # None => s \in Children(c))
  BY <1>3, <1>4 DEF Roots, Children, Approved
<1>6. l \in OfCategory(categories[c].code) /\ c \in ByCode(categories[c].code)
  BY <1>5 DEF OfCategory, ByCode
<1>7. i \in PublicItems(c, s)
  BY <1>2 DEF PublicItems
<1>8. i \in Visible(items, listings[l].seller) /\ c \in Visible(categories, listings[l].seller)
  BY <1>2, <1>3 DEF Visible
<1>9. l \in SideBySide(l) \cap ForSeller(listings[l].seller)
  BY <1>1 DEF SideBySide, ForSeller, Storefront
<1> QED BY <1>5, <1>6, <1>7, <1>8, <1>9

\* As long as requests come one at a time, what is for sale is on the screens that lead
\* to it and its seller sees what it hangs on, though the query of the storefront asks
\* neither for the status of the item nor for that of the category (EverythingIsFound,
\* of listings.findStorefront and the findVisibleFor of catalogue and categories).
THEOREM EverythingIsAlwaysFound == Spec => []EverythingIsFound
<1>1. ReviewInv => EverythingIsFound
  <2> SUFFICES ASSUME ReviewInv, alone
               PROVE  EverythingIsFound
    BY DEF EverythingIsFound
  <2>1. TypeOK /\ Tree /\ Reviewed(categories, items, listings)
    BY DEF ReviewInv, IInv, TreeStands, Tree, ReviewHolds
  <2> QED BY <2>1, Findable DEF EverythingIsFound
<1> QED BY <1>1, ReviewAlways, PTL
=============================================================================
