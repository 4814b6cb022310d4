--------------------------- MODULE Pricing_proofs ---------------------------
(***************************************************************************)
(* What resolvePrice promises for every cost, markup, set of tiers,        *)
(* rounding step, order of sources and set of promotions; and that the     *)
(* prices in the table are those, whatever requests write them, for any    *)
(* listings, promotions, requests, failures and restarts.                  *)
(***************************************************************************)
EXTENDS Pricing, PriceRules, FiniteSetTheorems, SequenceTheorems, WellFoundedInduction, TLAPS

(***************************************************************************)
(* Least and greatest.                                                     *)
(***************************************************************************)

LEMMA LeastNatural ==
    ASSUME NEW S \in SUBSET Nat, S # {}
    PROVE  \E m \in S : \A x \in S : m <= x
<1>1. PICK m \in S : \A x \in S : ~(<<x, m>> \in OpToRel(<, Nat))
  BY WFMin, NatLessThanWellFounded
<1>2. \A x \in S : ~(x < m)
  BY <1>1 DEF OpToRel
<1> QED  BY <1>2

\* A set of integers that is bounded, and not all of it negative, has a greatest element.
LEMMA BoundedHasGreatest ==
    ASSUME NEW S \in SUBSET Int, \E e \in S : e >= 0, \E b \in Nat : \A x \in S : x <= b
    PROVE  Greatest(S) \in S /\ \A x \in S : x <= Greatest(S)
<1>e. PICK e \in S : e >= 0
  OBVIOUS
<1>b. PICK b \in Nat : \A x \in S : x <= b
  OBVIOUS
<1> DEFINE Above == {n \in Nat : \A x \in S : x <= n}
<1>1. PICK m \in Above : \A n \in Above : m <= n
  <2>1. b \in Above
    BY <1>b
  <2> QED  BY <2>1, LeastNatural
<1>2. m \in S
  <2> SUFFICES ASSUME m \notin S PROVE FALSE
    OBVIOUS
  <2>1. \A x \in S : x <= m - 1
    BY <1>1
  <2>2. m # 0 /\ m \in Nat
    BY <1>1, <1>e
  <2>3. m - 1 \in Above
    BY <2>1, <2>2
  <2> QED  BY <1>1, <2>2, <2>3
<1>3. \E x \in S : \A y \in S : y <= x
  BY <1>1, <1>2
<1> QED  BY <1>3 DEF Greatest

LEMMA LargerType ==
    \A a, b \in Int : /\ Larger(a, b) \in Int
                      /\ Larger(a, b) >= a /\ Larger(a, b) >= b
                      /\ a \in Nat \/ b \in Nat => Larger(a, b) \in Nat
BY DEF Larger

\* Finitely many integers have a bound.
LEMMA FiniteHasBound ==
    \A n \in Nat : \A f \in [1..n -> Int] : \E b \in Nat : \A i \in 1..n : f[i] <= b
<1> DEFINE Bounded(n) == \A f \in [1..n -> Int] : \E b \in Nat : \A i \in 1..n : f[i] <= b
           Bad == {n \in Nat : ~Bounded(n)}
<1> SUFFICES ASSUME Bad # {} PROVE FALSE
  OBVIOUS
<1>1. PICK m \in Bad : \A n \in Bad : m <= n
  BY LeastNatural
<1>2. m \in Nat /\ m # 0
  OBVIOUS
<1>3. m - 1 \in Nat /\ ~(m <= m - 1)
  BY <1>2
<1>4. Bounded(m - 1)
  <2>1. m - 1 \notin Bad
    BY <1>1, <1>3
  <2> HIDE DEF Bounded
  <2> QED  BY <2>1, <1>3
<1>5. ASSUME NEW f \in [1..m -> Int]
      PROVE  \E b \in Nat : \A i \in 1..m : f[i] <= b
  <2> DEFINE g == [i \in 1..(m - 1) |-> f[i]]
  <2>1. g \in [1..(m - 1) -> Int]
    BY <1>2, <1>3
  <2>2. PICK c \in Nat : \A i \in 1..(m - 1) : g[i] <= c
    BY <1>4, <2>1
  <2>3. f[m] \in Int
    BY <1>2
  <2> DEFINE last == f[m]
             d == Larger(last, c)
  <2>4. d \in Nat /\ d >= c /\ d >= f[m]
    <3>1. last \in Int /\ c \in Int
      BY <2>3
    <3> HIDE DEF last
    <3>2. d \in Nat /\ d >= c /\ d >= last
      BY <3>1, LargerType
    <3> QED  BY <3>2 DEF last
  <2> HIDE DEF d
  <2>5. \A i \in 1..m : f[i] <= d
    <3> TAKE i \in 1..m
    <3>1. CASE i = m
      BY <3>1, <2>4
    <3>2. CASE i # m
      <4>1. i \in 1..(m - 1) /\ f[i] \in Int
        BY <3>2, <1>2
      <4>2. g[i] = f[i]
        BY <4>1
      <4>3. g[i] <= c
        BY <4>1, <2>2
      <4>4. f[i] <= c /\ c \in Int /\ d \in Int /\ d >= c
        BY <4>2, <4>3, <2>4
      <4> QED  BY <4>1, <4>4
    <3> QED  BY <3>1, <3>2
  <2> QED  BY <2>4, <2>5
<1> QED  BY <1>1, <1>5

-----------------------------------------------------------------------------
(***************************************************************************)
(* The markup.                                                             *)
(***************************************************************************)

LEMMA CeilDivType ==
    ASSUME NEW a \in Int, NEW by \in Nat, by > 0
    PROVE  CeilDiv(a, by) \in Int /\ (a >= 0 => CeilDiv(a, by) \in Nat)
<1>1. (a + by - 1) \div by \in Int
  OBVIOUS
<1>2. a >= 0 => (a + by - 1) \div by >= 0
  OBVIOUS
<1> QED  BY <1>1, <1>2 DEF CeilDiv

LEMMA ApplyBpsType ==
    ASSUME NEW a \in Int, NEW bps \in Nat
    PROVE  ApplyBps(a, bps) \in Int /\ (a >= 0 => ApplyBps(a, bps) \in Nat)
<1>1. a * (BPS + bps) \in Int
  BY DEF BPS
<1>2. a >= 0 => a * (BPS + bps) >= 0
  BY DEF BPS
<1>3. BPS \in Nat /\ BPS > 0
  BY DEF BPS
<1> QED  BY <1>1, <1>2, <1>3, CeilDivType DEF ApplyBps

LEMMA RoundUpType ==
    ASSUME NEW a \in Nat, NEW step \in Nat
    PROVE  RoundUp(a, step) \in Nat
<1>1. CASE step > 1
  <2>1. CeilDiv(a, step) \in Nat
    BY <1>1, CeilDivType
  <2> QED  BY <1>1, <2>1 DEF RoundUp
<1>2. CASE ~(step > 1)
  BY <1>2 DEF RoundUp
<1> QED  BY <1>1, <1>2

LEMMA TierIsTier ==
    ASSUME NEW tiers \in TierSet, NEW i \in 1..Len(tiers)
    PROVE  tiers[i] \in [minCost : Nat, markupBps : Nat]
BY ElementOfSeq DEF TierSet

LEMMA TierOfType ==
    ASSUME NEW cost \in Nat, NEW tiers \in TierSet, tiers # <<>>
    PROVE  TierOf(cost, tiers) \in [minCost : Nat, markupBps : Nat]
<1> DEFINE S == {1} \cup Entered(cost, tiers)
           top == Greatest(S)
<1>1. Len(tiers) \in Nat /\ Len(tiers) >= 1
  BY DEF TierSet
<1>2. S \in SUBSET Int /\ 1 \in S /\ \A x \in S : x <= Len(tiers)
  BY <1>1 DEF Entered
<1>3. Greatest(S) \in S
  <2>1. \E e \in S : e >= 0
    BY <1>2
  <2>2. \E b \in Nat : \A x \in S : x <= b
    BY <1>1, <1>2
  <2> HIDE DEF S
  <2> QED  BY <1>2, <2>1, <2>2, BoundedHasGreatest
<1>4. top \in 1..Len(tiers)
  BY <1>1, <1>3 DEF Entered
<1>5. TierOf(cost, tiers) = tiers[top]
  BY DEF TierOf
<1> HIDE DEF top
<1> QED  BY <1>4, <1>5, TierIsTier

LEMMA BaseMarkupType ==
    ASSUME NEW cost \in Nat, NEW tiers \in TierSet
    PROVE  BaseMarkup(cost, tiers) \in [price : Nat, markupBps : Nat]
<1>1. CASE tiers = <<>>
  BY <1>1 DEF BaseMarkup
<1>2. CASE tiers # <<>>
  <2> DEFINE bps == TierOf(cost, tiers).markupBps
             floor(i) == ApplyBps(tiers[i].minCost - 1, tiers[i - 1].markupBps)
             floors == {floor(i) : i \in Entered(cost, tiers)}
             S == {0} \cup floors
             own == ApplyBps(cost, bps)
  <2>1. bps \in Nat
    BY <1>2, TierOfType
  <2>2. ASSUME NEW i \in Entered(cost, tiers)
        PROVE  i \in 1..Len(tiers) /\ floor(i) \in Int
    <3>1. i \in 1..Len(tiers) /\ i - 1 \in 1..Len(tiers)
      <4>1. Len(tiers) \in Nat
        BY DEF TierSet
      <4>2. i \in 2..Len(tiers)
        BY DEF Entered
      <4> QED  BY <4>1, <4>2
    <3>2. /\ tiers[i] \in [minCost : Nat, markupBps : Nat]
          /\ tiers[i - 1] \in [minCost : Nat, markupBps : Nat]
      BY <3>1, TierIsTier
    <3>3. tiers[i].minCost - 1 \in Int /\ tiers[i - 1].markupBps \in Nat
      BY <3>2
    <3> QED  BY <3>1, <3>3, ApplyBpsType
  <2>3. PICK b \in Nat : \A x \in S : x <= b
    <3> DEFINE f == [i \in 1..Len(tiers) |-> IF i \in Entered(cost, tiers) THEN floor(i) ELSE 0]
    <3>1. Len(tiers) \in Nat /\ f \in [1..Len(tiers) -> Int]
      <4> HIDE DEF floor
      <4> QED  BY <2>2 DEF TierSet
    <3>2. PICK b \in Nat : \A i \in 1..Len(tiers) : f[i] <= b
      <4> HIDE DEF f
      <4> QED  BY <3>1, FiniteHasBound
    <3>3. ASSUME NEW x \in S
          PROVE  x <= b
      <4>1. CASE x = 0
        BY <4>1
      <4>2. CASE x # 0
        <5>1. PICK i \in Entered(cost, tiers) : x = floor(i)
          BY <4>2
        <5>2. f[i] = x /\ i \in 1..Len(tiers)
          <6> HIDE DEF floor
          <6> QED  BY <2>2, <5>1
        <5> HIDE DEF f
        <5> QED  BY <3>2, <5>2
      <4> QED  BY <4>1, <4>2
    <3> HIDE DEF S
    <3> QED  BY <3>3
  <2>4. S \in SUBSET Int
    <3> HIDE DEF floor
    <3> QED  BY <2>2
  <2>5. Greatest(S) \in Int
    <3>1. \E e \in S : e >= 0
      OBVIOUS
    <3> HIDE DEF S
    <3> QED  BY <2>3, <2>4, <3>1, BoundedHasGreatest
  <2>6. own \in Nat
    <3> HIDE DEF bps
    <3> QED  BY <2>1, ApplyBpsType
  <2>7. BaseMarkup(cost, tiers) = [price |-> Larger(own, Greatest(S)), markupBps |-> bps]
    BY <1>2 DEF BaseMarkup
  <2> HIDE DEF own, S, bps
  <2>8. Larger(own, Greatest(S)) \in Nat
    <3> DEFINE g == Greatest(S)
    <3>1. own \in Int /\ g \in Int
      BY <2>5, <2>6
    <3> HIDE DEF g
    <3>2. Larger(own, g) \in Nat
      BY <2>6, <3>1, LargerType
    <3> QED  BY <3>2 DEF g
  <2> QED  BY <2>1, <2>7, <2>8
<1> QED  BY <1>1, <1>2

\* A listing never costs less than it costs the shop.
LEMMA RegularPriceCoversCost ==
    ASSUME NEW target \in PriceTarget, NEW config \in PriceConfig, NEW custom \in BOOLEAN
    PROVE  /\ RegularPrice(target, config, custom) \in [price : Nat, markupBps : Nat]
           /\ RegularPrice(target, config, custom).price >= target.costPrice
<1> DEFINE raw == IF custom /\ target.customMarkupBps # None
                  THEN [price |-> ApplyBps(target.costPrice, target.customMarkupBps),
                        markupBps |-> target.customMarkupBps]
                  ELSE BaseMarkup(target.costPrice, config.markupTiers)
<1>1. target.costPrice \in Nat /\ config.markupTiers \in TierSet /\ config.roundingStep \in Nat
  <2>1. target.costPrice \in Nat
    BY DEF PriceTarget
  <2>2. config.markupTiers \in TierSet /\ config.roundingStep \in Nat
    BY DEF PriceConfig
  <2> QED  BY <2>1, <2>2
<1>2. raw \in [price : Nat, markupBps : Nat]
  <2>1. CASE custom /\ target.customMarkupBps # None
    <3>1. target.customMarkupBps \in Nat
      BY <2>1 DEF PriceTarget
    <3> DEFINE own == ApplyBps(target.costPrice, target.customMarkupBps)
    <3>2. own \in Nat
      <4> DEFINE a == target.costPrice
                 b == target.customMarkupBps
      <4>1. a \in Int /\ a >= 0 /\ b \in Nat
        BY <1>1, <3>1
      <4> HIDE DEF a, b
      <4>2. ApplyBps(a, b) \in Nat
        BY <4>1, ApplyBpsType
      <4> QED  BY <4>2 DEF a, b
    <3>3. raw = [price |-> own, markupBps |-> target.customMarkupBps]
      BY <2>1
    <3> HIDE DEF own, raw
    <3> QED  BY <3>1, <3>2, <3>3
  <2>2. CASE ~(custom /\ target.customMarkupBps # None)
    BY <1>1, <2>2, BaseMarkupType
  <2> QED  BY <2>1, <2>2
<1>3. RegularPrice(target, config, custom) =
        [raw EXCEPT !.price = Larger(RoundUp(raw.price, config.roundingStep), target.costPrice)]
  BY DEF RegularPrice
<1> HIDE DEF raw
<1>4. RoundUp(raw.price, config.roundingStep) \in Nat
  BY <1>1, <1>2, RoundUpType
<1> DEFINE top == Larger(RoundUp(raw.price, config.roundingStep), target.costPrice)
<1>5. top \in Nat /\ top >= target.costPrice
  BY <1>1, <1>4 DEF Larger
<1> HIDE DEF top
<1>6. /\ [raw EXCEPT !.price = top] \in [price : Nat, markupBps : Nat]
      /\ [raw EXCEPT !.price = top].price = top
  BY <1>2, <1>5
<1>7. RegularPrice(target, config, custom) = [raw EXCEPT !.price = top]
  BY <1>3 DEF top
<1> QED  BY <1>5, <1>6, <1>7

-----------------------------------------------------------------------------
(***************************************************************************)
(* Promotions and the answer.                                              *)
(***************************************************************************)

\* Of promotions some of which are open, the best is one, and no other is cheaper.
LEMMA BestIsOpen ==
    ASSUME NEW target \in PriceTarget, NEW offers \in SUBSET Offer, NEW now,
           Open(offers, now) # {}
    PROVE  LET best == BestPromotion(target, offers, now)
           IN  /\ best \in Open(offers, now)
               /\ \A q \in Open(offers, now) : PriceBy(target, best) <= PriceBy(target, q)
<1> DEFINE O == Open(offers, now)
           Prices == {PriceBy(target, p) : p \in O}
           Cheap(c) == {p \in O : PriceBy(target, p) = c}
           Ids(c) == {p.promotionId : p \in Cheap(c)}
<1>1. \A p \in O : p \in Offer /\ PriceBy(target, p) \in Nat /\ p.promotionId \in Nat
  BY DEF Open, Offer, PriceBy, Larger, PriceTarget
<1>2. PICK c \in Prices : \A x \in Prices : c <= x
  <2>1. Prices \in SUBSET Nat /\ Prices # {}
    BY <1>1
  <2> HIDE DEF Prices
  <2> QED  BY <2>1, LeastNatural
<1>3. PICK i \in Ids(c) : \A x \in Ids(c) : i <= x
  <2>1. Ids(c) \in SUBSET Nat /\ Ids(c) # {}
    BY <1>1, <1>2
  <2> HIDE DEF Ids
  <2> QED  BY <2>1, LeastNatural
<1>4. PICK p \in Cheap(c) : p.promotionId = i
  BY <1>3
<1>5. \A q \in O : \/ PriceBy(target, p) < PriceBy(target, q)
                   \/ PriceBy(target, p) = PriceBy(target, q) /\ p.promotionId <= q.promotionId
  <2> TAKE q \in O
  <2>1. PriceBy(target, p) = c /\ c <= PriceBy(target, q) /\ c \in Nat
    BY <1>1, <1>2, <1>4
  <2>2. CASE PriceBy(target, q) = c
    BY <2>1, <2>2, <1>3, <1>4
  <2>3. CASE PriceBy(target, q) # c
    BY <2>1, <2>3, <1>1
  <2> QED  BY <2>2, <2>3
<1> DEFINE Best(b) == \A q \in O : \/ PriceBy(target, b) < PriceBy(target, q)
                                   \/ PriceBy(target, b) = PriceBy(target, q) /\ b.promotionId <= q.promotionId
<1>6. p \in O /\ Best(p)
  BY <1>4, <1>5
<1>7. BestPromotion(target, offers, now) = CHOOSE b \in O : Best(b)
  BY DEF BestPromotion
<1> DEFINE best == BestPromotion(target, offers, now)
<1>8. best \in O /\ Best(best)
  <2> HIDE DEF O, Best
  <2> QED  BY <1>6, <1>7
<1>9. \A q \in O : PriceBy(target, best) <= PriceBy(target, q)
  <2> HIDE DEF best, O
  <2> QED  BY <1>1, <1>8
<1> QED  BY <1>8, <1>9

PriceAnswer == [price : Nat, oldPrice : Nat \cup {None}, promotionId : Nat \cup {None},
            source : Source, markupBps : Nat]

LEMMA PlainType ==
    ASSUME NEW regular \in [price : Nat, markupBps : Nat], NEW source \in Source
    PROVE  LET a == Plain(regular, source)
           IN  /\ a \in PriceAnswer
               /\ a.price = regular.price /\ a.oldPrice = None /\ a.promotionId = None
BY DEF Plain, PriceAnswer

LEMMA FirstSourceType ==
    ASSUME NEW target, NEW config \in PriceConfig, NEW offers, NEW now
    PROVE  LET source == FirstSource(target, config, offers, now)
           IN  source \in Source /\ Applies(source, target, config, offers, now)
<1> DEFINE order == config.order
           hits == {i \in DOMAIN order : Applies(order[i], target, config, offers, now)}
<1>1. order \in PriceOrder
  BY DEF PriceConfig
<1>2. /\ DOMAIN order = 1..3
      /\ order[3] = "BASE_MARKUP"
      /\ \A i \in 1..3 : order[i] \in Source
  BY <1>1 DEF PriceOrder, Source
<1>3. 3 \in hits
  BY <1>2 DEF Applies
<1>4. PICK i \in hits : \A j \in hits : i <= j
  <2>1. hits \in SUBSET Nat /\ hits # {}
    BY <1>2, <1>3
  <2> HIDE DEF hits
  <2> QED  BY <2>1, LeastNatural
<1> DEFINE least == CHOOSE k \in hits : \A j \in hits : k <= j
<1>5. least \in hits
  <2> HIDE DEF hits
  <2> QED  BY <1>4
<1>6. FirstSource(target, config, offers, now) = order[least]
  BY <1>3 DEF FirstSource
<1> HIDE DEF least
<1> QED  BY <1>2, <1>5, <1>6

\* price-engine.ts:128-133 and 154-162: whatever the tiers, the step, the order and
\* the promotions, a listing is never sold below its cost; there is a price struck
\* through iff there is a promotion, it is the higher one, and the promotion is one
\* that is open and cheaper for this listing than any other that is.
THEOREM ResolvedPrice ==
    ASSUME NEW target \in PriceTarget, NEW config \in PriceConfig,
           NEW offers \in SUBSET Offer, NEW now
    PROVE  LET a == ResolvePrice(target, config, offers, now)
           IN  /\ a \in PriceAnswer
               /\ a.price >= target.costPrice
               /\ a.oldPrice # None <=> a.promotionId # None
               /\ a.promotionId # None =>
                     /\ a.price < a.oldPrice
                     /\ \E p \in Open(offers, now) :
                           /\ a.promotionId = p.promotionId
                           /\ a.price = PriceBy(target, p)
                           /\ \A q \in Open(offers, now) :
                                 PriceBy(target, p) <= PriceBy(target, q)
<1> DEFINE regular == RegularPrice(target, config, TRUE)
           base == RegularPrice(target, config, FALSE)
           source == FirstSource(target, config, offers, now)
           best == BestPromotion(target, offers, now)
           a == ResolvePrice(target, config, offers, now)
           open == Open(offers, now)
<1>1. /\ regular \in [price : Nat, markupBps : Nat] /\ regular.price >= target.costPrice
      /\ base \in [price : Nat, markupBps : Nat] /\ base.price >= target.costPrice
  BY RegularPriceCoversCost
<1>2. source \in Source /\ Applies(source, target, config, offers, now)
  BY FirstSourceType
<1>3. None \notin Nat
  BY NoneIsNoNumber
<1>4. CASE source = "PROMOTION"
  <2>1. open # {} /\ PriceBy(target, best) < regular.price
    BY <1>2, <1>4 DEF Applies, PromotionApplies
  <2>2. best \in open /\ \A q \in open : PriceBy(target, best) <= PriceBy(target, q)
    BY <2>1, BestIsOpen
  <2>3. /\ best.promotionId \in Nat
        /\ PriceBy(target, best) \in Nat
        /\ PriceBy(target, best) >= target.costPrice
    <3>1. best.promotionId \in Nat /\ best.promoPrice \in Nat
      <4>1. best \in Offer
        BY <2>2 DEF Open
      <4> HIDE DEF best
      <4> QED  BY <4>1 DEF Offer
    <3>2. target.costPrice \in Nat
      BY DEF PriceTarget
    <3> HIDE DEF best
    <3>3. PriceBy(target, best) \in Nat /\ PriceBy(target, best) >= target.costPrice
      BY <3>1, <3>2 DEF PriceBy, Larger
    <3> QED  BY <3>1, <3>3
  <2>4. a = [price |-> PriceBy(target, best), oldPrice |-> regular.price,
             promotionId |-> best.promotionId, source |-> source,
             markupBps |-> regular.markupBps]
    BY <1>4 DEF ResolvePrice
  <2> HIDE DEF a, regular, base, source, best, open
  <2>5. a \in PriceAnswer /\ a.price >= target.costPrice
    BY <1>1, <1>2, <2>3, <2>4 DEF PriceAnswer
  <2>6. a.oldPrice # None /\ a.promotionId # None /\ a.price < a.oldPrice
    BY <1>1, <1>3, <2>1, <2>3, <2>4
  <2>7. a.promotionId = best.promotionId /\ a.price = PriceBy(target, best)
    BY <2>4
  <2> QED  BY <2>2, <2>5, <2>6, <2>7 DEF a, open
<1>5. CASE source # "PROMOTION"
  <2>1. PICK r \in {regular, base} : \E s \in Source : a = Plain(r, s)
    BY <1>5, <1>2 DEF ResolvePrice, Source
  <2>2. r \in [price : Nat, markupBps : Nat] /\ r.price >= target.costPrice
    BY <1>1
  <2>3. a \in PriceAnswer /\ a.price = r.price /\ a.oldPrice = None /\ a.promotionId = None
    BY <2>1, <2>2, PlainType
  <2> HIDE DEF a
  <2>4. a.price >= target.costPrice
    BY <2>2, <2>3
  <2> QED  BY <2>3, <2>4 DEF a
<1> QED  BY <1>4, <1>5

-----------------------------------------------------------------------------
(***************************************************************************)
(* A question whose cost rises (PriceRules): a dearer listing, a promotion *)
(* forgone, and what the panel says of the promotions.                     *)
(***************************************************************************)

\* The quotient of a division lies where the division says.
LEMMA CeilDivBounds ==
    ASSUME NEW a \in Int, NEW by \in Nat, by > 0
    PROVE  /\ CeilDiv(a, by) \in Int
           /\ by * CeilDiv(a, by) <= a + by - 1
           /\ a + by - 1 < by * CeilDiv(a, by) + by
<1> DEFINE n == a + by - 1
<1>1. n \in Int
  OBVIOUS
<1> HIDE DEF n
<1>2. n \div by \in Int /\ by * (n \div by) <= n /\ n < by * (n \div by) + by
  BY <1>1
<1> QED  BY <1>2 DEF CeilDiv, n

LEMMA ProductGrows ==
    ASSUME NEW m \in Nat, NEW x \in Int, NEW y \in Int, x <= y
    PROVE  x * m <= y * m
OBVIOUS

LEMMA CeilDivGrows ==
    ASSUME NEW a \in Int, NEW b \in Int, NEW by \in Nat, by > 0, a <= b
    PROVE  CeilDiv(a, by) <= CeilDiv(b, by)
<1> DEFINE p == CeilDiv(a, by)
           q == CeilDiv(b, by)
<1>1. /\ p \in Int /\ q \in Int
      /\ by * p <= a + by - 1 /\ b + by - 1 < by * q + by
  BY CeilDivBounds
<1> HIDE DEF p, q
<1>2. ASSUME q + 1 <= p
      PROVE  FALSE
  <2>1. (q + 1) * by <= p * by
    BY <1>1, <1>2, ProductGrows
  <2>2. (q + 1) * by = by * q + by /\ p * by = by * p
    BY <1>1
  <2>3. by * q \in Int /\ by * p \in Int
    BY <1>1
  <2> QED  BY <1>1, <2>1, <2>2, <2>3
<1> QED  BY <1>1, <1>2 DEF p, q

LEMMA ApplyBpsGrows ==
    ASSUME NEW a \in Int, NEW b \in Int, NEW bps \in Nat, a <= b
    PROVE  ApplyBps(a, bps) <= ApplyBps(b, bps)
<1>1. BPS \in Nat /\ BPS > 0 /\ BPS + bps \in Nat
  BY DEF BPS
<1>2. /\ a * (BPS + bps) \in Int /\ b * (BPS + bps) \in Int
      /\ a * (BPS + bps) <= b * (BPS + bps)
  BY <1>1, ProductGrows
<1> QED  BY <1>1, <1>2, CeilDivGrows DEF ApplyBps

LEMMA RoundUpGrows ==
    ASSUME NEW a \in Nat, NEW b \in Nat, NEW step \in Nat, a <= b
    PROVE  RoundUp(a, step) <= RoundUp(b, step)
<1>1. CASE step > 1
  <2>1. /\ CeilDiv(a, step) \in Int /\ CeilDiv(b, step) \in Int
        /\ CeilDiv(a, step) <= CeilDiv(b, step)
    BY <1>1, CeilDivType, CeilDivGrows
  <2>2. CeilDiv(a, step) * step <= CeilDiv(b, step) * step
    BY <2>1, ProductGrows
  <2> QED  BY <1>1, <2>2 DEF RoundUp
<1>2. CASE ~(step > 1)
  BY <1>2 DEF RoundUp
<1> QED  BY <1>1, <1>2

\* The tiers a cost enters are the first few, and a greater cost enters them too.
LEMMA EnteredGrows ==
    ASSUME NEW tiers \in TierSet, NEW low \in Nat, NEW high \in Nat, low <= high
    PROVE  /\ Entered(low, tiers) \subseteq Entered(high, tiers)
           /\ Entered(high, tiers) \subseteq 2..Len(tiers)
           /\ \A i \in Entered(high, tiers) : \A j \in 2..i : j \in Entered(high, tiers)
<1>1. Len(tiers) \in Nat
  BY DEF TierSet
<1>2. \A j \in 2..Len(tiers) : tiers[j].minCost \in Nat
  <2> SUFFICES ASSUME NEW j \in 2..Len(tiers) PROVE tiers[j].minCost \in Nat
    OBVIOUS
  <2>1. j \in 1..Len(tiers)
    BY <1>1
  <2> QED  BY <2>1, TierIsTier
<1>3. ASSUME NEW i \in Entered(low, tiers)
      PROVE  i \in Entered(high, tiers)
  <2>1. i \in 2..Len(tiers) /\ \A j \in 2..i : tiers[j].minCost <= low
    BY DEF Entered
  <2>2. ASSUME NEW j \in 2..i
        PROVE  tiers[j].minCost <= high
    <3>1. j \in 2..Len(tiers)
      BY <1>1, <2>1
    <3> QED  BY <1>2, <2>1, <3>1
  <2> QED  BY <2>1, <2>2 DEF Entered
<1>4. ASSUME NEW i \in Entered(high, tiers), NEW j \in 2..i
      PROVE  j \in Entered(high, tiers)
  <2>1. i \in 2..Len(tiers) /\ \A k \in 2..i : tiers[k].minCost <= high
    BY DEF Entered
  <2>2. j \in 2..Len(tiers) /\ \A k \in 2..j : k \in 2..i
    BY <1>1, <2>1
  <2> QED  BY <2>1, <2>2 DEF Entered
<1> QED  BY <1>3, <1>4 DEF Entered

\* What the last tiyin of the tier below costs.
FloorOf(tiers, i) == ApplyBps(tiers[i].minCost - 1, tiers[i - 1].markupBps)

\* The price of the base markup is the greatest of the tier's own and of the floors
\* of the tiers entered.
LEMMA BaseMarkupIs ==
    ASSUME NEW cost \in Nat, NEW tiers \in TierSet, tiers # <<>>
    PROVE  LET price == BaseMarkup(cost, tiers).price
               E == Entered(cost, tiers)
               own(k) == ApplyBps(cost, tiers[k].markupBps)
           IN  /\ price \in Nat
               /\ \A i \in E : FloorOf(tiers, i) <= price
               /\ \E k \in {1} \cup E :
                     /\ \A i \in {1} \cup E : i <= k
                     /\ own(k) <= price
                     /\ price \in {own(k), 0} \cup {FloorOf(tiers, i) : i \in E}
<1> DEFINE E == Entered(cost, tiers)
           tops == {1} \cup E
           k == Greatest(tops)
           floors == {FloorOf(tiers, i) : i \in E}
           S == {0} \cup floors
           own == ApplyBps(cost, tiers[k].markupBps)
           g == Greatest(S)
<1>1. Len(tiers) \in Nat /\ Len(tiers) >= 1 /\ E \subseteq 2..Len(tiers)
  BY DEF TierSet, Entered
<1>2. k \in tops /\ \A i \in tops : i <= k
  <2>1. tops \in SUBSET Int /\ 1 \in tops
    BY <1>1
  <2>2. Len(tiers) \in Nat /\ \A x \in tops : x <= Len(tiers)
    BY <1>1
  <2>3. 1 >= 0
    OBVIOUS
  <2> HIDE DEF tops
  <2>4. \E b \in Nat : \A x \in tops : x <= b
    BY <2>2
  <2>5. \E e \in tops : e >= 0
    BY <2>1, <2>3
  <2> QED  BY <2>1, <2>4, <2>5, BoundedHasGreatest
<1>3. ASSUME NEW i \in E
      PROVE  FloorOf(tiers, i) \in Int
  <2>1. i \in 1..Len(tiers) /\ i - 1 \in 1..Len(tiers)
    BY <1>1
  <2>2. tiers[i].minCost - 1 \in Int /\ tiers[i - 1].markupBps \in Nat
    BY <2>1, TierIsTier
  <2> QED  BY <2>2, ApplyBpsType DEF FloorOf
<1>4. g \in S /\ \A x \in S : x <= g
  <2> DEFINE f == [i \in 1..Len(tiers) |-> IF i \in E THEN FloorOf(tiers, i) ELSE 0]
  <2>1. Len(tiers) \in Nat /\ f \in [1..Len(tiers) -> Int]
    BY <1>1, <1>3
  <2>2. PICK b \in Nat : \A i \in 1..Len(tiers) : f[i] <= b
    <3> HIDE DEF f
    <3> QED  BY <2>1, FiniteHasBound
  <2>3. ASSUME NEW x \in S
        PROVE  x <= b
    <3>1. CASE x = 0
      BY <3>1
    <3>2. ASSUME NEW i \in E, x = FloorOf(tiers, i)
          PROVE  x <= b
      <4>1. f[i] = x /\ i \in 1..Len(tiers)
        BY <1>1, <3>2
      <4> HIDE DEF f
      <4> QED  BY <2>2, <4>1
    <3> QED  BY <3>1, <3>2
  <2>4. S \in SUBSET Int
    BY <1>3
  <2>5. (\E e \in S : e >= 0) /\ \E c \in Nat : \A x \in S : x <= c
    <3>1. 0 \in S
      OBVIOUS
    <3> HIDE DEF S
    <3> QED  BY <2>3, <3>1
  <2> HIDE DEF S
  <2> QED  BY <2>4, <2>5, BoundedHasGreatest
<1>5. own \in Nat
  <2>1. k \in 1..Len(tiers)
    <3>1. tops \subseteq 1..Len(tiers)
      BY <1>1
    <3> HIDE DEF tops, k
    <3> QED  BY <1>2, <3>1
  <2> HIDE DEF k
  <2> DEFINE b == tiers[k].markupBps
  <2>2. b \in Nat /\ cost \in Int /\ cost >= 0
    BY <2>1, TierIsTier
  <2> HIDE DEF b
  <2>3. ApplyBps(cost, b) \in Nat
    BY <2>2, ApplyBpsType
  <2> QED  BY <2>3 DEF b
<1>6. BaseMarkup(cost, tiers).price = Larger(own, g)
  BY DEF BaseMarkup, TierOf, FloorOf
<1>7. g \in Int
  BY <1>3, <1>4
<1> HIDE DEF k, g, own
<1>8. Larger(own, g) \in {own, g} /\ Larger(own, g) >= own /\ Larger(own, g) >= g /\ Larger(own, g) \in Nat
  BY <1>5, <1>7 DEF Larger
<1>9. /\ BaseMarkup(cost, tiers).price \in Nat
      /\ \A i \in E : FloorOf(tiers, i) <= BaseMarkup(cost, tiers).price
  <2> SUFFICES ASSUME NEW i \in E PROVE FloorOf(tiers, i) <= Larger(own, g)
    BY <1>6, <1>8
  <2>1. FloorOf(tiers, i) <= g /\ FloorOf(tiers, i) \in Int
    BY <1>3, <1>4
  <2> QED  BY <1>7, <1>8, <2>1
<1>10. /\ k \in {1} \cup E /\ \A i \in {1} \cup E : i <= k
       /\ own <= BaseMarkup(cost, tiers).price
       /\ BaseMarkup(cost, tiers).price \in {own, 0} \cup floors
  BY <1>2, <1>4, <1>5, <1>6, <1>8
<1> QED  BY <1>9, <1>10 DEF own

\* Of two costs the greater has the greater price, or the same, whichever tiers lie
\* between them: where a tier with a smaller percent begins, its floor holds.
LEMMA BaseMarkupGrows ==
    ASSUME NEW low \in Nat, NEW high \in Nat, low <= high, NEW tiers \in TierSet
    PROVE  BaseMarkup(low, tiers).price <= BaseMarkup(high, tiers).price
<1>1. CASE tiers = <<>>
  BY <1>1 DEF BaseMarkup
<1>2. CASE tiers # <<>>
  <2> DEFINE p == BaseMarkup(low, tiers).price
             q == BaseMarkup(high, tiers).price
             D == Entered(low, tiers)
             E == Entered(high, tiers)
             own(c, k) == ApplyBps(c, tiers[k].markupBps)
  <2>1. PICK k \in {1} \cup D :
           /\ \A i \in {1} \cup D : i <= k
           /\ p \in {own(low, k), 0} \cup {FloorOf(tiers, i) : i \in D}
    BY <1>2, BaseMarkupIs
  <2>2. PICK m \in {1} \cup E :
           /\ \A i \in {1} \cup E : i <= m
           /\ own(high, m) <= q
    BY <1>2, BaseMarkupIs
  <2>3. p \in Nat /\ q \in Nat /\ \A i \in E : FloorOf(tiers, i) <= q
    BY <1>2, BaseMarkupIs
  <2>4. D \subseteq E /\ E \subseteq 2..Len(tiers) /\ \A i \in E : \A j \in 2..i : j \in E
    BY EnteredGrows
  <2>5. Len(tiers) \in Nat /\ 1 \in 1..Len(tiers)
    BY <1>2 DEF TierSet
  <2>6. k \in 1..Len(tiers) /\ m \in 1..Len(tiers) /\ k <= m
    BY <2>1, <2>2, <2>4, <2>5
  <2>7. own(low, k) <= q
    <3>1. /\ tiers[k].markupBps \in Nat /\ tiers[m].markupBps \in Nat
          /\ own(low, k) \in Int /\ own(high, m) \in Int
      <4>1. /\ tiers[k].markupBps \in Nat /\ tiers[m].markupBps \in Nat
            /\ low \in Int /\ high \in Int
        BY <2>6, TierIsTier
      <4> DEFINE b == tiers[k].markupBps
                 c == tiers[m].markupBps
      <4> HIDE DEF b, c
      <4>2. ApplyBps(low, b) \in Int /\ ApplyBps(high, c) \in Int
        BY <4>1, ApplyBpsType DEF b, c
      <4> QED  BY <4>1, <4>2 DEF b, c
    <3>2. CASE k = m
      <4>1. own(low, k) <= own(high, k)
        <5> DEFINE b == tiers[k].markupBps
        <5>1. b \in Nat /\ low \in Int /\ high \in Int
          BY <3>1
        <5> HIDE DEF b
        <5>2. ApplyBps(low, b) <= ApplyBps(high, b)
          BY <5>1, ApplyBpsGrows
        <5> QED  BY <5>2 DEF b
      <4> QED  BY <2>2, <2>3, <3>1, <3>2, <4>1
    \* The tier after the last the lesser cost enters begins above it.
    <3>3. CASE k # m
      <4>1. k + 1 \in 2..m /\ m \in E
        BY <2>2, <2>6, <3>3
      <4>2. k + 1 \in E /\ k + 1 \notin D /\ k + 1 \in 1..Len(tiers)
        BY <2>1, <2>4, <2>5, <2>6, <4>1
      <4>3. ~(tiers[k + 1].minCost <= low)
        <5>1. \A j \in 2..(k + 1) : j = k + 1 \/ j \in 2..k
          BY <2>6
        <5>2. \A j \in 2..k : tiers[j].minCost <= low
          BY <2>1 DEF Entered
        <5>3. k + 1 \in 2..Len(tiers)
          BY <2>4, <4>2
        <5> QED  BY <4>2, <5>1, <5>2, <5>3 DEF Entered
      <4>4. tiers[k + 1].minCost \in Nat /\ low <= tiers[k + 1].minCost - 1
        <5>1. tiers[k + 1].minCost \in Nat
          BY <4>2, TierIsTier
        <5> QED  BY <4>3, <5>1
      <4>5. FloorOf(tiers, k + 1) = ApplyBps(tiers[k + 1].minCost - 1, tiers[k].markupBps)
        <5>1. k + 1 - 1 = k
          BY <2>6
        <5> QED  BY <5>1 DEF FloorOf
      <4>6. own(low, k) <= FloorOf(tiers, k + 1) /\ FloorOf(tiers, k + 1) \in Int
        <5> DEFINE c == tiers[k + 1].minCost - 1
                   b == tiers[k].markupBps
        <5>1. c \in Int /\ b \in Nat /\ low <= c
          BY <3>1, <4>4
        <5> HIDE DEF c, b
        <5>2. ApplyBps(low, b) <= ApplyBps(c, b) /\ ApplyBps(c, b) \in Int
          BY <5>1, ApplyBpsGrows, ApplyBpsType
        <5> QED  BY <4>5, <5>2 DEF c, b
      <4> QED  BY <2>3, <3>1, <4>2, <4>6
    <3> QED  BY <3>2, <3>3
  <2>8. \A i \in D : FloorOf(tiers, i) <= q
    BY <2>3, <2>4
  <2> HIDE DEF p, q, own, D, E
  <2>9. p <= q
    BY <2>1, <2>3, <2>7, <2>8
  <2> QED  BY <2>9 DEF p, q
<1> QED  BY <1>1, <1>2

\* What a listing costs before it is rounded up.
RawPrice(target, config) ==
    IF target.customMarkupBps # None THEN ApplyBps(target.costPrice, target.customMarkupBps)
    ELSE BaseMarkup(target.costPrice, config.markupTiers).price

LEMMA RegularPriceIs ==
    ASSUME NEW target \in PriceTarget, NEW config \in PriceConfig
    PROVE  /\ RawPrice(target, config) \in Nat
           /\ RegularPrice(target, config, TRUE).price =
                 Larger(RoundUp(RawPrice(target, config), config.roundingStep), target.costPrice)
<1> DEFINE raw == IF TRUE /\ target.customMarkupBps # None
                  THEN [price |-> ApplyBps(target.costPrice, target.customMarkupBps),
                        markupBps |-> target.customMarkupBps]
                  ELSE BaseMarkup(target.costPrice, config.markupTiers)
           top == Larger(RoundUp(raw.price, config.roundingStep), target.costPrice)
<1>1. /\ target.costPrice \in Nat /\ target.customMarkupBps \in Nat \cup {None}
      /\ config.markupTiers \in TierSet /\ config.roundingStep \in Nat
  <2>1. target.costPrice \in Nat /\ target.customMarkupBps \in Nat \cup {None}
    BY DEF PriceTarget
  <2>2. config.markupTiers \in TierSet /\ config.roundingStep \in Nat
    BY DEF PriceConfig
  <2> QED  BY <2>1, <2>2
<1>2. raw \in [price : Nat, markupBps : Nat] /\ raw.price = RawPrice(target, config)
  <2>1. CASE target.customMarkupBps # None
    <3> DEFINE a == target.costPrice
               b == target.customMarkupBps
               own == ApplyBps(a, b)
    <3>1. a \in Int /\ a >= 0 /\ b \in Nat
      BY <1>1, <2>1
    <3>2. raw = [price |-> own, markupBps |-> b] /\ RawPrice(target, config) = own
      BY <2>1 DEF RawPrice
    <3> HIDE DEF a, b, raw
    <3>3. own \in Nat
      BY <3>1, ApplyBpsType
    <3> HIDE DEF own
    <3> QED  BY <3>1, <3>2, <3>3
  <2>2. CASE target.customMarkupBps = None
    <3>1. raw = BaseMarkup(target.costPrice, config.markupTiers) /\ RawPrice(target, config) = raw.price
      BY <2>2 DEF RawPrice
    <3> HIDE DEF raw
    <3> QED  BY <1>1, <3>1, BaseMarkupType
  <2> QED  BY <2>1, <2>2
<1>3. RegularPrice(target, config, TRUE) = [raw EXCEPT !.price = top]
  BY DEF RegularPrice
<1> HIDE DEF raw, top
<1>4. [raw EXCEPT !.price = top].price = top
  BY <1>2
<1>5. RegularPrice(target, config, TRUE).price = top /\ RawPrice(target, config) \in Nat
  BY <1>2, <1>3, <1>4
<1> QED  BY <1>2, <1>5 DEF top

\* The same of the price that is asked: a markup, the rounding and the cost grow with it.
LEMMA RegularPriceGrows ==
    ASSUME NEW a \in PriceTarget, NEW b \in PriceTarget, NEW config \in PriceConfig,
           a.costPrice <= b.costPrice, a.customMarkupBps = b.customMarkupBps
    PROVE  RegularPrice(a, config, TRUE).price <= RegularPrice(b, config, TRUE).price
<1> DEFINE step == config.roundingStep
           x == RawPrice(a, config)
           y == RawPrice(b, config)
           low == a.costPrice
           high == b.costPrice
<1>1. low \in Nat /\ high \in Nat /\ low <= high /\ a.customMarkupBps \in Nat \cup {None}
  BY DEF PriceTarget
<1>2. config.markupTiers \in TierSet /\ step \in Nat
  BY DEF PriceConfig
<1>3. /\ x \in Nat /\ y \in Nat
      /\ RegularPrice(a, config, TRUE).price = Larger(RoundUp(x, step), low)
      /\ RegularPrice(b, config, TRUE).price = Larger(RoundUp(y, step), high)
  BY RegularPriceIs
<1>4. x <= y
  <2>1. CASE a.customMarkupBps # None
    <3> DEFINE bps == a.customMarkupBps
    <3>1. x = ApplyBps(low, bps) /\ y = ApplyBps(high, bps)
      BY <2>1 DEF RawPrice
    <3>2. bps \in Nat /\ low \in Int /\ high \in Int
      BY <1>1, <2>1
    <3> HIDE DEF x, y, low, high, bps
    <3> QED  BY <1>1, <3>1, <3>2, ApplyBpsGrows
  <2>2. CASE a.customMarkupBps = None
    <3> DEFINE tiers == config.markupTiers
    <3>1. x = BaseMarkup(low, tiers).price /\ y = BaseMarkup(high, tiers).price
      BY <2>2 DEF RawPrice
    <3> HIDE DEF x, y, low, high, tiers
    <3> QED  BY <1>1, <1>2, <3>1, BaseMarkupGrows DEF tiers
  <2> QED  BY <2>1, <2>2
<1> HIDE DEF x, y, low, high, step
<1>5. /\ RoundUp(x, step) \in Nat /\ RoundUp(y, step) \in Nat
      /\ RoundUp(x, step) <= RoundUp(y, step)
  BY <1>2, <1>3, <1>4, RoundUpType, RoundUpGrows
<1>6. Larger(RoundUp(x, step), low) <= Larger(RoundUp(y, step), high)
  BY <1>1, <1>5 DEF Larger
<1> QED  BY <1>3, <1>6

\* A question stays one, and of it only the cost moves.
PriceTyped ==
    /\ question \in Question
    /\ OneOfEach(question.promotions)
    /\ \A p \in question.promotions : PeriodIsRight(p.startsAt, p.endsAt)

LEMMA RaisedIs ==
    ASSUME NEW q \in Question
    PROVE  LET r == [q EXCEPT !.target.costPrice = @ + 1]
           IN  /\ r \in Question
               /\ r.config = q.config /\ r.promotions = q.promotions
               /\ r.target.costPrice = q.target.costPrice + 1
               /\ r.target.customMarkupBps = q.target.customMarkupBps
<1> DEFINE t == q.target
           u == [t EXCEPT !.costPrice = @ + 1]
           r == [q EXCEPT !.target.costPrice = @ + 1]
<1>1. /\ t \in PriceTarget /\ q.config \in PriceConfig /\ q.promotions \in SUBSET Advertised
      /\ q = [target |-> t, config |-> q.config, promotions |-> q.promotions]
  BY DEF Question
<1>2. /\ u \in PriceTarget /\ u.costPrice = t.costPrice + 1
      /\ u.customMarkupBps = t.customMarkupBps
  <2> HIDE DEF t
  <2> QED  BY <1>1 DEF PriceTarget
<1>3. r = [q EXCEPT !.target = u]
  OBVIOUS
<1>4. r = [target |-> u, config |-> q.config, promotions |-> q.promotions]
  <2> HIDE DEF t, u, r
  <2>1. [q EXCEPT !.target = u] = [target |-> u, config |-> q.config, promotions |-> q.promotions]
    BY <1>1
  <2> QED  BY <1>3, <2>1
<1> HIDE DEF u, r
<1>5. /\ r \in Question /\ r.target = u
      /\ r.config = q.config /\ r.promotions = q.promotions
  BY <1>1, <1>2, <1>4 DEF Question
<1> QED  BY <1>2, <1>5 DEF r

LEMMA PriceTypedAlways == PriceSpec => []PriceTyped
<1>1. PriceInit => PriceTyped
  BY QuestionsAssumption, PeriodsAssumption DEF PriceInit, PriceTyped
<1>2. PriceTyped /\ [RaiseCost]_question => PriceTyped'
  BY RaisedIs DEF PriceTyped, RaiseCost
<1> QED  BY <1>1, <1>2, PTL DEF PriceSpec

\* price-engine.ts:82-87: a listing that costs the shop more is not cheaper in the
\* storefront, whatever tiers, percents and rounding the settings hold.
THEOREM DearerIsNotCheaper == PriceSpec => DearerCostsNoLess
<1>1. ASSUME PriceTyped, [RaiseCost]_question
      PROVE  [Regular(question') >= Regular(question)]_question
  <2>1. CASE RaiseCost
    <3>1. /\ question \in Question /\ question' \in Question
          /\ question'.config = question.config
          /\ question'.target.costPrice = question.target.costPrice + 1
          /\ question'.target.customMarkupBps = question.target.customMarkupBps
      BY <1>1, <2>1, RaisedIs DEF PriceTyped, RaiseCost
    <3> DEFINE a == question.target
               b == question'.target
               c == question.config
    <3>2. a \in PriceTarget /\ b \in PriceTarget /\ c \in PriceConfig
      BY <3>1 DEF Question
    <3>3. a.costPrice <= b.costPrice /\ a.customMarkupBps = b.customMarkupBps
      BY <3>1, <3>2 DEF PriceTarget
    <3>4. Regular(question) = RegularPrice(a, c, TRUE).price
          /\ Regular(question') = RegularPrice(b, c, TRUE).price
      BY <3>1 DEF Regular
    <3> HIDE DEF a, b, c
    <3>5. /\ RegularPrice(a, c, TRUE).price \in Nat /\ RegularPrice(b, c, TRUE).price \in Nat
          /\ RegularPrice(a, c, TRUE).price <= RegularPrice(b, c, TRUE).price
      <4>1. /\ RegularPrice(a, c, TRUE) \in [price : Nat, markupBps : Nat]
            /\ RegularPrice(b, c, TRUE) \in [price : Nat, markupBps : Nat]
        BY <3>2, RegularPriceCoversCost
      <4> QED  BY <3>2, <3>3, <4>1, RegularPriceGrows
    <3> QED  BY <3>4, <3>5
  <2>2. CASE UNCHANGED question
    BY <2>2
  <2> QED  BY <1>1, <2>1, <2>2
<1>2. PriceTyped /\ [RaiseCost]_question => [Regular(question') >= Regular(question)]_question
  BY <1>1
<1> QED  BY <1>2, PriceTypedAlways, PTL DEF PriceSpec, DearerCostsNoLess

\* The source of a price is the first that applies.
LEMMA NoSourceIsPassed ==
    ASSUME NEW target \in PriceTarget, NEW config \in PriceConfig,
           NEW offers \in SUBSET Offer, NEW now
    PROVE  LET source == FirstSource(target, config, offers, now)
               passed(s) == ~Applies(s, target, config, offers, now)
           IN  /\ source = "BASE_MARKUP" => passed("PROMOTION") /\ passed("LISTING_MARKUP")
               /\ source = "LISTING_MARKUP" =>
                     config.order[1] = "LISTING_MARKUP" \/ passed("PROMOTION")
<1> DEFINE order == config.order
           A(s) == Applies(s, target, config, offers, now)
           hits == {i \in DOMAIN order : A(order[i])}
           least == CHOOSE k \in hits : \A j \in hits : k <= j
           source == FirstSource(target, config, offers, now)
<1>1. order \in PriceOrder
  BY DEF PriceConfig
<1>2. /\ DOMAIN order = 1..3
      /\ order[3] = "BASE_MARKUP"
      /\ \/ order[1] = "PROMOTION" /\ order[2] = "LISTING_MARKUP"
         \/ order[1] = "LISTING_MARKUP" /\ order[2] = "PROMOTION"
  BY <1>1 DEF PriceOrder
<1>3. 3 \in hits
  BY <1>2 DEF Applies
<1>4. least \in hits /\ \A j \in hits : least <= j
  <2>1. hits \in SUBSET Nat /\ hits # {}
    BY <1>2, <1>3
  <2> HIDE DEF hits
  <2>2. PICK i \in hits : \A j \in hits : i <= j
    BY <2>1, LeastNatural
  <2> QED  BY <2>2
<1>5. source = order[least]
  BY <1>3 DEF FirstSource
<1> HIDE DEF least, source, A, order
<1>6. least \in 1..3 /\ \A j \in 1..3 : j < least => ~A(order[j])
  BY <1>2, <1>4
<1>7. /\ source = "BASE_MARKUP" => ~A("PROMOTION") /\ ~A("LISTING_MARKUP")
      /\ source = "LISTING_MARKUP" => order[1] = "LISTING_MARKUP" \/ ~A("PROMOTION")
  <2>1. CASE least = 1
    BY <1>2, <1>5, <2>1
  <2>2. CASE least = 2
    BY <1>2, <1>5, <1>6, <2>2
  <2>3. CASE least = 3
    <3>1. ~A(order[1]) /\ ~A(order[2]) /\ source = "BASE_MARKUP"
      BY <1>2, <1>5, <1>6, <2>3
    <3> QED  BY <1>2, <3>1
  <2> QED  BY <1>6, <2>1, <2>2, <2>3
<1> QED  BY <1>7 DEF source, order, A

\* A price without a promotion: none would be lower, or a markup goes first.
LEMMA PromotionForgone ==
    ASSUME NEW target \in PriceTarget, NEW config \in PriceConfig,
           NEW offers \in SUBSET Offer, NEW now,
           ResolvePrice(target, config, offers, now).promotionId = None
    PROVE  \/ \A p \in Open(offers, now) :
                 PriceBy(target, p) >= ResolvePrice(target, config, offers, now).price
           \/ config.order[1] = "LISTING_MARKUP" /\ target.customMarkupBps # None
<1> DEFINE regular == RegularPrice(target, config, TRUE)
           base == RegularPrice(target, config, FALSE)
           source == FirstSource(target, config, offers, now)
           best == BestPromotion(target, offers, now)
           a == ResolvePrice(target, config, offers, now)
           open == Open(offers, now)
<1>1. regular \in [price : Nat, markupBps : Nat] /\ base \in [price : Nat, markupBps : Nat]
  BY RegularPriceCoversCost
<1>2. source \in Source /\ Applies(source, target, config, offers, now)
  BY FirstSourceType
<1>3. \A p \in open : PriceBy(target, p) \in Nat
  BY DEF Open, Offer, PriceBy, Larger, PriceTarget
<1>4. source # "PROMOTION"
  <2> SUFFICES ASSUME source = "PROMOTION" PROVE FALSE
    OBVIOUS
  <2>1. open # {}
    BY <1>2 DEF Applies, PromotionApplies
  <2>2. best \in open
    BY <2>1, BestIsOpen
  <2>3. best \in Offer
    BY <2>2 DEF Open
  <2>4. a = [price |-> PriceBy(target, best), oldPrice |-> regular.price,
             promotionId |-> best.promotionId, source |-> source,
             markupBps |-> regular.markupBps]
    BY DEF ResolvePrice
  <2> HIDE DEF a, best, regular, source
  <2>5. a.promotionId = best.promotionId /\ best.promotionId \in Nat
    BY <2>3, <2>4 DEF Offer
  <2> QED  BY <2>5, NoneIsNoNumber DEF a
\* The regular price, where no promotion is below it.
<1>5. ASSUME ~PromotionApplies(target, config, offers, now), a.price = regular.price
      PROVE  \A p \in open : PriceBy(target, p) >= a.price
  <2>1. CASE open = {}
    BY <2>1
  <2>2. CASE open # {}
    <3>1. best \in open /\ \A q \in open : PriceBy(target, best) <= PriceBy(target, q)
      BY <2>2, BestIsOpen
    <3>2. ~(PriceBy(target, best) < regular.price)
      BY <1>5, <2>2 DEF PromotionApplies
    <3> HIDE DEF a, best, regular, open
    <3>3. PriceBy(target, best) \in Nat /\ regular.price \in Nat
      BY <1>1, <1>3, <3>1
    <3> QED  BY <1>3, <1>5, <3>1, <3>2, <3>3
  <2> QED  BY <2>1, <2>2
<1>6. CASE source = "LISTING_MARKUP"
  <2>1. target.customMarkupBps # None
    BY <1>2, <1>6 DEF Applies
  <2>2. config.order[1] = "LISTING_MARKUP" \/ ~PromotionApplies(target, config, offers, now)
    BY <1>6, NoSourceIsPassed DEF Applies
  <2>3. a = Plain(regular, source)
    BY <1>6 DEF ResolvePrice
  <2>4. a.price = regular.price
    BY <2>3 DEF Plain
  <2> QED  BY <1>5, <2>1, <2>2, <2>4
<1>7. CASE source = "BASE_MARKUP"
  <2>1. ~PromotionApplies(target, config, offers, now) /\ target.customMarkupBps = None
    <3>1. /\ ~Applies("PROMOTION", target, config, offers, now)
          /\ ~Applies("LISTING_MARKUP", target, config, offers, now)
      BY <1>7, NoSourceIsPassed
    <3> QED  BY <3>1 DEF Applies
  <2>2. base = regular
    <3> DEFINE raw == BaseMarkup(target.costPrice, config.markupTiers)
    <3>1. base = [raw EXCEPT !.price = Larger(RoundUp(raw.price, config.roundingStep), target.costPrice)]
      BY DEF RegularPrice
    <3>2. target.customMarkupBps = None
      BY <2>1
    <3>3. ASSUME NEW x, NEW y, NEW c, c = None
          PROVE  (IF TRUE /\ c # None THEN x ELSE y) = y
      BY <3>3
    <3>4. regular = [raw EXCEPT !.price = Larger(RoundUp(raw.price, config.roundingStep), target.costPrice)]
      <4> DEFINE c == target.customMarkupBps
                 own == [price |-> ApplyBps(target.costPrice, c), markupBps |-> c]
                 r == IF TRUE /\ c # None THEN own ELSE raw
      <4>1. r = raw
        <5> HIDE DEF own, raw, c
        <5> QED  BY <3>2, <3>3 DEF c
      <4>2. regular = [r EXCEPT !.price = Larger(RoundUp(r.price, config.roundingStep), target.costPrice)]
        BY DEF RegularPrice
      <4> HIDE DEF r, raw, regular
      <4> QED  BY <4>1, <4>2
    <3> HIDE DEF regular, base
    <3> QED  BY <3>1, <3>4
  <2>3. a = Plain(base, "BASE_MARKUP")
    BY <1>7 DEF ResolvePrice
  <2>4. a.price = regular.price
    <3> HIDE DEF a, base, regular
    <3> QED  BY <2>2, <2>3 DEF Plain
  <2> QED  BY <1>5, <2>1, <2>4
<1> QED  BY <1>2, <1>4, <1>6, <1>7 DEF Source

\* What the engine is told of a promotion; those that are open are told.
Told(p) == [promotionId |-> p.promotionId, promoPrice |-> p.promoPrice,
            startsAt |-> p.startsAt, endsAt |-> p.endsAt]

OpenOf(ps) ==
    {p \in ps : /\ p.enabled
                /\ p.startsAt = None \/ p.startsAt <= Instant
                /\ p.endsAt = None \/ Instant < p.endsAt}

LEMMA OpenAreTold ==
    ASSUME NEW ps \in SUBSET Advertised
    PROVE  /\ CandidatesOf(ps) \in SUBSET Offer
           /\ \A p \in OpenOf(ps) : Told(p) \in Open(CandidatesOf(ps), Instant)
           /\ \A o \in Open(CandidatesOf(ps), Instant) : \E p \in OpenOf(ps) : o = Told(p)
<1> DEFINE C == CandidatesOf(ps)
<1>1. C = {Told(p) : p \in {q \in ps : q.enabled /\ (q.endsAt = None \/ q.endsAt > Instant)}}
  BY DEF CandidatesOf, Told
<1>2. ASSUME NEW p \in Advertised
      PROVE  /\ Told(p) \in Offer
             /\ Told(p).startsAt = p.startsAt /\ Told(p).endsAt = p.endsAt
  BY <1>2 DEF Advertised, Offer, Told
<1>3. ASSUME NEW p \in Advertised
      PROVE  /\ p.startsAt \in Nat \cup {None} /\ p.endsAt \in Nat \cup {None}
             /\ IsInWindow(Told(p), Instant) <=>
                   /\ p.startsAt = None \/ p.startsAt <= Instant
                   /\ p.endsAt = None \/ Instant < p.endsAt
  <2>1. p.startsAt \in Nat \cup {None} /\ p.endsAt \in Nat \cup {None}
    BY DEF Advertised
  <2>2. IsInWindow(Told(p), Instant) <=>
           /\ p.startsAt # None => Instant >= p.startsAt
           /\ p.endsAt # None => Instant < p.endsAt
    BY <1>2 DEF IsInWindow
  <2> QED  BY <2>1, <2>2, InstantAssumption
<1> HIDE DEF C
<1>4. C \in SUBSET Offer
  BY <1>1, <1>2
<1>5. ASSUME NEW p \in OpenOf(ps)
      PROVE  Told(p) \in Open(C, Instant)
  <2>1. /\ p \in ps /\ p.enabled /\ p \in Advertised
        /\ p.startsAt = None \/ p.startsAt <= Instant
        /\ p.endsAt = None \/ Instant < p.endsAt
    BY DEF OpenOf
  <2>2. p.endsAt = None \/ p.endsAt > Instant
    BY <1>3, <2>1, InstantAssumption
  <2>3. Told(p) \in C
    BY <1>1, <2>1, <2>2
  <2> QED  BY <1>3, <2>1, <2>3 DEF Open
<1>6. ASSUME NEW o \in Open(C, Instant)
      PROVE  \E p \in OpenOf(ps) : o = Told(p)
  <2>1. o \in C /\ IsInWindow(o, Instant)
    BY DEF Open
  <2>2. PICK p \in ps : p.enabled /\ o = Told(p)
    BY <1>1, <2>1
  <2>3. p \in OpenOf(ps)
    BY <1>3, <2>1, <2>2 DEF OpenOf
  <2> QED  BY <2>2, <2>3
<1> QED  BY <1>4, <1>5, <1>6 DEF C

LEMMA AnswersAreAdvertised == ASSUME PriceTyped PROVE PromotionAsAdvertised
<1> DEFINE target == question.target
           config == question.config
           cost == target.costPrice
           offers == CandidatesOf(question.promotions)
           open == OpenOf(question.promotions)
           a == AnswerTo(question)
<1>1. target \in PriceTarget /\ config \in PriceConfig /\ question.promotions \in SUBSET Advertised
  BY DEF PriceTyped, Question
<1>2. cost \in Nat
  BY <1>1 DEF PriceTarget
<1>3. /\ offers \in SUBSET Offer
      /\ \A p \in open : Told(p) \in Open(offers, Instant)
      /\ \A o \in Open(offers, Instant) : \E p \in open : o = Told(p)
  BY <1>1, OpenAreTold
<1>4. \A p \in open : /\ p.promoPrice \in Nat /\ p.promotionId \in Nat
                      /\ PriceBy(target, Told(p)) = Larger(p.promoPrice, cost)
                      /\ Told(p).promotionId = p.promotionId
  BY <1>1 DEF OpenOf, Advertised, Told, PriceBy
<1>5. a = ResolvePrice(target, config, offers, Instant)
  BY DEF AnswerTo
<1> HIDE DEF target, config, offers, a
<1>6. /\ a \in PriceAnswer /\ a.price >= cost
      /\ a.oldPrice # None <=> a.promotionId # None
      /\ a.promotionId # None =>
            /\ a.price < a.oldPrice
            /\ \E o \in Open(offers, Instant) :
                  /\ a.promotionId = o.promotionId /\ a.price = PriceBy(target, o)
                  /\ \A q \in Open(offers, Instant) : PriceBy(target, o) <= PriceBy(target, q)
  BY <1>1, <1>3, <1>5, ResolvedPrice
<1>7. a.price \in Nat
  BY <1>6 DEF PriceAnswer
<1> HIDE DEF open, cost
<1>8. ASSUME a.promotionId # None
      PROVE  /\ a.price < a.oldPrice
             /\ \A p \in open : a.price <= p.promoPrice \/ a.price = cost
             /\ \E p \in open : p.promotionId = a.promotionId /\ a.price \in {p.promoPrice, cost}
  <2>1. PICK o \in Open(offers, Instant) :
           /\ a.promotionId = o.promotionId /\ a.price = PriceBy(target, o)
           /\ \A q \in Open(offers, Instant) : PriceBy(target, o) <= PriceBy(target, q)
    BY <1>6, <1>8
  <2>2. PICK p \in open : o = Told(p)
    BY <1>3
  <2>3. p.promotionId = a.promotionId /\ a.price \in {p.promoPrice, cost}
    BY <1>2, <1>4, <2>1, <2>2 DEF Larger
  <2>4. ASSUME NEW q \in open
        PROVE  a.price <= q.promoPrice \/ a.price = cost
    <3>1. a.price <= Larger(q.promoPrice, cost)
      BY <1>3, <1>4, <2>1
    <3>2. q.promoPrice \in Nat
      BY <1>4
    <3> QED  BY <1>2, <1>6, <1>7, <3>1, <3>2 DEF Larger
  <2> QED  BY <1>6, <1>8, <2>3, <2>4
<1>9. ASSUME a.promotionId = None
      PROVE  \/ \A p \in open : Larger(p.promoPrice, cost) >= a.price
             \/ config.order[1] = "LISTING_MARKUP" /\ target.customMarkupBps # None
  <2>1. \/ \A o \in Open(offers, Instant) : PriceBy(target, o) >= a.price
        \/ config.order[1] = "LISTING_MARKUP" /\ target.customMarkupBps # None
    BY <1>1, <1>3, <1>5, <1>9, PromotionForgone
  <2> QED  BY <1>3, <1>4, <2>1
<1> QED  BY <1>6, <1>8, <1>9 DEF PromotionAsAdvertised, OpenOf, open, cost, config, target, a

\* price-engine.ts:128-133 and 154-162: a discount is a lower price than the one struck
\* through, by the cheapest promotion that is open, and it is forgone only when it is
\* none or when the markup of the listing goes first.
THEOREM NoPromotionIsMissed == PriceSpec => []PromotionAsAdvertised
BY PriceTypedAlways, AnswersAreAdvertised, PTL

\* The state shown is the state the page is filtered by; "active" is what the engine
\* calls open.
LEMMA StateIsFilter ==
    ASSUME NEW p \in Advertised, PeriodIsRight(p.startsAt, p.endsAt)
    PROVE  /\ \A s \in {"disabled", "scheduled", "active", "ended"} :
                 InState(p, s, Instant) <=> PromotionState(p, Instant) = s
           /\ PromotionState(p, Instant) = "active" <=> p.enabled /\ IsInWindow(p, Instant)
<1> DEFINE from == p.startsAt
           to == p.endsAt
<1>1. /\ p.enabled \in BOOLEAN /\ from \in Nat \cup {None} /\ to \in Nat \cup {None}
      /\ from # None /\ to # None => from < to
  BY DEF Advertised, PeriodIsRight
<1>2. /\ InState(p, "disabled", Instant) <=> ~p.enabled
      /\ InState(p, "scheduled", Instant) <=> p.enabled /\ from # None /\ from > Instant
      /\ InState(p, "ended", Instant) <=> p.enabled /\ to # None /\ to <= Instant
      /\ InState(p, "active", Instant) <=>
            p.enabled /\ (from # None => Instant >= from) /\ (to # None => Instant < to)
  BY DEF InState, IsInWindow
<1>3. PromotionState(p, Instant) =
         IF ~p.enabled THEN "disabled"
         ELSE IF from # None /\ Instant < from THEN "scheduled"
         ELSE IF to # None /\ Instant >= to THEN "ended" ELSE "active"
  BY DEF PromotionState
<1>4. IsInWindow(p, Instant) <=> (from # None => Instant >= from) /\ (to # None => Instant < to)
  BY DEF IsInWindow
<1> DEFINE on == p.enabled
           before == from # None /\ Instant < from
           after == to # None /\ Instant >= to
<1> HIDE DEF from, to
<1>5. /\ from # None /\ from > Instant <=> before
      /\ to # None /\ to <= Instant <=> after
      /\ (from # None => Instant >= from) <=> ~before
      /\ (to # None => Instant < to) <=> ~after
      /\ ~(before /\ after)
  BY <1>1, InstantAssumption
<1> HIDE DEF before, after, on
<1>6. /\ InState(p, "disabled", Instant) <=> PromotionState(p, Instant) = "disabled"
      /\ InState(p, "scheduled", Instant) <=> PromotionState(p, Instant) = "scheduled"
      /\ InState(p, "ended", Instant) <=> PromotionState(p, Instant) = "ended"
      /\ InState(p, "active", Instant) <=> PromotionState(p, Instant) = "active"
  <2>1. PromotionState(p, Instant) =
           IF ~on THEN "disabled" ELSE IF before THEN "scheduled" ELSE IF after THEN "ended" ELSE "active"
    BY <1>3 DEF on, before, after
  <2>2. /\ InState(p, "disabled", Instant) <=> ~on
        /\ InState(p, "scheduled", Instant) <=> on /\ before
        /\ InState(p, "ended", Instant) <=> on /\ after
        /\ InState(p, "active", Instant) <=> on /\ ~before /\ ~after
    BY <1>2, <1>5 DEF on
  <2>3. CASE ~on
    BY <2>1, <2>2, <2>3
  <2>4. CASE on /\ before
    BY <1>5, <2>1, <2>2, <2>4
  <2>5. CASE on /\ ~before /\ after
    BY <2>1, <2>2, <2>5
  <2>6. CASE on /\ ~before /\ ~after
    BY <2>1, <2>2, <2>6
  <2> QED  BY <2>3, <2>4, <2>5, <2>6
<1>7. PromotionState(p, Instant) = "active" <=> p.enabled /\ IsInWindow(p, Instant)
  BY <1>2, <1>4, <1>6
<1> QED  BY <1>6, <1>7

\* There is a discount where the promotion is below the regular price.
LEMMA DiscountIs ==
    ASSUME NEW promoPrice \in Nat, NEW l, l.price \in Nat, l.oldPrice \in Nat \cup {None}
    PROVE  /\ DiscountBps(promoPrice, l) \in Nat \cup {None}
           /\ l.oldPrice # None /\ promoPrice < l.oldPrice => DiscountBps(promoPrice, l) \in Nat
<1> DEFINE regular == IF l.oldPrice # None THEN l.oldPrice ELSE l.price
           d == DiscountBps(promoPrice, l)
<1>1. regular \in Nat /\ (l.oldPrice # None => regular = l.oldPrice)
  OBVIOUS
<1>2. d = IF regular <= 0 \/ promoPrice >= regular THEN None
          ELSE (2 * (regular - promoPrice) * BPS + regular) \div (2 * regular)
  BY DEF DiscountBps
<1> HIDE DEF d, regular
<1>3. ASSUME ~(regular <= 0 \/ promoPrice >= regular)
      PROVE  (2 * (regular - promoPrice) * BPS + regular) \div (2 * regular) \in Nat
  <2> DEFINE a == 2 * (regular - promoPrice) * BPS + regular
             b == 2 * regular
  <2>1. regular - promoPrice \in Nat
    BY <1>1, <1>3
  <2>2. 2 * (regular - promoPrice) * BPS \in Nat
    BY <2>1 DEF BPS
  <2>3. a \in Nat /\ b \in Nat /\ b > 0
    BY <1>1, <1>3, <2>2
  <2> HIDE DEF a, b
  <2>4. a \div b \in Nat
    BY <2>3
  <2> QED  BY <2>4 DEF a, b
<1>4. l.oldPrice # None /\ promoPrice < l.oldPrice => ~(regular <= 0 \/ promoPrice >= regular)
  BY <1>1
<1>5. d \in Nat \cup {None} /\ (~(regular <= 0 \/ promoPrice >= regular) => d \in Nat)
  BY <1>2, <1>3
<1> QED  BY <1>4, <1>5 DEF d

\* Of two discounts the greatest is at the head of the page.
LEMMA DeepestAtHead ==
    ASSUME NEW x \in Nat, NEW y \in Nat \cup {None}
    PROVE  Greatest({x, y} \ {None}) \in Int /\ x <= Greatest({x, y} \ {None})
<1> DEFINE S == {x, y} \ {None}
<1>1. None \notin Nat
  BY NoneIsNoNumber
<1>2. S \in SUBSET Int /\ x \in S /\ x >= 0
  BY <1>1
<1>3. \E b \in Nat : \A z \in S : z <= b
  <2>1. CASE y = None
    <3>1. \A z \in S : z <= x
      BY <1>1, <2>1
    <3> QED  BY <3>1
  <2>2. CASE y \in Nat
    <3>1. x + y \in Nat /\ \A z \in S : z <= x + y
      BY <2>2
    <3> HIDE DEF S
    <3> QED  BY <3>1
  <2> QED  BY <2>1, <2>2
<1> HIDE DEF S
<1>4. Greatest(S) \in S /\ \A z \in S : z <= Greatest(S)
  BY <1>2, <1>3, BoundedHasGreatest
<1>5. Greatest(S) \in Int
  BY <1>2, <1>4
<1> QED  BY <1>2, <1>4, <1>5 DEF S

LEMMA PanelAgrees == ASSUME PriceTyped PROVE PanelAgreesWithEngine
<1> DEFINE row == RowAfter(question)
           plain == [row EXCEPT !.price = 10, !.oldPrice = None, !.promotionId = None]
           here(p) == [promoPrice |-> p.promoPrice, listing |-> row]
           there(p) == [promoPrice |-> p.promoPrice + 1, listing |-> plain]
           page(p) == AdminPromotionDetail(p, {here(p), there(p)}, Instant)
           a == AnswerTo(question)
           offers == CandidatesOf(question.promotions)
           target == question.target
           config == question.config
<1>1. /\ target \in PriceTarget /\ config \in PriceConfig
      /\ question.promotions \in SUBSET Advertised /\ OneOfEach(question.promotions)
  BY DEF PriceTyped, Question
<1>2. /\ a \in PriceAnswer
      /\ a.oldPrice # None <=> a.promotionId # None
      /\ a.promotionId # None =>
            /\ a.price < a.oldPrice
            /\ \E o \in Open(offers, Instant) : a.promotionId = o.promotionId /\ a.price = PriceBy(target, o)
  <2>1. a = ResolvePrice(target, config, offers, Instant)
    BY DEF AnswerTo
  <2>2. offers \in SUBSET Offer
    BY <1>1, OpenAreTold
  <2> HIDE DEF a, offers, target, config
  <2> QED  BY <1>1, <2>1, <2>2, ResolvedPrice
<1>3. /\ row.price = a.price /\ row.oldPrice = a.oldPrice /\ row.promotionId = a.promotionId
      /\ plain.price = 10 /\ plain.oldPrice = None /\ plain.promotionId = None
  <2> DEFINE cost == question.target.costPrice
             custom == question.target.customMarkupBps
  <2>1. row = [seller |-> 1, costPrice |-> cost, customMarkupBps |-> custom,
               price |-> a.price, oldPrice |-> a.oldPrice, promotionId |-> a.promotionId,
               source |-> a.source, stock |-> 1, status |-> "ACTIVE"]
    BY DEF RowAfter
  <2> HIDE DEF cost, custom, a, row
  <2> QED  BY <2>1
<1>4. /\ a.price \in Nat /\ a.oldPrice \in Nat \cup {None} /\ a.promotionId \in Nat \cup {None}
      /\ None \notin Nat
  BY <1>2, NoneIsNoNumber DEF PriceAnswer
<1> HIDE DEF row, plain, a
\* The promotion a listing has its price from is open, and below what is struck through.
<1>5. ASSUME NEW p \in question.promotions, row.promotionId = p.promotionId
      PROVE  /\ p \in OpenOf(question.promotions)
             /\ row.oldPrice # None /\ p.promoPrice < row.oldPrice
  <2>1. p \in Advertised /\ p.promotionId \in Nat /\ p.promoPrice \in Nat
    BY <1>1 DEF Advertised
  <2>2. a.promotionId # None
    BY <1>3, <1>4, <1>5, <2>1
  <2>3. PICK o \in Open(offers, Instant) : a.promotionId = o.promotionId /\ a.price = PriceBy(target, o)
    BY <1>2, <2>2
  <2>4. PICK q \in OpenOf(question.promotions) : o = Told(q)
    BY <1>1, <2>3, OpenAreTold
  <2>5. q \in question.promotions /\ q.promotionId = p.promotionId
    BY <1>3, <1>5, <2>3, <2>4 DEF Told, OpenOf
  <2>6. q = p
    BY <1>1, <2>5 DEF OneOfEach
  <2>7. a.price >= p.promoPrice
    <3>1. a.price = Larger(p.promoPrice, target.costPrice) /\ target.costPrice \in Nat
      BY <1>1, <2>3, <2>4, <2>6 DEF PriceBy, Told, PriceTarget
    <3> QED  BY <2>1, <3>1 DEF Larger
  <2>8. a.oldPrice # None /\ a.price < a.oldPrice
    BY <1>2, <2>2
  <2>9. p.promoPrice < a.oldPrice
    BY <1>4, <2>1, <2>7, <2>8
  <2> QED  BY <1>3, <2>4, <2>6, <2>8, <2>9
<1>6. ASSUME NEW p \in question.promotions
      PROVE  /\ \A s \in {"disabled", "scheduled", "ended", "active"} :
                   InState(p, s, Instant) <=> page(p).state = s
             /\ page(p).state = "active"
                   <=> p \in Open({q \in question.promotions : q.enabled}, Instant)
             /\ \A line \in page(p).items : line.appliedHere =>
                   /\ page(p).state = "active"
                   /\ line.discountBps # None /\ line.discountBps <= page(p).maxDiscountBps
  <2> DEFINE members == {here(p), there(p)}
             x == DiscountBps(p.promoPrice, row)
             y == DiscountBps(p.promoPrice + 1, plain)
  <2>1. p \in Advertised /\ PeriodIsRight(p.startsAt, p.endsAt) /\ p.promoPrice \in Nat
    BY <1>1 DEF Advertised, PriceTyped
  <2>2. /\ page(p).state = PromotionState(p, Instant)
        /\ page(p).maxDiscountBps = MaxDiscountBps(members)
        /\ page(p).items = {PromotionItem(p, here(p)), PromotionItem(p, there(p))}
    BY DEF AdminPromotionDetail
  <2>3. /\ PromotionItem(p, here(p)).appliedHere = (row.promotionId = p.promotionId)
        /\ PromotionItem(p, here(p)).discountBps = x
        /\ PromotionItem(p, there(p)).appliedHere = (plain.promotionId = p.promotionId)
    BY DEF PromotionItem
  <2>4. ~PromotionItem(p, there(p)).appliedHere
    <3>1. p.promotionId \in Nat
      BY <2>1 DEF Advertised
    <3> QED  BY <1>3, <1>4, <2>3, <3>1
  <2>5. MaxDiscountBps(members) = IF {x, y} \ {None} = {} THEN None ELSE Greatest({x, y} \ {None})
    <3>1. {DiscountBps(m.promoPrice, m.listing) : m \in members} = {x, y}
      OBVIOUS
    <3> HIDE DEF members, x, y
    <3> QED  BY <3>1 DEF MaxDiscountBps
  <2>6. x \in Nat \cup {None} /\ y \in Nat \cup {None}
    <3>1. row.price \in Nat /\ row.oldPrice \in Nat \cup {None}
      BY <1>3, <1>4
    <3>2. plain.price \in Nat /\ plain.oldPrice \in Nat \cup {None} /\ p.promoPrice + 1 \in Nat
      BY <1>3, <2>1
    <3> QED  BY <2>1, <3>1, <3>2, DiscountIs
  <2>7. ASSUME row.promotionId = p.promotionId
        PROVE  /\ PromotionState(p, Instant) = "active"
               /\ x # None /\ x <= MaxDiscountBps(members)
    <3>1. /\ p \in OpenOf(question.promotions)
          /\ row.oldPrice # None /\ p.promoPrice < row.oldPrice
      BY <1>5, <2>7
    <3>2. p.enabled /\ IsInWindow(p, Instant)
      <4>1. p.startsAt \in Nat \cup {None} /\ p.endsAt \in Nat \cup {None}
        BY <2>1 DEF Advertised
      <4> QED  BY <3>1, <4>1, InstantAssumption DEF OpenOf, IsInWindow
    <3>3. x \in Nat
      BY <1>3, <1>4, <2>1, <3>1, DiscountIs
    <3> HIDE DEF x, y, members
    <3>4. x <= Greatest({x, y} \ {None}) /\ MaxDiscountBps(members) = Greatest({x, y} \ {None})
      <4>1. x \in {x, y} \ {None}
        BY <1>4, <3>3
      <4> QED  BY <2>5, <2>6, <3>3, <4>1, DeepestAtHead
    <3> QED  BY <1>4, <2>1, <3>2, <3>3, <3>4, StateIsFilter
  <2>8. \A s \in {"disabled", "scheduled", "ended", "active"} :
           InState(p, s, Instant) <=> PromotionState(p, Instant) = s
    BY <2>1, StateIsFilter
  <2>9. PromotionState(p, Instant) = "active"
           <=> p \in Open({q \in question.promotions : q.enabled}, Instant)
    BY <2>1, StateIsFilter DEF Open
  <2> HIDE DEF here, there, page, x, y, members
  <2>10. ASSUME NEW line \in page(p).items, line.appliedHere
         PROVE  /\ page(p).state = "active"
                /\ line.discountBps # None /\ line.discountBps <= page(p).maxDiscountBps
    <3>1. line = PromotionItem(p, here(p))
      BY <2>2, <2>4, <2>10
    <3>2. row.promotionId = p.promotionId
      BY <2>3, <2>10, <3>1
    <3> QED  BY <2>2, <2>3, <2>7, <3>1, <3>2
  <2> QED  BY <2>2, <2>8, <2>9, <2>10
<1> QED  BY <1>6 DEF PanelAgreesWithEngine, row, plain

\* promotions.service.ts:41 and promotion.response.ts:101: whatever the promotions, the
\* panel calls active those the engine may apply, lists each under the state it shows,
\* and shows the one a listing has its price from as active, with a discount no deeper
\* than the one at the head of its page.
THEOREM PanelIsRight == PriceSpec => []PanelAgreesWithEngine
BY PriceTypedAlways, PanelAgrees, PTL

-----------------------------------------------------------------------------
(* The inductive invariant: types *)

Queries == {"step", "tiers", "order", "promotions"}
OnPromotion == {"createPromotion", "updatePromotion", "removePromotion"}
OfAll == {"settings", "priorities", "tick", "boot"}
Kinds == Transactional \cup OfAll \cup {"remove", "none"}
Recalculating == {"read", "page", "write"}

\* Functions from parts of S.
Rows(S, T) == UNION {[D -> T] : D \in SUBSET S}

Writes == [listings : Rows(Listings, ListingRow), promotions : Rows(Promotions, PromotionRow \cup {Gone}),
           items : Rows(Promotions, Rows(Listings, Nat))]

Dtos == ListingDtos \cup PromotionDtos \cup SettingsDtos \cup PriceOrder \cup {Keep}

RequestRow ==
    [kind : Kinds, id : Nat, dto : Dtos, where : SUBSET Listings, now : Nat, from : Nat,
     reads : SUBSET Queries, config : Config \cup {Keep}, promotions : SUBSET Candidate,
     cursor : Nat, todo : SUBSET [id : Listings, price : Price], more : BOOLEAN,
     changed : BOOLEAN, alone : BOOLEAN, stale : BOOLEAN]

\* What a request asks for.
Asks(r) ==
    /\ r.kind \in {"create", "update", "remove"} => r.id \in Listings
    /\ r.kind \in {"create", "update"} => r.dto \in ListingDtos /\ r.where = {r.id}
    /\ r.kind = "create" => r.dto.costPrice # Keep
    /\ r.kind = "order" => r.where # {}
    /\ r.kind \in OnPromotion => r.id \in Promotions
    /\ r.kind \in {"createPromotion", "updatePromotion"} =>
          /\ r.dto \in PromotionDtos
          /\ r.dto.items # Keep => DOMAIN r.dto.items \subseteq r.where
    /\ r.kind = "createPromotion" => Keep \notin {r.dto.enabled, r.dto.startsAt, r.dto.endsAt, r.dto.items}
    /\ r.kind = "settings" => r.dto \in SettingsDtos
    /\ r.kind = "priorities" => r.dto \in PriceOrder

\* A price as a discount is whole.
PriceWhole(p) ==
    /\ p.oldPrice # None <=> p.promotionId # None
    /\ p.oldPrice # None => p.price < p.oldPrice

\* What is still to be written.
ToWrite(r) ==
    /\ \A u \in r.todo : u.id \in r.where /\ PriceWhole(u.price)
    /\ \A u, v \in r.todo : u.id = v.id => u = v

\* What has been read of the settings.
HasRead(r) ==
    /\ r.config \in Config
    /\ "step" \notin r.reads => r.config.roundingStep \in Nat
    /\ "tiers" \notin r.reads => r.config.markupTiers \in Tiers
    /\ "order" \notin r.reads => r.config.order \in PriceOrder

\* Which request stands where.
InPlace(stage, r) ==
    /\ stage \in {"idle", "bump"} => r = NoReq
    /\ stage = "insert" => r.kind = "create"
    /\ stage = "edit" => r.kind = "update"
    /\ stage = "stock" => r.kind = "order"
    /\ stage = "delete" => r.kind = "remove"
    /\ stage = "check" => r.kind \in {"createPromotion", "updatePromotion"} /\ r.dto.items # Keep
    /\ stage = "insertPromotion" => r.kind = "createPromotion"
    /\ stage = "head" => r.kind = "updatePromotion"
    /\ stage = "items" => r.kind = "updatePromotion" /\ r.dto.items # Keep
    /\ stage = "drop" => r.kind = "removePromotion"
    /\ stage \in {"tiers", "settings", "settingsBump"} => r.kind = "settings"
    /\ stage = "tiers" => r.dto.markupTiers # Keep
    /\ stage = "order" => r.kind = "priorities"
    /\ stage = "scope" => r.kind = "tick"
    /\ stage \in Recalculating => r.kind \in Transactional \cup OfAll /\ HasRead(r)
    /\ stage \in {"commit", "done"} /\ r.where # {} => HasRead(r)
    /\ stage = "commit" => r.kind \in Transactional
    /\ stage = "done" => r.kind \in OfAll
    /\ stage # "read" => r.reads = {}
    /\ stage \notin {"page", "write", "commit", "done"} => r.cursor = 0
    /\ stage = "write" => ToWrite(r)
    /\ stage # "write" => r.todo = {}

Tables ==
    /\ listings \in [Listings -> ListingRow \cup {None, Gone}]
    /\ promotions \in [Promotions -> PromotionRow \cup {None, Gone}]
    /\ items \in [Promotions -> Rows(Listings, Nat)]
    /\ settings \in Settings
    /\ cached \in Nat \cup {None} /\ lost \in BOOLEAN
    /\ today \in Nat /\ lastRun \in Nat /\ asked \in Nat
    /\ sound \in SUBSET Listings

Typed ==
    /\ Tables
    /\ pc \in [Handlers -> Stages] /\ req \in [Handlers -> RequestRow] /\ tx \in [Handlers -> Writes]
    /\ \A h \in Handlers : Asks(req[h]) /\ InPlace(pc[h], req[h])

-----------------------------------------------------------------------------
(* Functions from parts of a set *)

LEMMA RowsAre ==
    ASSUME NEW S, NEW T, NEW f
    PROVE  f \in Rows(S, T) <=> DOMAIN f \subseteq S /\ f \in [DOMAIN f -> T]
<1>1. ASSUME f \in Rows(S, T) PROVE DOMAIN f \subseteq S /\ f \in [DOMAIN f -> T]
  BY <1>1 DEF Rows
<1>2. ASSUME DOMAIN f \subseteq S, f \in [DOMAIN f -> T] PROVE f \in Rows(S, T)
  BY <1>2 DEF Rows
<1> QED BY <1>1, <1>2

LEMMA OverRows ==
    ASSUME NEW S, NEW T, NEW f \in Rows(S, T), NEW g \in Rows(S, T)
    PROVE  Over(f, g) \in Rows(S, T)
<1>1. /\ DOMAIN f \subseteq S /\ f \in [DOMAIN f -> T]
      /\ DOMAIN g \subseteq S /\ g \in [DOMAIN g -> T]
  BY RowsAre
<1>2. DOMAIN Over(f, g) \subseteq S /\ Over(f, g) \in [DOMAIN Over(f, g) -> T]
  BY <1>1 DEF Over
<1> QED BY <1>2, RowsAre

LEMMA OverWhole ==
    ASSUME NEW S, NEW T, NEW f \in Rows(S, T), NEW g \in [S -> T]
    PROVE  /\ Over(f, g) \in [S -> T]
           /\ \A x \in S : Over(f, g)[x] = IF x \in DOMAIN f THEN f[x] ELSE g[x]
<1>1. DOMAIN f \subseteq S /\ f \in [DOMAIN f -> T]
  BY RowsAre
<1>2. DOMAIN f \cup DOMAIN g = S
  BY <1>1
<1> QED BY <1>1, <1>2 DEF Over

LEMMA OnlyRows ==
    ASSUME NEW S, NEW T, NEW x \in S, NEW v \in T
    PROVE  Only(x, v) \in Rows(S, T) /\ DOMAIN Only(x, v) = {x} /\ Only(x, v)[x] = v
<1>1. Only(x, v) \in [{x} -> T] /\ DOMAIN Only(x, v) = {x} /\ Only(x, v)[x] = v
  BY DEF Only
<1> QED BY <1>1, RowsAre

LEMMA EmptyRows ==
    ASSUME NEW S, NEW T
    PROVE  Empty \in Rows(S, T) /\ DOMAIN Empty = {}
<1>1. DOMAIN Empty = {} /\ Empty \in [{} -> T]
  BY DEF Empty
<1> QED BY <1>1, RowsAre

LEMMA RowsNarrowed ==
    ASSUME NEW S, NEW T, NEW f \in Rows(S, T), NEW D, D \subseteq DOMAIN f
    PROVE  [x \in D |-> f[x]] \in Rows(S, T)
<1>1. DOMAIN f \subseteq S /\ f \in [DOMAIN f -> T]
  BY RowsAre
<1> QED BY <1>1, RowsAre

LEMMA RowsWider ==
    ASSUME NEW S, NEW T, NEW U, T \subseteq U, NEW f \in Rows(S, T)
    PROVE  f \in Rows(S, U)
<1>1. DOMAIN f \subseteq S /\ f \in [DOMAIN f -> T]
  BY RowsAre
<1> QED BY <1>1, RowsAre

-----------------------------------------------------------------------------
(* What a transaction sees *)

LEMMA NothingWritten == NoTx \in Writes /\ NoTx.listings = Empty /\ NoTx.promotions = Empty /\ NoTx.items = Empty
BY EmptyRows DEF NoTx, Writes

LEMMA ExistsRow ==
    /\ \A row \in ListingRow \cup {None, Gone} : Exists(row) <=> row \in ListingRow
    /\ \A row \in PromotionRow \cup {None, Gone} : Exists(row) <=> row \in PromotionRow
BY IdsAssumption DEF Exists

LEMMA SeenTyped ==
    ASSUME Typed, NEW h \in Handlers
    PROVE  /\ tx[h] \in Writes
           /\ SeenListings(h) \in [Listings -> ListingRow \cup {None, Gone}]
           /\ SeenPromotions(h) \in [Promotions -> PromotionRow \cup {None, Gone}]
           /\ SeenItems(h) \in [Promotions -> Rows(Listings, Nat)]
           /\ \A l \in Listings : SeenListings(h)[l] =
                 IF l \in DOMAIN tx[h].listings THEN tx[h].listings[l] ELSE listings[l]
           /\ \A p \in Promotions :
                 /\ SeenPromotions(h)[p] =
                       IF p \in DOMAIN tx[h].promotions THEN tx[h].promotions[p] ELSE promotions[p]
                 /\ SeenItems(h)[p] = IF p \in DOMAIN tx[h].items THEN tx[h].items[p] ELSE items[p]
<1>1. tx[h] \in Writes
  BY DEF Typed
<1>2. /\ tx[h].listings \in Rows(Listings, ListingRow) /\ tx[h].promotions \in Rows(Promotions, PromotionRow \cup {Gone})
      /\ tx[h].items \in Rows(Promotions, Rows(Listings, Nat))
  BY <1>1 DEF Writes
<1>3. tx[h].listings \in Rows(Listings, ListingRow \cup {None, Gone})
  BY <1>2, RowsWider
<1>4. tx[h].promotions \in Rows(Promotions, PromotionRow \cup {None, Gone})
  BY <1>2, RowsWider
<1>5. /\ listings \in [Listings -> ListingRow \cup {None, Gone}]
      /\ promotions \in [Promotions -> PromotionRow \cup {None, Gone}]
      /\ items \in [Promotions -> Rows(Listings, Nat)]
  BY DEF Typed, Tables
<1>6. /\ SeenListings(h) \in [Listings -> ListingRow \cup {None, Gone}]
      /\ \A l \in Listings : SeenListings(h)[l] =
                 IF l \in DOMAIN tx[h].listings THEN tx[h].listings[l] ELSE listings[l]
  BY <1>3, <1>5, OverWhole DEF SeenListings
<1>7. /\ SeenPromotions(h) \in [Promotions -> PromotionRow \cup {None, Gone}]
      /\ \A p \in Promotions : SeenPromotions(h)[p] =
                       IF p \in DOMAIN tx[h].promotions THEN tx[h].promotions[p] ELSE promotions[p]
  BY <1>4, <1>5, OverWhole DEF SeenPromotions
<1>8. /\ SeenItems(h) \in [Promotions -> Rows(Listings, Nat)]
      /\ \A p \in Promotions : SeenItems(h)[p] = IF p \in DOMAIN tx[h].items THEN tx[h].items[p] ELSE items[p]
  BY <1>2, <1>5, OverWhole DEF SeenItems
<1> QED BY <1>1, <1>6, <1>7, <1>8

-----------------------------------------------------------------------------
(* What a listing should cost *)

\* The offers that come from the promotions of two tables.
Offered == [promotionId : Promotions, promoPrice : Nat, startsAt : Date, endsAt : Date]

LEMMA LoadedTyped ==
    ASSUME NEW heads \in [Promotions -> PromotionRow \cup {None, Gone}],
           NEW members \in [Promotions -> Rows(Listings, Nat)], NEW now
    PROVE  LoadPromotions(heads, members, now) \in SUBSET Candidate
<1> SUFFICES ASSUME NEW c \in LoadPromotions(heads, members, now) PROVE c \in Candidate
  OBVIOUS
<1>1. PICK p \in LivePromotions(heads, now) : \E l \in DOMAIN members[p] :
         c = [listingId |-> l, offer |-> [promotionId |-> p, promoPrice |-> members[p][l],
                        startsAt |-> heads[p].startsAt, endsAt |-> heads[p].endsAt]]
  BY DEF LoadPromotions
<1>2. PICK l \in DOMAIN members[p] :
         c = [listingId |-> l, offer |-> [promotionId |-> p, promoPrice |-> members[p][l],
                        startsAt |-> heads[p].startsAt, endsAt |-> heads[p].endsAt]]
  BY <1>1
<1>3. p \in Promotions /\ heads[p] \in PromotionRow
  BY ExistsRow DEF LivePromotions
<1>4. l \in Listings /\ members[p][l] \in Nat
  BY <1>2, <1>3, RowsAre
<1>5. heads[p].startsAt \in Date /\ heads[p].endsAt \in Date
  BY <1>3 DEF PromotionRow
<1> QED BY <1>2, <1>3, <1>4, <1>5 DEF Candidate

LEMMA OffersTyped ==
    ASSUME NEW loaded \in SUBSET Candidate, NEW l
    PROVE  OffersFor(l, loaded) \in SUBSET Offered /\ OffersFor(l, loaded) \in SUBSET Offer
<1>1. OffersFor(l, loaded) \in SUBSET Offered
  BY DEF OffersFor, Candidate, Offered
<1>2. Offered \subseteq Offer
  BY IdsAssumption DEF Offered, Offer, Date
<1> QED BY <1>1, <1>2

LEMMA ResolvedIsWhole ==
    ASSUME NEW row, row.costPrice \in Nat, row.customMarkupBps \in Nat \cup {None},
           NEW config \in PriceConfig, NEW offers \in SUBSET Offered, NEW now
    PROVE  LET p == Resolved(row, config, offers, now)
           IN  /\ p \in Price /\ PriceWhole(p)
               /\ p.promotionId # None => \E o \in offers : o.promotionId = p.promotionId
<1> DEFINE a == ResolvePrice(Target(row), config, offers, now)
           p == Resolved(row, config, offers, now)
<1>1. Target(row) \in PriceTarget
  BY DEF Target, PriceTarget
<1>2. offers \in SUBSET Offer
  BY IdsAssumption DEF Offered, Offer, Date
<1>3. /\ a \in PriceAnswer
      /\ a.oldPrice # None <=> a.promotionId # None
      /\ a.promotionId # None =>
            a.price < a.oldPrice /\ \E o \in Open(offers, now) : a.promotionId = o.promotionId
  BY <1>1, <1>2, ResolvedPrice
<1>4. p = [price |-> a.price, source |-> a.source, oldPrice |-> a.oldPrice, promotionId |-> a.promotionId]
  BY DEF Resolved
<1> HIDE DEF a, p
<1>5. /\ p.price = a.price /\ p.source = a.source /\ p.oldPrice = a.oldPrice /\ p.promotionId = a.promotionId
  BY <1>4
<1>6. a.promotionId # None => \E o \in offers : o.promotionId = a.promotionId
  BY <1>3 DEF Open
<1>7. a.promotionId \in Promotions \cup {None}
  BY <1>6 DEF Offered
<1>8. a.price \in Nat /\ a.source \in Source /\ a.oldPrice \in Nat \cup {None}
  BY <1>3 DEF PriceAnswer
<1>9. p \in Price
  BY <1>4, <1>7, <1>8 DEF Price
<1>10. PriceWhole(p)
  BY <1>3, <1>5 DEF PriceWhole
<1>11. p \in Price /\ PriceWhole(p) /\ (p.promotionId # None => \E o \in offers : o.promotionId = p.promotionId)
  BY <1>5, <1>6, <1>9, <1>10
<1> QED BY <1>11 DEF p

-----------------------------------------------------------------------------
(* Types: steps of requests *)

Moves(h, stage, r) == pc' = [pc EXCEPT ![h] = stage] /\ req' = [req EXCEPT ![h] = r]

LEMMA MoveTyped ==
    ASSUME Typed, Tables', NEW h \in Handlers, NEW stage \in Stages, NEW r \in RequestRow,
           Asks(r), InPlace(stage, r), Moves(h, stage, r), tx' \in [Handlers -> Writes]
    PROVE  Typed'
<1>1. pc' \in [Handlers -> Stages] /\ req' \in [Handlers -> RequestRow]
  BY DEF Typed, Moves
<1>2. ASSUME NEW k \in Handlers PROVE Asks(req'[k]) /\ InPlace(pc'[k], req'[k])
  <2>1. CASE k = h
    <3>1. pc'[k] = stage /\ req'[k] = r
      BY <2>1 DEF Typed, Moves
    <3> QED BY <3>1
  <2>2. CASE k # h
    <3>1. pc'[k] = pc[k] /\ req'[k] = req[k]
      BY <2>2 DEF Typed, Moves
    <3> QED BY <3>1 DEF Typed
  <2> QED BY <2>1, <2>2
<1> QED BY <1>1, <1>2 DEF Typed

LEMMA NothingAsked == NoReq \in RequestRow /\ Asks(NoReq) /\ InPlace("idle", NoReq) /\ InPlace("bump", NoReq)
<1>1. NoReq \in RequestRow
  BY DEF NoReq, RequestRow, Kinds, Dtos
<1>2. Asks(NoReq)
  BY DEF NoReq, Asks, OnPromotion
<1>3. InPlace("idle", NoReq) /\ InPlace("bump", NoReq)
  BY DEF NoReq, InPlace, Recalculating
<1> QED BY <1>1, <1>2, <1>3

LEMMA EndTyped ==
    ASSUME Typed, Tables', NEW h \in Handlers, NEW stage \in {"idle", "bump"}, Go(h, stage, NoReq),
           tx' \in [Handlers -> Writes]
    PROVE  Typed'
<1>1. Moves(h, stage, NoReq) /\ stage \in Stages
  BY DEF Go, Goto, Moves, Stages
<1> QED BY <1>1, NothingAsked, MoveTyped

\* A request as it is made.
LEMMA AskedTyped ==
    ASSUME NEW kind \in Kinds, NEW id \in Nat, NEW dto \in Dtos, NEW where \in SUBSET Listings
    PROVE  LET r == Request(kind, id, dto, where)
           IN  /\ r \in RequestRow
               /\ r.kind = kind /\ r.id = id /\ r.dto = dto /\ r.where = where
               /\ r.cursor = 0 /\ r.todo = {} /\ r.reads = {} /\ r.config = Keep
<1>1. NoReq \in RequestRow
  BY NothingAsked
<1>2. NoReq.cursor = 0 /\ NoReq.todo = {} /\ NoReq.reads = {} /\ NoReq.config = Keep
  BY DEF NoReq
<1>3. PICK q : q = NoReq
  OBVIOUS
<1>4. q \in RequestRow /\ q.cursor = 0 /\ q.todo = {} /\ q.reads = {} /\ q.config = Keep
  BY <1>1, <1>2, <1>3
<1>5. Request(kind, id, dto, where) = [q EXCEPT !.kind = kind, !.id = id, !.dto = dto, !.where = where]
  BY <1>3 DEF Request
<1> QED BY <1>4, <1>5 DEF RequestRow

\* The request is the same, but for whether it is alone.
SameButAlone(r, q) ==
    /\ r.kind = q.kind /\ r.id = q.id /\ r.dto = q.dto /\ r.where = q.where /\ r.now = q.now
    /\ r.from = q.from /\ r.reads = q.reads /\ r.config = q.config /\ r.promotions = q.promotions
    /\ r.cursor = q.cursor /\ r.todo = q.todo /\ r.more = q.more /\ r.changed = q.changed
    /\ r.stale = q.stale

LEMMA AloneOrNot ==
    ASSUME NEW r \in RequestRow, NEW b \in BOOLEAN
    PROVE  LET q == [r EXCEPT !.alone = b]
           IN  q \in RequestRow /\ q.alone = b /\ SameButAlone(r, q)
BY DEF RequestRow, SameButAlone

LEMMA SameAsks ==
    ASSUME NEW r, NEW q, SameButAlone(r, q), Asks(r)
    PROVE  Asks(q)
BY DEF SameButAlone, Asks

LEMMA SamePlace ==
    ASSUME NEW r, NEW q, SameButAlone(r, q), NEW stage, InPlace(stage, r), stage \notin {"idle", "bump"}
    PROVE  InPlace(stage, q)
<1>1. ToWrite(r) => ToWrite(q)
  BY DEF SameButAlone, ToWrite
<1>2. HasRead(r) => HasRead(q)
  BY DEF SameButAlone, HasRead
<1> QED BY <1>1, <1>2 DEF SameButAlone, InPlace

\* Whom a request disturbs that is taken up.
Foes(h, r) == {k \in Active \ {h} : Conflict(NamedBy(r), NamedBy(req[k]))}

LEMMA TakeIs ==
    ASSUME Typed, NEW h \in Handlers, NEW stage \in Stages, NEW r \in RequestRow, Take(h, stage, r)
    PROVE  /\ pc' = [pc EXCEPT ![h] = stage]
           /\ req' \in [Handlers -> RequestRow]
           /\ SameButAlone(r, req'[h]) /\ req'[h].alone = (Foes(h, r) = {})
           /\ \A k \in Handlers \ {h} :
                 /\ k \notin Foes(h, r) => req'[k] = req[k]
                 /\ k \in Foes(h, r) => k \in Active /\ SameButAlone(req[k], req'[k]) /\ ~req'[k].alone
           /\ sound' \subseteq sound
           /\ Foes(h, r) = {} => sound' = sound
           /\ Foes(h, r) # {} =>
                 /\ sound' \cap NamedBy(r).listings = {}
                 /\ \A k \in Foes(h, r) : sound' \cap NamedBy(req[k]).listings = {}
<1> DEFINE foes == Foes(h, r)
           touched == NamedBy(r).listings \cup UNION {NamedBy(req[k]).listings : k \in foes}
<1>1. /\ pc' = [pc EXCEPT ![h] = stage]
      /\ req' = [k \in Handlers |->
                      CASE k = h      -> [r EXCEPT !.alone = foes = {}]
                        [] k \in foes -> [req[k] EXCEPT !.alone = FALSE]
                        [] OTHER      -> req[k]]
      /\ sound' = IF foes = {} THEN sound ELSE sound \ touched
  BY DEF Take, Goto, Foes
<1>2. h \notin foes /\ foes \subseteq Active /\ foes \subseteq Handlers
  BY DEF Foes, Active
<1> HIDE DEF foes
<1>3. (foes = {}) \in BOOLEAN
  OBVIOUS
<1>4. req'[h] = [r EXCEPT !.alone = foes = {}]
  BY <1>1, <1>2
<1>5. req'[h] \in RequestRow /\ SameButAlone(r, req'[h]) /\ req'[h].alone = (foes = {})
  BY <1>3, <1>4, AloneOrNot
<1>6. ASSUME NEW k \in Handlers \ {h}
      PROVE  /\ k \notin foes => req'[k] = req[k]
             /\ k \in foes => SameButAlone(req[k], req'[k]) /\ ~req'[k].alone
             /\ req'[k] \in RequestRow
  <2>1. req[k] \in RequestRow
    BY DEF Typed
  <2>2. CASE k \in foes
    <3>1. req'[k] = [req[k] EXCEPT !.alone = FALSE]
      BY <1>1, <2>2
    <3>2. PICK q : q = req'[k]
      OBVIOUS
    <3>3. q \in RequestRow /\ q.alone = FALSE /\ SameButAlone(req[k], q)
      BY <2>1, <3>1, <3>2, AloneOrNot
    <3> QED BY <2>2, <3>2, <3>3
  <2>3. CASE k \notin foes
    BY <1>1, <2>1, <2>3
  <2> QED BY <2>2, <2>3
<1>7. req' \in [Handlers -> RequestRow]
  BY <1>1, <1>5, <1>6
<1>8. sound' \subseteq sound /\ (foes = {} => sound' = sound)
  BY <1>1
<1>9. foes # {} =>
                 /\ sound' \cap NamedBy(r).listings = {}
                 /\ \A k \in foes : sound' \cap NamedBy(req[k]).listings = {}
  <2> SUFFICES ASSUME foes # {}
               PROVE  /\ sound' \cap NamedBy(r).listings = {}
                      /\ \A k \in foes : sound' \cap NamedBy(req[k]).listings = {}
    OBVIOUS
  <2>1. \A l \in touched : l \notin sound'
    BY <1>1
  <2>2. \A l \in NamedBy(r).listings : l \in touched
    OBVIOUS
  <2>3. \A k \in foes : \A l \in NamedBy(req[k]).listings : l \in touched
    OBVIOUS
  <2> HIDE DEF touched
  <2> QED BY <2>1, <2>2, <2>3
<1> QED BY <1>1, <1>2, <1>5, <1>6, <1>7, <1>8, <1>9 DEF foes

LEMMA TakeTyped ==
    ASSUME Typed, NEW h \in Handlers, NEW stage \in Stages \ {"idle", "bump"}, NEW r \in RequestRow,
           Asks(r), InPlace(stage, r), Take(h, stage, r),
           asked' \in Nat, UNCHANGED <<tables, cached, lost, today, tx>>, lastRun' \in Nat
    PROVE  Typed'
<1>1. pc' = [pc EXCEPT ![h] = stage] /\ req' \in [Handlers -> RequestRow] /\ sound' \subseteq sound
  BY TakeIs
<1>2. Tables'
  BY <1>1 DEF Typed, Tables, tables
<1>3. pc' \in [Handlers -> Stages] /\ tx' \in [Handlers -> Writes]
  BY <1>1 DEF Typed
<1>4. ASSUME NEW k \in Handlers PROVE Asks(req'[k]) /\ InPlace(pc'[k], req'[k])
  <2>1. CASE k = h
    <3>1. pc'[k] = stage /\ SameButAlone(r, req'[k])
      BY <1>1, <2>1, TakeIs DEF Typed
    <3> QED BY <3>1, SameAsks, SamePlace
  <2>2. CASE k # h
    <3>1. pc'[k] = pc[k] /\ Asks(req[k]) /\ InPlace(pc[k], req[k])
      BY <1>1, <2>2 DEF Typed
    <3>2. CASE k \notin Foes(h, r)
      BY <2>2, <3>1, <3>2, TakeIs
    <3>3. CASE k \in Foes(h, r)
      <4>1. SameButAlone(req[k], req'[k]) /\ k \in Active
        BY <2>2, <3>3, TakeIs
      <4>2. pc[k] \notin {"idle", "bump"}
        BY <4>1 DEF Active
      <4> QED BY <3>1, <4>1, <4>2, SameAsks, SamePlace
    <3> QED BY <3>2, <3>3
  <2> QED BY <2>1, <2>2
<1> QED BY <1>1, <1>2, <1>3, <1>4 DEF Typed

NoMembersLeft == \A p \in Promotions : ~Exists(promotions[p]) => DOMAIN items[p] = {}

\* What may be asked, where it begins, and that nothing but the request is touched.
Accepted(h) ==
    \E stage, r :
        /\ pc[h] = "idle" /\ Take(h, stage, r)
        /\ r \in RequestRow /\ r.cursor = 0 /\ r.todo = {} /\ r.reads = {}
        /\ r.kind # "none" /\ r.kind # "boot" /\ Asks(r)
        /\ stage \in Stages \ ({"idle", "bump", "items", "commit", "done"} \cup Recalculating) /\ InPlace(stage, r)
        /\ r.kind \in OnPromotion => DOMAIN items[r.id] \subseteq r.where
        /\ r.kind = "tick" => r.from = lastRun /\ r.now = today /\ lastRun' = today /\ lastRun <= today
        /\ r.kind # "tick" => lastRun' = lastRun
        /\ asked' \in Nat /\ UNCHANGED <<tables, cached, lost, today, tx>>

LEMMA AcceptIs ==
    ASSUME Typed, NEW h \in Handlers, NEW stage \in Stages \ ({"idle", "bump", "items", "commit", "done"} \cup Recalculating),
           NEW kind \in Kinds \ {"none", "boot", "tick"}, NEW id \in Nat, NEW dto \in Dtos,
           NEW where \in SUBSET Listings, Accept(h, stage, Request(kind, id, dto, where)),
           Asks(Request(kind, id, dto, where)), InPlace(stage, Request(kind, id, dto, where)),
           kind \in OnPromotion => DOMAIN items[id] \subseteq where
    PROVE  Accepted(h)
<1>1. PICK r : r = Request(kind, id, dto, where)
  OBVIOUS
<1>2. /\ r \in RequestRow /\ r.kind = kind /\ r.id = id /\ r.where = where
      /\ r.cursor = 0 /\ r.todo = {} /\ r.reads = {}
  BY <1>1, AskedTyped
<1>3. Take(h, stage, r) /\ pc[h] = "idle" /\ asked' = asked + 1 /\ UNCHANGED <<tables, cached, lost, clock, tx>>
  BY <1>1 DEF Accept
<1>4. asked' \in Nat
  BY <1>3 DEF Typed, Tables
<1> QED BY <1>1, <1>2, <1>3, <1>4 DEF Accepted, clock

LEMMA IdsTyped ==
    /\ \A l \in Listings : l \in Nat
    /\ \A p \in Promotions : p \in Nat
BY IdsAssumption

\* Requests of one kind have little to say of the stages of others.
LEMMA InPlaceAtFirst ==
    ASSUME NEW r, r.cursor = 0, r.todo = {}, r.reads = {}
    PROVE  /\ r.kind = "create" => InPlace("insert", r)
           /\ r.kind = "update" => InPlace("edit", r)
           /\ r.kind = "order" => InPlace("stock", r)
           /\ r.kind = "remove" => InPlace("delete", r)
           /\ r.kind \in {"createPromotion", "updatePromotion"} /\ r.dto.items # Keep => InPlace("check", r)
           /\ r.kind = "updatePromotion" => InPlace("head", r)
           /\ r.kind = "removePromotion" => InPlace("drop", r)
           /\ r.kind = "settings" => InPlace("settings", r) /\ (r.dto.markupTiers # Keep => InPlace("tiers", r))
           /\ r.kind = "priorities" => InPlace("order", r)
           /\ r.kind = "tick" => InPlace("scope", r)
BY DEF InPlace, Recalculating

FirstStages == Stages \ ({"idle", "bump", "items", "commit", "done"} \cup Recalculating)

LEMMA FirstStagesAre ==
    {"insert", "edit", "stock", "delete", "check", "head", "drop", "tiers", "settings", "order", "scope"}
        \subseteq FirstStages
BY DEF FirstStages, Stages, Recalculating

LEMMA AskAccepted ==
    ASSUME Typed, NoMembersLeft, NEW h \in Handlers, Ask(h)
    PROVE  Accepted(h)
<1>k. Keep \in Dtos /\ 0 \in Nat
  BY DEF Dtos
<1>1. ASSUME NEW l \in Listings, Remove(h, l) PROVE Accepted(h)
  <2> DEFINE r == Request("remove", l, Keep, {})
  <2>0. "remove" \in Kinds \ {"none", "boot", "tick"} /\ {} \in SUBSET Listings /\ l \in Nat
    BY IdsTyped DEF Kinds
  <2>1. r.kind = "remove" /\ r.id = l /\ r.cursor = 0 /\ r.todo = {} /\ r.reads = {}
    BY <2>0, <1>k, AskedTyped
  <2>2. Asks(r) /\ InPlace("delete", r)
    BY <2>1, InPlaceAtFirst DEF Asks, OnPromotion
  <2>3. "delete" \in FirstStages /\ "remove" \notin OnPromotion
    BY FirstStagesAre DEF OnPromotion
  <2> QED BY <1>1, <1>k, <2>0, <2>2, <2>3, AcceptIs DEF Remove, FirstStages
<1>2. ASSUME NEW l \in Listings, NEW dto \in ListingDtos, Create(h, l, dto) PROVE Accepted(h)
  <2> DEFINE r == Request("create", l, dto, {l})
  <2>0. "create" \in Kinds \ {"none", "boot", "tick"} /\ {l} \in SUBSET Listings /\ l \in Nat /\ dto \in Dtos
    BY IdsTyped DEF Kinds, Dtos, Transactional
  <2>1. r.kind = "create" /\ r.id = l /\ r.dto = dto /\ r.where = {l} /\ r.cursor = 0 /\ r.todo = {} /\ r.reads = {}
    BY <2>0, AskedTyped
  <2>2. Asks(r) /\ InPlace("insert", r)
    BY <1>2, <2>1, InPlaceAtFirst DEF Asks, OnPromotion, Create
  <2>3. "insert" \in FirstStages /\ "create" \notin OnPromotion
    BY FirstStagesAre DEF OnPromotion
  <2> QED BY <1>2, <2>0, <2>2, <2>3, AcceptIs DEF Create, FirstStages
<1>3. ASSUME NEW l \in Listings, NEW dto \in ListingDtos, Update(h, l, dto) PROVE Accepted(h)
  <2> DEFINE r == Request("update", l, dto, {l})
  <2>0. "update" \in Kinds \ {"none", "boot", "tick"} /\ {l} \in SUBSET Listings /\ l \in Nat /\ dto \in Dtos
    BY IdsTyped DEF Kinds, Dtos, Transactional
  <2>1. r.kind = "update" /\ r.id = l /\ r.dto = dto /\ r.where = {l} /\ r.cursor = 0 /\ r.todo = {} /\ r.reads = {}
    BY <2>0, AskedTyped
  <2>2. Asks(r) /\ InPlace("edit", r)
    BY <2>1, InPlaceAtFirst DEF Asks, OnPromotion
  <2>3. "edit" \in FirstStages /\ "update" \notin OnPromotion
    BY FirstStagesAre DEF OnPromotion
  <2> QED BY <1>3, <2>0, <2>2, <2>3, AcceptIs DEF Update, FirstStages
<1>4. ASSUME NEW ls \in Sales, Sell(h, ls) PROVE Accepted(h)
  <2> DEFINE r == Request("order", 0, Keep, ls)
  <2>0. "order" \in Kinds \ {"none", "boot", "tick"} /\ ls \in SUBSET Listings /\ ls # {}
    BY RequestsAssumption DEF Kinds, Transactional
  <2>1. r.kind = "order" /\ r.where = ls /\ r.cursor = 0 /\ r.todo = {} /\ r.reads = {}
    BY <1>k, <2>0, AskedTyped
  <2>2. Asks(r) /\ InPlace("stock", r)
    BY <2>0, <2>1, InPlaceAtFirst DEF Asks, OnPromotion
  <2>3. "stock" \in FirstStages /\ "order" \notin OnPromotion
    BY FirstStagesAre DEF OnPromotion
  <2> QED BY <1>4, <1>k, <2>0, <2>2, <2>3, AcceptIs DEF Sell, FirstStages
<1>5. ASSUME NEW p \in Promotions, RemovePromotion(h, p) PROVE Accepted(h)
  <2> DEFINE r == Request("removePromotion", p, Keep, DOMAIN items[p])
  <2>0. "removePromotion" \in Kinds \ {"none", "boot", "tick"} /\ DOMAIN items[p] \in SUBSET Listings /\ p \in Nat
    BY IdsTyped, RowsAre DEF Kinds, Transactional, Typed, Tables
  <2>1. r.kind = "removePromotion" /\ r.id = p /\ r.cursor = 0 /\ r.todo = {} /\ r.reads = {}
    BY <1>k, <2>0, AskedTyped
  <2>2. Asks(r) /\ InPlace("drop", r)
    BY <2>1, InPlaceAtFirst DEF Asks, OnPromotion
  <2>3. "drop" \in FirstStages
    BY FirstStagesAre
  <2> QED BY <1>5, <1>k, <2>0, <2>2, <2>3, AcceptIs DEF RemovePromotion, FirstStages
<1>6. ASSUME NEW p \in Promotions, NEW dto \in PromotionDtos, CreatePromotion(h, p, dto) PROVE Accepted(h)
  <2> DEFINE r == Request("createPromotion", p, dto, DOMAIN dto.items)
  <2>0. "createPromotion" \in Kinds \ {"none", "boot", "tick"} /\ p \in Nat /\ dto \in Dtos
    BY IdsTyped DEF Kinds, Transactional, Dtos
  <2>4. dto.items # Keep /\ Keep \notin {dto.enabled, dto.startsAt, dto.endsAt, dto.items} /\ promotions[p] = None
    BY <1>6 DEF CreatePromotion
  <2>5. DOMAIN dto.items \in SUBSET Listings
    BY <2>4, RequestsAssumption DEF Partial
  <2>1. r.kind = "createPromotion" /\ r.id = p /\ r.dto = dto /\ r.where = DOMAIN dto.items
        /\ r.cursor = 0 /\ r.todo = {} /\ r.reads = {}
    BY <2>0, <2>5, AskedTyped
  <2>2. Asks(r) /\ InPlace("check", r)
    BY <2>1, <2>4, InPlaceAtFirst DEF Asks, OnPromotion
  <2>3. "check" \in FirstStages
    BY FirstStagesAre
  <2>6. DOMAIN items[p] = {}
    BY <2>4 DEF NoMembersLeft, Exists
  <2>7. Accept(h, "check", r) /\ DOMAIN items[p] \subseteq DOMAIN dto.items
    BY <1>6, <2>6 DEF CreatePromotion
  <2> QED BY <2>0, <2>2, <2>3, <2>5, <2>7, AcceptIs DEF FirstStages
<1>7. ASSUME NEW p \in Promotions, NEW dto \in PromotionDtos, UpdatePromotion(h, p, dto) PROVE Accepted(h)
  <2> DEFINE r == Request("updatePromotion", p, dto, Scope(p, dto))
             stage == IF dto.items = Keep THEN "head" ELSE "check"
  <2>0. "updatePromotion" \in Kinds \ {"none", "boot", "tick"} /\ p \in Nat /\ dto \in Dtos
    BY IdsTyped DEF Kinds, Transactional, Dtos
  <2>4. dto.items # Keep => DOMAIN dto.items \in SUBSET Listings
    BY RequestsAssumption DEF Partial
  <2>5. DOMAIN items[p] \in SUBSET Listings
    BY RowsAre DEF Typed, Tables
  <2>6. Scope(p, dto) \in SUBSET Listings /\ DOMAIN items[p] \subseteq Scope(p, dto)
        /\ (dto.items # Keep => DOMAIN dto.items \subseteq Scope(p, dto))
    BY <2>4, <2>5 DEF Scope
  <2>1. r.kind = "updatePromotion" /\ r.id = p /\ r.dto = dto /\ r.where = Scope(p, dto)
        /\ r.cursor = 0 /\ r.todo = {} /\ r.reads = {}
    BY <2>0, <2>6, AskedTyped
  <2>2. Asks(r) /\ InPlace(stage, r)
    BY <2>1, <2>6, InPlaceAtFirst DEF Asks, OnPromotion
  <2>3. stage \in FirstStages
    BY FirstStagesAre
  <2>7. Accept(h, stage, r)
    BY <1>7 DEF UpdatePromotion
  <2> HIDE DEF stage
  <2> QED BY <2>0, <2>2, <2>3, <2>6, <2>7, AcceptIs DEF FirstStages
<1>8. ASSUME NEW dto \in SettingsDtos, UpdateSettings(h, dto) PROVE Accepted(h)
  <2> DEFINE r == Request("settings", 0, dto, {})
             stage == IF dto.markupTiers = Keep THEN "settings" ELSE "tiers"
  <2>0. "settings" \in Kinds \ {"none", "boot", "tick"} /\ dto \in Dtos /\ {} \in SUBSET Listings
    BY DEF Kinds, OfAll, Dtos
  <2>1. r.kind = "settings" /\ r.dto = dto /\ r.cursor = 0 /\ r.todo = {} /\ r.reads = {}
    BY <1>k, <2>0, AskedTyped
  <2>2. Asks(r) /\ InPlace(stage, r)
    BY <2>1, InPlaceAtFirst DEF Asks, OnPromotion
  <2>3. stage \in FirstStages /\ "settings" \notin OnPromotion
    BY FirstStagesAre DEF OnPromotion
  <2>7. Accept(h, stage, r)
    BY <1>8 DEF UpdateSettings
  <2> HIDE DEF stage
  <2> QED BY <1>k, <2>0, <2>2, <2>3, <2>7, AcceptIs DEF FirstStages
<1>9. ASSUME NEW order \in PriceOrder, SetPriorities(h, order) PROVE Accepted(h)
  <2> DEFINE r == Request("priorities", 0, order, {})
  <2>0. "priorities" \in Kinds \ {"none", "boot", "tick"} /\ order \in Dtos /\ {} \in SUBSET Listings
    BY DEF Kinds, OfAll, Dtos
  <2>1. r.kind = "priorities" /\ r.dto = order /\ r.cursor = 0 /\ r.todo = {} /\ r.reads = {}
    BY <1>k, <2>0, AskedTyped
  <2>2. Asks(r) /\ InPlace("order", r)
    BY <2>1, InPlaceAtFirst DEF Asks, OnPromotion
  <2>3. "order" \in FirstStages /\ "priorities" \notin OnPromotion
    BY FirstStagesAre DEF OnPromotion
  <2>7. Accept(h, "order", r)
    BY <1>9 DEF SetPriorities
  <2> QED BY <1>k, <2>0, <2>2, <2>3, <2>7, AcceptIs DEF FirstStages
<1> QED BY <1>1, <1>2, <1>3, <1>4, <1>5, <1>6, <1>7, <1>8, <1>9 DEF Ask

LEMMA TickAccepted ==
    ASSUME Typed, NEW h \in Handlers, Tick(h)
    PROVE  Accepted(h)
<1> DEFINE q == Request("tick", 0, Keep, {})
           r == [q EXCEPT !.from = lastRun, !.now = today]
<1>1. /\ q \in RequestRow /\ q.kind = "tick" /\ q.cursor = 0 /\ q.todo = {} /\ q.reads = {}
  <2>1. "tick" \in Kinds /\ 0 \in Nat /\ Keep \in Dtos /\ {} \in SUBSET Listings
    BY DEF Kinds, OfAll, Dtos
  <2> QED BY <2>1, AskedTyped
<1>2. lastRun \in Nat /\ today \in Nat /\ asked \in Nat
  BY DEF Typed, Tables
<1> HIDE DEF q
<1>3. /\ r \in RequestRow /\ r.kind = "tick" /\ r.cursor = 0 /\ r.todo = {} /\ r.reads = {}
      /\ r.from = lastRun /\ r.now = today
  BY <1>1, <1>2 DEF RequestRow
<1>4. Asks(r) /\ InPlace("scope", r)
  BY <1>3, InPlaceAtFirst DEF Asks, OnPromotion
<1>5. /\ pc[h] = "idle" /\ Take(h, "scope", r) /\ lastRun' = today /\ lastRun < today
      /\ UNCHANGED <<tables, cached, lost, today, tx, asked>>
  BY DEF Tick, q
<1>6. "scope" \in Stages \ ({"idle", "bump", "items", "commit", "done"} \cup Recalculating)
  BY FirstStagesAre DEF FirstStages
<1>7. lastRun <= today
  BY <1>2, <1>5
<1>8. "tick" \notin OnPromotion
  BY DEF OnPromotion
<1> HIDE DEF r
<1> QED BY <1>2, <1>3, <1>4, <1>5, <1>6, <1>7, <1>8 DEF Accepted

LEMMA AcceptedTyped ==
    ASSUME Typed, NEW h \in Handlers, Accepted(h)
    PROVE  Typed'
<1>1. PICK stage, r :
        /\ pc[h] = "idle" /\ Take(h, stage, r)
        /\ r \in RequestRow /\ Asks(r)
        /\ stage \in Stages \ ({"idle", "bump", "items", "commit", "done"} \cup Recalculating) /\ InPlace(stage, r)
        /\ r.kind = "tick" => lastRun' = today
        /\ r.kind # "tick" => lastRun' = lastRun
        /\ asked' \in Nat /\ UNCHANGED <<tables, cached, lost, today, tx>>
  BY DEF Accepted
<1>2. lastRun' \in Nat
  BY <1>1 DEF Typed, Tables
<1> QED BY <1>1, <1>2, TakeTyped

-----------------------------------------------------------------------------
(* The inductive invariant: what transactions have written *)

Writing == {"items", "commit"} \cup Recalculating

\* A listing that has lost its promotion to the one who deletes the promotion.
Marked(r, w, l) ==
    /\ r.kind = "removePromotion" /\ Exists(listings[l]) /\ listings[l].promotionId = r.id
    /\ w.listings[l] = [listings[l] EXCEPT !.promotionId = None]

\* What a request r that stands at stage has written: rows it recalculates or has marked,
\* and of promotions its own.
Wrote(stage, r, w) ==
    IF ~(r.kind \in Transactional /\ stage \in Writing) THEN w = NoTx
    ELSE /\ \A l \in DOMAIN w.listings : l \in r.where \/ Marked(r, w, l)
         /\ r.kind \notin OnPromotion => w.promotions = Empty /\ w.items = Empty
         /\ r.kind \in OnPromotion => DOMAIN w.promotions = {r.id} /\ DOMAIN w.items \subseteq {r.id}
         /\ r.kind \in {"createPromotion", "updatePromotion"} =>
               /\ w.promotions[r.id] \in PromotionRow
               /\ r.id \in DOMAIN w.items => r.dto.items # Keep /\ w.items[r.id] = r.dto.items
         /\ r.kind = "removePromotion" => w.promotions[r.id] = Gone /\ w.items = Only(r.id, Empty)

RowWhole(row) ==
    /\ row.onPromo <=> row.oldPrice # None
    /\ row.onPromo => row.price < row.oldPrice
    /\ row.promotionId # None => row.onPromo

\* What h has written is locked, whole, names promotions that are there and that nobody
\* is deleting; of a promotion it deletes nobody has been given the offer, and it has
\* marked the listings that had it.
Fits(h, w) ==
    /\ \A l \in DOMAIN w.listings : \A k \in Handlers \ {h} : l \notin DOMAIN tx[k].listings
    /\ \A l \in DOMAIN w.listings :
          LET row == w.listings[l]
          IN  /\ RowWhole(row)
              /\ row.promotionId # None =>
                    /\ Exists(Over(w.promotions, promotions)[row.promotionId])
                    /\ ~BeingDeleted(h, row.promotionId)
    /\ \A p \in DOMAIN w.promotions :
          /\ PromotionFree(h, p)
          /\ w.promotions[p] = Gone =>
                /\ \A k \in Handlers \ {h} : ~GivenBy(k, p)
                /\ \A l \in Listings :
                      Exists(listings[l]) /\ listings[l].promotionId = p => l \in DOMAIN w.listings

ListingsWhole ==
    \A l \in Listings : Exists(listings[l]) =>
        /\ RowWhole(listings[l])
        /\ listings[l].promotionId # None => Exists(promotions[listings[l].promotionId])

Transacted ==
    /\ Typed /\ NoMembersLeft /\ ListingsWhole
    /\ \A h \in Handlers : Wrote(pc[h], req[h], tx[h]) /\ Fits(h, tx[h])

\* Request h goes on: it stands at stage, knows r and has written w.
Turns(h, stage, r, w) ==
    /\ pc' = [pc EXCEPT ![h] = stage] /\ req' = [req EXCEPT ![h] = r] /\ tx' = [tx EXCEPT ![h] = w]

LEMMA TurnsIs ==
    ASSUME Typed, NEW h \in Handlers, NEW stage \in Stages, NEW r \in RequestRow, NEW w \in Writes,
           Turns(h, stage, r, w)
    PROVE  /\ pc' \in [Handlers -> Stages] /\ req' \in [Handlers -> RequestRow] /\ tx' \in [Handlers -> Writes]
           /\ pc'[h] = stage /\ req'[h] = r /\ tx'[h] = w
           /\ \A k \in Handlers \ {h} : pc'[k] = pc[k] /\ req'[k] = req[k] /\ tx'[k] = tx[k]
BY DEF Typed, Turns

\* The columns of what a transaction has written.
LEMMA WritesAre ==
    ASSUME NEW w \in Writes
    PROVE  /\ DOMAIN w.listings \subseteq Listings
           /\ \A l \in DOMAIN w.listings : w.listings[l] \in ListingRow
           /\ DOMAIN w.promotions \subseteq Promotions
           /\ \A p \in DOMAIN w.promotions : w.promotions[p] \in PromotionRow \cup {Gone}
           /\ DOMAIN w.items \subseteq Promotions
           /\ \A p \in DOMAIN w.items : w.items[p] \in Rows(Listings, Nat)
<1>1. /\ w.listings \in Rows(Listings, ListingRow) /\ w.promotions \in Rows(Promotions, PromotionRow \cup {Gone})
      /\ w.items \in Rows(Promotions, Rows(Listings, Nat))
  BY DEF Writes
<1> QED BY <1>1, RowsAre

LEMMA NothingFits ==
    ASSUME NEW h
    PROVE  Fits(h, NoTx)
BY EmptyRows, NothingWritten DEF Fits

\* A listing that somebody has written and that exists gives its promotion.
LEMMA GivenTo ==
    ASSUME Typed, NEW k \in Handlers, NEW l \in DOMAIN tx[k].listings
    PROVE  /\ tx[k].listings[l] \in ListingRow /\ Exists(tx[k].listings[l])
           /\ GivenBy(k, tx[k].listings[l].promotionId)
<1>1. tx[k].listings[l] \in ListingRow
  BY WritesAre DEF Typed
<1>2. Exists(tx[k].listings[l])
  BY <1>1, ExistsRow
<1> QED BY <1>1, <1>2 DEF GivenBy

LEMMA WorkFits ==
    ASSUME Transacted, NEW h \in Handlers, NEW w \in Writes, Fits(h, w),
           UNCHANGED <<listings, promotions>>,
           tx' \in [Handlers -> Writes], tx'[h] = w, \A k \in Handlers \ {h} : tx'[k] = tx[k],
           NEW k \in Handlers
    PROVE  Fits(k, tx[k])'
<1>0. Typed /\ Fits(k, tx[k])
  BY DEF Transacted
<1>1. CASE k = h
  <2>1. \A l \in DOMAIN w.listings : \A j \in Handlers \ {h} : l \notin DOMAIN tx'[j].listings
    BY DEF Fits
  <2>2. \A p : BeingDeleted(h, p)' => BeingDeleted(h, p)
    BY DEF BeingDeleted
  <2>3. \A p : PromotionFree(h, p) => PromotionFree(h, p)'
    BY DEF PromotionFree
  <2>4. \A p : \A j \in Handlers \ {h} : GivenBy(j, p)' => GivenBy(j, p)
    BY DEF GivenBy
  <2>5. Fits(h, w)'
    BY <2>1, <2>2, <2>3, <2>4 DEF Fits
  <2> QED BY <1>1, <2>5
<1>2. CASE k # h
  <2>0. PICK u \in Writes : tx'[k] = u /\ tx[k] = u
    BY <1>0, <1>2 DEF Typed
  <2>f. Fits(k, u)
    BY <1>0, <2>0
  <2>1. \A l \in DOMAIN u.listings : \A j \in Handlers \ {k} : l \notin DOMAIN tx'[j].listings
    BY <1>2, <2>0, <2>f DEF Fits
  <2>2. ASSUME NEW l \in DOMAIN u.listings, NEW p, u.listings[l].promotionId = p, p # None
        PROVE  Exists(Over(u.promotions, promotions)[p]) /\ ~BeingDeleted(k, p)'
    <3>1. Exists(Over(u.promotions, promotions)[p]) /\ ~BeingDeleted(k, p)
      BY <2>2, <2>f DEF Fits
    <3>2. GivenBy(k, p)
      BY <1>0, <2>0, <2>2, GivenTo
    <3>3. p \in DOMAIN w.promotions => w.promotions[p] # Gone
      BY <1>2, <3>2 DEF Fits
    <3>4. ~BeingDeleted(k, p)'
      BY <3>1, <3>3 DEF BeingDeleted
    <3> QED BY <3>1, <3>4
  <2>3. ASSUME NEW p \in DOMAIN u.promotions
        PROVE  /\ PromotionFree(k, p)'
               /\ u.promotions[p] = Gone => \A j \in Handlers \ {k} : ~GivenBy(j, p)'
    <3>1. PromotionFree(k, p) /\ (u.promotions[p] = Gone => \A j \in Handlers \ {k} : ~GivenBy(j, p))
      BY <2>f DEF Fits
    <3>2. p \notin DOMAIN w.promotions
      BY <1>2, <2>0 DEF Fits, PromotionFree
    <3>3. PromotionFree(k, p)'
      BY <3>1, <3>2 DEF PromotionFree
    <3>4. ASSUME u.promotions[p] = Gone, NEW j \in Handlers \ {k}, GivenBy(j, p)' PROVE FALSE
      <4>1. CASE j # h
        BY <3>1, <3>4, <4>1 DEF GivenBy
      <4>2. CASE j = h
        <5>1. PICK l \in DOMAIN w.listings : Exists(w.listings[l]) /\ w.listings[l].promotionId = p
          BY <3>4, <4>2 DEF GivenBy
        <5>2. BeingDeleted(h, p)
          BY <1>2, <2>0, <3>4 DEF BeingDeleted
        <5>3. p # None
          BY WritesAre, IdsTyped, NoneIsNoNumber
        <5> QED BY <5>1, <5>2, <5>3 DEF Fits
      <4> QED BY <4>1, <4>2
    <3> QED BY <3>3, <3>4
  <2>6. /\ \A l \in DOMAIN u.listings : RowWhole(u.listings[l])
        /\ \A p \in DOMAIN u.promotions : u.promotions[p] = Gone =>
              \A l \in Listings : Exists(listings[l]) /\ listings[l].promotionId = p => l \in DOMAIN u.listings
    BY <2>f DEF Fits
  <2>7. Fits(k, u)'
    BY <2>1, <2>2, <2>3, <2>6 DEF Fits
  <2> QED BY <2>0, <2>7
<1> QED BY <1>1, <1>2

\* A step that leaves the tables keeps Transacted if what h has written fits.
LEMMA WorkTransacted ==
    ASSUME Transacted, NEW h \in Handlers, NEW stage \in Stages, NEW r \in RequestRow, NEW w \in Writes,
           Turns(h, stage, r, w), Tables', UNCHANGED <<listings, promotions, items>>,
           Asks(r), InPlace(stage, r), Wrote(stage, r, w), Fits(h, w)
    PROVE  Transacted'
<1>0. Typed
  BY DEF Transacted
<1>1. /\ tx' \in [Handlers -> Writes]
      /\ pc'[h] = stage /\ req'[h] = r /\ tx'[h] = w
      /\ \A k \in Handlers \ {h} : pc'[k] = pc[k] /\ req'[k] = req[k] /\ tx'[k] = tx[k]
  BY <1>0, TurnsIs
<1>2. Typed'
  <2>1. Moves(h, stage, r)
    BY DEF Moves, Turns
  <2> QED BY <1>0, <1>1, <2>1, MoveTyped
<1>3. NoMembersLeft' /\ ListingsWhole'
  BY DEF Transacted, NoMembersLeft, ListingsWhole
<1>4. ASSUME NEW k \in Handlers PROVE Wrote(pc[k], req[k], tx[k])'
  <2>1. CASE k = h
    <3>1. Wrote(stage, r, w)'
      BY DEF Wrote, Marked
    <3> QED BY <1>1, <2>1, <3>1
  <2>2. CASE k # h
    <3>1. Wrote(pc[k], req[k], tx[k])
      BY DEF Transacted
    <3>2. pc'[k] = pc[k] /\ req'[k] = req[k] /\ tx'[k] = tx[k]
      BY <1>1, <2>2
    <3> QED BY <3>1, <3>2 DEF Wrote, Marked
  <2> QED BY <2>1, <2>2
<1>5. ASSUME NEW k \in Handlers PROVE Fits(k, tx[k])'
  BY <1>1, WorkFits
<1> QED BY <1>2, <1>3, <1>4, <1>5 DEF Transacted

LEMMA NothingWrote ==
    ASSUME NEW stage
    PROVE  Wrote(stage, NoReq, NoTx)
BY DEF Wrote, NoReq, Transactional

LEMMA EndTransacted ==
    ASSUME Transacted, NEW h \in Handlers, NEW stage \in {"idle", "bump"}, Go(h, stage, NoReq),
           tx' = [tx EXCEPT ![h] = NoTx], Tables', UNCHANGED <<listings, promotions, items>>
    PROVE  Transacted'
<1>1. Turns(h, stage, NoReq, NoTx) /\ stage \in Stages
  BY DEF Go, Goto, Turns, Stages
<1>2. NoReq \in RequestRow /\ NoTx \in Writes /\ Asks(NoReq) /\ InPlace(stage, NoReq)
  BY NothingAsked, NothingWritten
<1> QED BY <1>1, <1>2, NothingFits, NothingWrote, WorkTransacted

\* The rows that transactions have locked are as they were.
Undisturbed(h) == \A k \in Handlers \ {h} : \A l \in DOMAIN tx[k].listings : listings'[l] = listings[l]

LEMMA OthersWrote ==
    ASSUME Transacted, NEW h \in Handlers, Undisturbed(h), NEW k \in Handlers \ {h},
           pc'[k] = pc[k], req'[k] = req[k], tx'[k] = tx[k]
    PROVE  Wrote(pc[k], req[k], tx[k])'
<1>1. PICK u \in Writes, r \in RequestRow, stage \in Stages : tx[k] = u /\ req[k] = r /\ pc[k] = stage
  BY DEF Transacted, Typed
<1>2. Wrote(stage, r, u) /\ \A l \in DOMAIN u.listings : listings'[l] = listings[l]
  BY <1>1 DEF Transacted, Undisturbed
<1>3. \A l \in DOMAIN u.listings : Marked(r, u, l) => Marked(r, u, l)'
  BY <1>2 DEF Marked
<1>4. Wrote(stage, r, u)'
  BY <1>2, <1>3 DEF Wrote
<1> QED BY <1>1, <1>4

\* Others are not disturbed when h changes the tables, and has nothing open afterwards.
LEMMA OthersFit ==
    ASSUME Transacted, NEW h \in Handlers, Undisturbed(h), tx' = [tx EXCEPT ![h] = NoTx],
           \A k \in Handlers \ {h} : \A p \in Promotions \ DOMAIN tx[k].promotions :
              GivenBy(k, p) /\ Exists(promotions[p]) => Exists(promotions'[p]),
           \A l \in Listings : \A k \in Handlers \ {h} :
              Exists(listings'[l]) /\ listings'[l].promotionId # None
                   /\ listings'[l].promotionId \in DOMAIN tx[k].promotions
                   /\ tx[k].promotions[listings'[l].promotionId] = Gone
                 => Exists(listings[l]) /\ listings'[l].promotionId = listings[l].promotionId,
           promotions \in [Promotions -> PromotionRow \cup {None, Gone}],
           promotions' \in [Promotions -> PromotionRow \cup {None, Gone}],
           NEW k \in Handlers \ {h}
    PROVE  Fits(k, tx[k])'
<1>0. Typed /\ tx \in [Handlers -> Writes]
  BY DEF Transacted, Typed
<1>1. PICK u \in Writes : tx'[k] = u /\ tx[k] = u
  BY <1>0
<1>2. Fits(k, u)
  BY <1>1 DEF Transacted
<1>3. tx'[h] = NoTx /\ \A j \in Handlers \ {h} : tx'[j] = tx[j]
  BY <1>0
<1>4. NoTx.listings = Empty /\ DOMAIN NoTx.listings = {} /\ DOMAIN NoTx.promotions = {}
  BY NothingWritten, EmptyRows
<1>5. \A l \in DOMAIN u.listings : \A j \in Handlers \ {k} : l \notin DOMAIN tx'[j].listings
  BY <1>2, <1>3, <1>4 DEF Fits
<1>6. ASSUME NEW l \in DOMAIN u.listings, NEW p, u.listings[l].promotionId = p, p # None
      PROVE  Exists(Over(u.promotions, promotions')[p]) /\ ~BeingDeleted(k, p)'
  <2>1. Exists(Over(u.promotions, promotions)[p]) /\ ~BeingDeleted(k, p) /\ GivenBy(k, p)
    BY <1>0, <1>1, <1>2, <1>6, GivenTo DEF Fits
  <2>2. p \in Promotions
    BY <1>0, <1>1, <1>6, GivenTo DEF ListingRow
  <2>3. Exists(Over(u.promotions, promotions')[p])
    BY <1>1, <2>1, <2>2 DEF Over
  <2>4. ~BeingDeleted(k, p)'
    BY <1>3, <1>4, <2>1 DEF BeingDeleted
  <2> QED BY <2>3, <2>4
<1>7. ASSUME NEW p \in DOMAIN u.promotions
      PROVE  /\ PromotionFree(k, p)'
             /\ u.promotions[p] = Gone =>
                   /\ \A j \in Handlers \ {k} : ~GivenBy(j, p)'
                   /\ \A l \in Listings : Exists(listings'[l]) /\ listings'[l].promotionId = p => l \in DOMAIN u.listings
  <2>1. PromotionFree(k, p)'
    BY <1>2, <1>3, <1>4 DEF Fits, PromotionFree
  <2>2. ASSUME u.promotions[p] = Gone, NEW j \in Handlers \ {k} PROVE ~GivenBy(j, p)'
    BY <1>2, <1>3, <1>4, <2>2 DEF Fits, GivenBy
  <2>3. ASSUME u.promotions[p] = Gone, NEW l \in Listings, Exists(listings'[l]), listings'[l].promotionId = p
        PROVE  l \in DOMAIN u.listings
    <3>1. p # None
      BY WritesAre, IdsTyped, NoneIsNoNumber
    <3>2. Exists(listings[l]) /\ listings[l].promotionId = p
      BY <1>1, <2>3, <3>1
    <3> QED BY <1>2, <2>3, <3>2 DEF Fits
  <2> QED BY <2>1, <2>2, <2>3
<1>8. \A l \in DOMAIN u.listings : RowWhole(u.listings[l])
  BY <1>2 DEF Fits
<1>9. Fits(k, u)'
  BY <1>5, <1>6, <1>7, <1>8 DEF Fits
<1> QED BY <1>1, <1>9

LEMMA VouchedTyped ==
    ASSUME Typed, NEW h \in Handlers
    PROVE  Vouched(h) \in SUBSET Listings
BY DEF Typed, Tables, RequestRow, Vouched

\* The promotions a transaction has written are those it deletes and those that exist.
LEMMA WrotePromotions ==
    ASSUME Transacted, NEW h \in Handlers
    PROVE  /\ \A p \in DOMAIN tx[h].items : p \in DOMAIN tx[h].promotions
           /\ \A p \in DOMAIN tx[h].promotions :
                 /\ p = req[h].id /\ req[h].kind \in OnPromotion
                 /\ req[h].kind = "removePromotion" =>
                       tx[h].promotions[p] = Gone /\ tx[h].items = Only(p, Empty)
                 /\ req[h].kind # "removePromotion" =>
                       /\ tx[h].promotions[p] \in PromotionRow
                       /\ p \in DOMAIN tx[h].items => tx[h].items[p] = req[h].dto.items
<1>1. PICK w, r, stage : tx[h] = w /\ req[h] = r /\ pc[h] = stage
  OBVIOUS
<1>2. Wrote(stage, r, w)
  BY <1>1 DEF Transacted
<1>3. CASE w = NoTx
  BY <1>1, <1>3, NothingWritten, EmptyRows
<1>4. CASE w # NoTx
  <2>1. /\ r.kind \notin OnPromotion => w.promotions = Empty /\ w.items = Empty
        /\ r.kind \in OnPromotion => DOMAIN w.promotions = {r.id} /\ DOMAIN w.items \subseteq {r.id}
        /\ r.kind \in {"createPromotion", "updatePromotion"} =>
               /\ w.promotions[r.id] \in PromotionRow
               /\ r.id \in DOMAIN w.items => w.items[r.id] = r.dto.items
        /\ r.kind = "removePromotion" => w.promotions[r.id] = Gone /\ w.items = Only(r.id, Empty)
    BY <1>2, <1>4 DEF Wrote
  <2>2. DOMAIN Empty = {}
    BY EmptyRows
  <2>3. r.kind \in OnPromotion /\ r.kind # "removePromotion" => r.kind \in {"createPromotion", "updatePromotion"}
    BY DEF OnPromotion
  <2> QED BY <1>1, <2>1, <2>2, <2>3
<1> QED BY <1>3, <1>4

LEMMA CommitTransacted ==
    ASSUME Transacted, NEW h \in Handlers, Commit(h)
    PROVE  Transacted'
<1>0. Typed /\ tx \in [Handlers -> Writes] /\ listings \in [Listings -> ListingRow \cup {None, Gone}]
      /\ promotions \in [Promotions -> PromotionRow \cup {None, Gone}] /\ items \in [Promotions -> Rows(Listings, Nat)]
  BY DEF Transacted, Typed, Tables
<1>1. PICK w \in Writes : tx[h] = w
  BY <1>0
<1>2. /\ listings' = SeenListings(h) /\ promotions' = SeenPromotions(h) /\ items' = SeenItems(h)
      /\ tx' = [tx EXCEPT ![h] = NoTx] /\ sound' = Vouched(h) /\ Go(h, "bump", NoReq)
      /\ UNCHANGED <<settings, cached, lost, clock, asked>>
  BY DEF Commit
<1>3. /\ listings' \in [Listings -> ListingRow \cup {None, Gone}]
      /\ promotions' \in [Promotions -> PromotionRow \cup {None, Gone}]
      /\ items' \in [Promotions -> Rows(Listings, Nat)]
      /\ \A l \in Listings : listings'[l] = IF l \in DOMAIN w.listings THEN w.listings[l] ELSE listings[l]
      /\ \A p \in Promotions :
            /\ promotions'[p] = IF p \in DOMAIN w.promotions THEN w.promotions[p] ELSE promotions[p]
            /\ items'[p] = IF p \in DOMAIN w.items THEN w.items[p] ELSE items[p]
  BY <1>0, <1>1, <1>2, SeenTyped
<1>4. Tables'
  BY <1>0, <1>2, <1>3, VouchedTyped DEF Tables, Typed, clock
<1>5. tx' \in [Handlers -> Writes] /\ tx'[h] = NoTx /\ \A k \in Handlers \ {h} : tx'[k] = tx[k]
  BY <1>0, <1>2, NothingWritten
<1>6. Typed'
  BY <1>0, <1>2, <1>4, <1>5, EndTyped
<1>7. pc'[h] = "bump" /\ req'[h] = NoReq /\ \A k \in Handlers \ {h} : pc'[k] = pc[k] /\ req'[k] = req[k]
  BY <1>0, <1>2 DEF Typed, Go, Goto
<1>8. Fits(h, w)
  BY <1>1 DEF Transacted
<1>9. Undisturbed(h)
  <2> SUFFICES ASSUME NEW k \in Handlers \ {h}, NEW l \in DOMAIN tx[k].listings PROVE listings'[l] = listings[l]
    BY DEF Undisturbed
  <2>1. l \in Listings
    BY <1>0, WritesAre
  <2>2. l \notin DOMAIN w.listings
    BY <1>8 DEF Fits
  <2> QED BY <1>3, <2>1, <2>2
<1>10. ASSUME NEW p \in DOMAIN w.promotions PROVE p \in Promotions /\ w.promotions[p] \in PromotionRow \cup {Gone}
  BY <1>1, WritesAre
<1>11. NoMembersLeft'
  <2> SUFFICES ASSUME NEW p \in Promotions, ~Exists(promotions'[p]) PROVE DOMAIN items'[p] = {}
    BY DEF NoMembersLeft
  <2>1. CASE p \in DOMAIN w.promotions
    <3>1. w.promotions[p] \notin PromotionRow
      BY <1>3, <2>1, ExistsRow
    <3>2. w.items = Only(p, Empty)
      BY <1>1, <2>1, <3>1, WrotePromotions
    <3>3. DOMAIN w.items = {p} /\ w.items[p] = Empty
      BY <3>2 DEF Only
    <3> QED BY <1>3, <3>3, EmptyRows
  <2>2. CASE p \notin DOMAIN w.promotions
    <3>1. p \notin DOMAIN w.items
      BY <1>1, <2>2, WrotePromotions
    <3>2. ~Exists(promotions[p]) /\ items'[p] = items[p]
      BY <1>3, <2>2, <3>1
    <3> QED BY <3>2 DEF Transacted, NoMembersLeft
  <2> QED BY <2>1, <2>2
<1>12. ListingsWhole'
  <2> SUFFICES ASSUME NEW l \in Listings, Exists(listings'[l])
               PROVE  /\ RowWhole(listings'[l])
                      /\ listings'[l].promotionId # None => Exists(promotions'[listings'[l].promotionId])
    BY DEF ListingsWhole
  <2>1. CASE l \in DOMAIN w.listings
    <3>1. listings'[l] = w.listings[l]
      BY <1>3, <2>1
    <3>2. RowWhole(w.listings[l])
          /\ (w.listings[l].promotionId # None => Exists(Over(w.promotions, promotions)[w.listings[l].promotionId]))
      BY <1>8, <2>1 DEF Fits
    <3>3. promotions' = Over(w.promotions, promotions)
      BY <1>1, <1>2 DEF SeenPromotions
    <3> QED BY <3>1, <3>2, <3>3
  <2>2. CASE l \notin DOMAIN w.listings
    <3>1. listings'[l] = listings[l]
      BY <1>3, <2>2
    <3>2. RowWhole(listings[l])
          /\ (listings[l].promotionId # None => Exists(promotions[listings[l].promotionId]))
      BY <3>1 DEF Transacted, ListingsWhole
    <3>3. ASSUME NEW p, listings[l].promotionId = p, p # None PROVE Exists(promotions'[p])
      <4>1. p \in Promotions
        BY <1>0, <3>1, <3>3, ExistsRow DEF ListingRow
      <4>2. p \notin DOMAIN w.promotions \/ w.promotions[p] # Gone
        BY <1>8, <2>2, <3>1, <3>3 DEF Fits
      <4> QED BY <1>3, <1>10, <3>2, <3>3, <4>1, <4>2, ExistsRow
    <3> QED BY <3>1, <3>2, <3>3
  <2> QED BY <2>1, <2>2
<1>13. ASSUME NEW k \in Handlers \ {h} PROVE Fits(k, tx[k])'
  <2>1. ASSUME NEW j \in Handlers \ {h}, NEW p \in Promotions \ DOMAIN tx[j].promotions,
               GivenBy(j, p), Exists(promotions[p])
        PROVE  Exists(promotions'[p])
    <3>1. p \notin DOMAIN w.promotions \/ w.promotions[p] # Gone
      BY <1>8, <2>1 DEF Fits
    <3> QED BY <1>3, <1>10, <2>1, <3>1, ExistsRow
  <2>2. ASSUME NEW l \in Listings, NEW j \in Handlers \ {h}, Exists(listings'[l]), NEW p, p = listings'[l].promotionId,
               p # None, p \in DOMAIN tx[j].promotions, tx[j].promotions[p] = Gone
        PROVE  Exists(listings[l]) /\ p = listings[l].promotionId
    <3>1. ~GivenBy(h, p)
      BY <2>2 DEF Transacted, Fits
    <3>2. l \notin DOMAIN w.listings
      BY <1>0, <1>1, <1>3, <2>2, <3>1 DEF GivenBy
    <3> QED BY <1>3, <2>2, <3>2
  <2>3. \A l \in Listings : \A j \in Handlers \ {h} :
              Exists(listings'[l]) /\ listings'[l].promotionId # None
                   /\ listings'[l].promotionId \in DOMAIN tx[j].promotions
                   /\ tx[j].promotions[listings'[l].promotionId] = Gone
                 => Exists(listings[l]) /\ listings'[l].promotionId = listings[l].promotionId
    BY <2>2
  <2>4. \A j \in Handlers \ {h} : \A p \in Promotions \ DOMAIN tx[j].promotions :
              GivenBy(j, p) /\ Exists(promotions[p]) => Exists(promotions'[p])
    BY <2>1
  <2> QED BY <1>0, <1>2, <1>3, <1>9, <2>3, <2>4, OthersFit
<1>14. ASSUME NEW k \in Handlers PROVE Wrote(pc[k], req[k], tx[k])' /\ Fits(k, tx[k])'
  <2>1. CASE k = h
    <3>1. Wrote("bump", NoReq, NoTx)' /\ Fits(h, NoTx)'
      BY NothingWrote, EmptyRows, NothingWritten DEF Fits, Wrote, NoReq, Transactional
    <3> QED BY <1>5, <1>7, <2>1, <3>1
  <2>2. CASE k # h
    BY <1>5, <1>7, <1>9, <1>13, <2>2, OthersWrote
  <2> QED BY <2>1, <2>2
<1> QED BY <1>6, <1>11, <1>12, <1>14 DEF Transacted

\* Rows written out of a transaction.
LEMMA RowsTransacted ==
    ASSUME Transacted, Typed', NoMembersLeft', NEW h \in Handlers, tx[h] = NoTx, Undisturbed(h),
           UNCHANGED <<promotions, tx>>, NEW stage \in Stages, NEW r \in RequestRow, Moves(h, stage, r),
           Wrote(stage, r, NoTx),
           \A l \in Listings : Exists(listings'[l]) =>
              \/ listings'[l] = listings[l]
              \/ /\ RowWhole(listings'[l])
                 /\ listings'[l].promotionId # None =>
                       Exists(promotions[listings'[l].promotionId]) /\ ~BeingDeleted(h, listings'[l].promotionId)
    PROVE  Transacted'
<1>0. Typed /\ tx \in [Handlers -> Writes] /\ promotions \in [Promotions -> PromotionRow \cup {None, Gone}]
  BY DEF Transacted, Typed, Tables
<1>1. tx' = [tx EXCEPT ![h] = NoTx]
  BY <1>0
<1>2. pc'[h] = stage /\ req'[h] = r /\ \A k \in Handlers \ {h} : pc'[k] = pc[k] /\ req'[k] = req[k]
  BY <1>0 DEF Typed, Moves
<1>3. ListingsWhole'
  BY DEF Transacted, ListingsWhole
<1>4. ASSUME NEW k \in Handlers \ {h} PROVE Fits(k, tx[k])'
  <2>1. ASSUME NEW l \in Listings, NEW j \in Handlers \ {h}, Exists(listings'[l]), NEW p, p = listings'[l].promotionId,
               p # None, p \in DOMAIN tx[j].promotions, tx[j].promotions[p] = Gone
        PROVE  Exists(listings[l]) /\ p = listings[l].promotionId
    <3>1. BeingDeleted(h, p)
      BY <2>1 DEF BeingDeleted
    <3> QED BY <2>1, <3>1
  <2>2. \A l \in Listings : \A j \in Handlers \ {h} :
              Exists(listings'[l]) /\ listings'[l].promotionId # None
                   /\ listings'[l].promotionId \in DOMAIN tx[j].promotions
                   /\ tx[j].promotions[listings'[l].promotionId] = Gone
                 => Exists(listings[l]) /\ listings'[l].promotionId = listings[l].promotionId
    BY <2>1
  <2> QED BY <1>0, <1>1, <2>2, OthersFit
<1>5. ASSUME NEW k \in Handlers PROVE Wrote(pc[k], req[k], tx[k])' /\ Fits(k, tx[k])'
  <2>1. CASE k = h
    <3>1. Wrote(stage, r, NoTx)' /\ Fits(h, NoTx)'
      <4>1. Wrote(stage, r, NoTx)'
        BY EmptyRows, NothingWritten DEF Wrote
      <4> QED BY <4>1, EmptyRows, NothingWritten DEF Fits
    <3> QED BY <1>2, <2>1, <3>1
  <2>2. CASE k # h
    BY <1>2, <1>4, <2>2, OthersWrote
  <2> QED BY <2>1, <2>2
<1> QED BY <1>3, <1>5 DEF Transacted

LEMMA DeleteTransacted ==
    ASSUME Transacted, NEW h \in Handlers, Delete(h)
    PROVE  Transacted'
<1>0. Typed /\ tx \in [Handlers -> Writes] /\ listings \in [Listings -> ListingRow \cup {None, Gone}]
      /\ items \in [Promotions -> Rows(Listings, Nat)]
  BY DEF Transacted, Typed, Tables
<1>1. /\ pc[h] = "delete" /\ req[h].kind = "remove" /\ req[h].id \in Listings
      /\ Go(h, "bump", NoReq)
      /\ UNCHANGED <<promotions, settings, cached, lost, clock, tx, asked, sound>>
      /\ listings' = [listings EXCEPT ![req[h].id] = Gone]
      /\ ListingsFree(h, {req[h].id})
  BY <1>0 DEF Typed, Delete, InPlace, Asks
<1>2. PICK l \in Listings : l = req[h].id
  BY <1>1
<1>3. /\ items' = [p \in Promotions |-> [m \in DOMAIN items[p] \ {l} |-> items[p][m]]]
  BY <1>2 DEF Delete
<1>4. ASSUME NEW p \in Promotions PROVE items'[p] \in Rows(Listings, Nat) /\ DOMAIN items'[p] \subseteq DOMAIN items[p]
  <2>1. DOMAIN items[p] \ {l} \subseteq DOMAIN items[p]
    OBVIOUS
  <2>2. [m \in DOMAIN items[p] \ {l} |-> items[p][m]] \in Rows(Listings, Nat)
    BY <1>0, <2>1, RowsNarrowed
  <2> QED BY <1>3, <2>2
<1>5. listings' \in [Listings -> ListingRow \cup {None, Gone}] /\ items' \in [Promotions -> Rows(Listings, Nat)]
  BY <1>0, <1>1, <1>3, <1>4
<1>6. Tables'
  BY <1>0, <1>1, <1>5 DEF Typed, Tables, clock
<1>7. tx[h] = NoTx
  <2>1. Wrote(pc[h], req[h], tx[h])
    BY DEF Transacted
  <2>2. "remove" \notin Transactional
    BY DEF Transactional
  <2> QED BY <1>1, <2>1, <2>2 DEF Wrote
<1>8. Typed'
  BY <1>0, <1>1, <1>6, EndTyped
<1>9. NoMembersLeft'
  BY <1>1, <1>4 DEF Transacted, NoMembersLeft
<1>10. Undisturbed(h)
  <2> SUFFICES ASSUME NEW k \in Handlers \ {h}, NEW m \in DOMAIN tx[k].listings PROVE listings'[m] = listings[m]
    BY DEF Undisturbed
  <2>1. m # l /\ m \in Listings
    BY <1>0, <1>1, <1>2, WritesAre DEF ListingsFree
  <2> QED BY <1>0, <1>1, <1>2, <2>1
<1>11. \A m \in Listings : Exists(listings'[m]) => listings'[m] = listings[m]
  BY <1>0, <1>1, <1>2 DEF Exists
<1>12. Moves(h, "bump", NoReq) /\ "bump" \in Stages
  BY <1>1 DEF Go, Goto, Moves, Stages
<1>13. promotions' = promotions /\ tx' = tx
  BY <1>1
<1> QED BY <1>7, <1>8, <1>9, <1>10, <1>11, <1>12, <1>13, NothingAsked, NothingWrote, RowsTransacted

-----------------------------------------------------------------------------
(* Steps on the way to a recalculation *)

SameRequest(q, r) == r.kind = q.kind /\ r.id = q.id /\ r.dto = q.dto /\ r.alone = q.alone

\* The listings of the promotions that have begun or ended.
Crossed(h, d) == d # None /\ req[h].from < d /\ d <= req[h].now

Transitioned(h) ==
    UNION {DOMAIN items[p] :
        p \in {q \in Promotions : /\ Exists(promotions[q]) /\ promotions[q].enabled
                                  /\ Crossed(h, promotions[q].startsAt) \/ Crossed(h, promotions[q].endsAt)}}

\* What a request that is about all listings recalculates.
Recalculated(h) == IF pc[h] = "scope" THEN Transitioned(h) ELSE Listings

\* What h knows when it goes on: nothing new, or it begins to recalculate.
Begins(h, stage, r) ==
    \/ /\ stage = "read" /\ r.now = today /\ r.reads = Queries
       /\ r.where = IF r.kind \in OfAll THEN Recalculated(h) ELSE req[h].where
    \/ stage = "commit" /\ r = req[h] /\ r.where = {}
    \/ stage \in {"insertPromotion", "head", "items", "settings", "settingsBump"} /\ r = req[h]

\* Only the settings and what the cache has of them are changed, and only by the
\* requests that change them.
Prepares(h, stage, r) ==
    /\ UNCHANGED <<listings, promotions, items, clock, asked, sound>>
    /\ settings' \in Settings /\ cached' \in Nat \cup {None} /\ lost' \in BOOLEAN
    /\ req[h].kind \notin OfAll \/ pc[h] = "scope" => settings' = settings
    /\ cached' # None /\ ~lost' =>
          stage = "settingsBump" \/ (cached # None /\ ~lost /\ pc[h] # "settingsBump")

Works(h) ==
    \E stage \in Stages \ {"idle", "bump"}, r \in RequestRow, w \in Writes :
        /\ h \in Active /\ pc[h] \notin {"page", "write", "commit", "done", "read"}
        /\ Turns(h, stage, r, w) /\ Prepares(h, stage, r) /\ Begins(h, stage, r)
        /\ SameRequest(req[h], r) /\ Asks(r) /\ InPlace(stage, r) /\ Wrote(stage, r, w) /\ Fits(h, w)

LEMMA WorksTransacted ==
    ASSUME Transacted, NEW h \in Handlers, Works(h)
    PROVE  Transacted'
<1>1. PICK stage \in Stages \ {"idle", "bump"}, r \in RequestRow, w \in Writes :
        /\ Turns(h, stage, r, w) /\ Prepares(h, stage, r)
        /\ Asks(r) /\ InPlace(stage, r) /\ Wrote(stage, r, w) /\ Fits(h, w)
  BY DEF Works
<1>2. Tables'
  BY <1>1 DEF Prepares, Transacted, Typed, Tables, clock
<1>3. UNCHANGED <<listings, promotions, items>>
  BY <1>1 DEF Prepares
<1> QED BY <1>1, <1>2, <1>3, WorkTransacted

LEMMA RecalculateIs ==
    ASSUME Typed, NEW h \in Handlers, NEW where \in SUBSET Listings, Recalculate(h, req[h], where),
           req[h].kind \in Transactional \cup OfAll, pc[h] \notin {"page", "write", "commit", "done"},
           where = IF req[h].kind \in OfAll THEN Recalculated(h) ELSE req[h].where
    PROVE  \E r \in RequestRow :
              /\ Go(h, "read", r) /\ SameRequest(req[h], r) /\ Asks(r) /\ InPlace("read", r) /\ r.where = where
              /\ Begins(h, "read", r)
<1>1. PICK q : q = req[h]
  OBVIOUS
<1>2. q \in RequestRow /\ Asks(q) /\ InPlace(pc[h], q) /\ today \in Nat
  BY <1>1 DEF Typed, Tables
<1>3. PICK r : r = [q EXCEPT !.where = where, !.now = today,
                            !.reads = {"step", "tiers", "order", "promotions"}, !.config = Unread]
  OBVIOUS
<1>4. Unread \in Config
  BY DEF Unread, Config
<1>5. r \in RequestRow /\ Go(h, "read", r) /\ r.kind = q.kind /\ r.id = q.id /\ r.dto = q.dto /\ r.alone = q.alone
      /\ r.where = where /\ r.now = today /\ r.reads = Queries /\ r.config = Unread
      /\ r.cursor = q.cursor /\ r.todo = q.todo
  BY <1>1, <1>2, <1>3, <1>4 DEF Recalculate, RequestRow, Queries
<1>6. r.cursor = 0 /\ r.todo = {}
  BY <1>2, <1>5 DEF InPlace
<1>7. Asks(r)
  <2>1. CASE q.kind \in OfAll
    BY <1>2, <1>5, <2>1 DEF Asks, OfAll, OnPromotion
  <2>2. CASE q.kind \notin OfAll
    BY <1>1, <1>2, <1>5, <2>2 DEF Asks
  <2> QED BY <2>1, <2>2
<1>8. HasRead(r)
  BY <1>4, <1>5 DEF HasRead, Queries
<1>9. InPlace("read", r)
  BY <1>1, <1>5, <1>6, <1>8 DEF InPlace, Recalculating
<1>10. SameRequest(req[h], r) /\ Begins(h, "read", r)
  BY <1>1, <1>5 DEF SameRequest, Begins
<1> QED BY <1>5, <1>7, <1>9, <1>10

\* A transaction on promotions recalculates their listings, if there are any.
LEMMA RecalculateMembersIs ==
    ASSUME Typed, NEW h \in Handlers, RecalculateMembers(h), pc[h] # "read",
           req[h].kind \in OnPromotion, pc[h] \notin {"page", "write", "commit", "done"},
           pc[h] \notin {"idle", "bump"}
    PROVE  \E stage \in {"read", "commit"}, r \in RequestRow :
              /\ Go(h, stage, r) /\ SameRequest(req[h], r) /\ Asks(r) /\ InPlace(stage, r)
              /\ r.where = req[h].where /\ Begins(h, stage, r)
<1>1. /\ req[h] \in RequestRow /\ Asks(req[h]) /\ InPlace(pc[h], req[h]) /\ req[h].where \in SUBSET Listings
      /\ req \in [Handlers -> RequestRow]
  BY DEF Typed, RequestRow
<1>2. req[h].kind \in Transactional /\ req[h].kind \notin OfAll
  BY DEF OnPromotion, Transactional, OfAll
<1>3. CASE req[h].where = {}
  <2>1. Goto(h, "commit") /\ req' = req
    BY <1>3 DEF RecalculateMembers
  <2>2. Go(h, "commit", req[h])
    BY <1>1, <2>1 DEF Go
  <2>3. InPlace("commit", req[h])
    <3>1. PICK q : q = req[h]
      OBVIOUS
    <3>2. q.todo = {} /\ q.kind \in Transactional /\ (q.reads = {} \/ pc[h] = "read")
      BY <1>1, <1>2, <3>1 DEF InPlace
    <3> QED BY <1>3, <3>1, <3>2 DEF InPlace, Recalculating
  <2> QED BY <1>1, <1>3, <2>2, <2>3 DEF SameRequest, Begins
<1>4. CASE req[h].where # {}
  <2>1. Recalculate(h, req[h], req[h].where)
    BY <1>4 DEF RecalculateMembers
  <2> QED BY <1>1, <1>2, <2>1, RecalculateIs
<1> QED BY <1>3, <1>4

\* A row as it is, but for the cost, fits: whoever deletes its promotion has marked it.
LEMMA RowsFit ==
    ASSUME Transacted, NEW h \in Handlers, NEW w \in Writes, w.promotions = Empty,
           \A l \in DOMAIN w.listings :
              /\ ListingsFree(h, {l}) /\ RowWhole(w.listings[l])
              /\ w.listings[l].promotionId # None =>
                    Exists(listings[l]) /\ w.listings[l].promotionId = listings[l].promotionId
    PROVE  Fits(h, w)
<1>1. ASSUME NEW l \in DOMAIN w.listings, NEW p, w.listings[l].promotionId = p, p # None
      PROVE  Exists(Over(w.promotions, promotions)[p]) /\ ~BeingDeleted(h, p)
  <2>1. l \in Listings /\ w.listings[l] \in ListingRow
    BY WritesAre
  <2>2. p \in Promotions /\ Exists(listings[l]) /\ listings[l].promotionId = p
    BY <1>1, <2>1 DEF ListingRow
  <2>3. Exists(promotions[p])
    BY <1>1, <2>1, <2>2 DEF Transacted, ListingsWhole
  <2>4. DOMAIN promotions = Promotions
    BY DEF Transacted, Typed, Tables
  <2>5. Exists(Over(w.promotions, promotions)[p])
    BY <2>2, <2>3, <2>4, EmptyRows DEF Over
  <2>6. ASSUME NEW k \in Handlers \ {h}, p \in DOMAIN tx[k].promotions, tx[k].promotions[p] = Gone PROVE FALSE
    <3>1. l \in DOMAIN tx[k].listings
      BY <2>1, <2>2, <2>6 DEF Transacted, Fits
    <3> QED BY <1>1, <3>1 DEF ListingsFree
  <2> QED BY <2>5, <2>6 DEF BeingDeleted
<1>2. \A l \in DOMAIN w.listings : \A k \in Handlers \ {h} : l \notin DOMAIN tx[k].listings
  BY DEF ListingsFree
<1>3. DOMAIN w.promotions = {}
  BY EmptyRows
<1> QED BY <1>1, <1>2, <1>3 DEF Fits

\* What h has written, before it does.
LEMMA NothingYet ==
    ASSUME Transacted, NEW h \in Handlers, pc[h] \notin Writing
    PROVE  tx[h] = NoTx
<1>1. Wrote(pc[h], req[h], tx[h])
  BY DEF Transacted
<1> QED BY <1>1 DEF Wrote

LEMMA Beginning ==
    ASSUME Typed, NEW h \in Handlers, NEW stage \in {"idle", "bump", "read", "page", "write", "commit", "done", "items"},
           pc[h] \in Stages \ {"idle", "bump", "read", "page", "write", "commit", "done", "items"}
    PROVE  h \in Active /\ pc[h] # stage /\ pc[h] \notin Writing
BY DEF Active, Writing, Recalculating

LEMMA Unprepared ==
    ASSUME Typed, NEW h \in Handlers, NEW stage, NEW r, pc[h] # "settingsBump",
           UNCHANGED <<tables, cached, lost, clock, asked, sound>>
    PROVE  Prepares(h, stage, r)
BY DEF Prepares, Typed, Tables, tables

\* A transaction that writes listings and recalculates them.
LEMMA ListingsWork ==
    ASSUME Transacted, NEW h \in Handlers, pc[h] \in {"insert", "edit", "stock"}, req[h].kind \in {"create", "update", "order"},
           NEW rows \in Rows(Listings, ListingRow), tx' = [tx EXCEPT ![h].listings = rows],
           DOMAIN rows = req[h].where, Recalculate(h, req[h], req[h].where),
           UNCHANGED <<tables, cached, lost, clock, asked, sound>>,
           \A l \in DOMAIN rows :
              /\ ListingsFree(h, {l}) /\ RowWhole(rows[l])
              /\ rows[l].promotionId # None => Exists(listings[l]) /\ rows[l].promotionId = listings[l].promotionId
    PROVE  Works(h)
<1>0. Typed /\ tx \in [Handlers -> Writes] /\ req[h].where \in SUBSET Listings
  BY DEF Transacted, Typed, RequestRow
<1>1. h \in Active /\ pc[h] \notin Writing /\ pc[h] \notin {"page", "write", "commit", "done", "read", "settingsBump"}
  BY DEF Active, Writing, Recalculating
<1>2. req[h].kind \in Transactional /\ req[h].kind \notin OfAll /\ req[h].kind \notin OnPromotion
      /\ req[h].kind # "removePromotion" /\ req[h].kind \notin {"createPromotion", "updatePromotion"}
  BY DEF Transactional, OfAll, OnPromotion
<1>3. tx[h] = NoTx
  BY <1>1, NothingYet
<1>4. PICK w : w = [tx[h] EXCEPT !.listings = rows]
  OBVIOUS
<1>5. w \in Writes /\ w.listings = rows /\ w.promotions = Empty /\ w.items = Empty
  BY <1>3, <1>4, NothingWritten DEF Writes
<1>6. tx' = [tx EXCEPT ![h] = w]
  BY <1>0, <1>4
<1>7. PICK r \in RequestRow :
              /\ Go(h, "read", r) /\ SameRequest(req[h], r) /\ Asks(r) /\ InPlace("read", r) /\ r.where = req[h].where
              /\ Begins(h, "read", r)
  BY <1>0, <1>1, <1>2, RecalculateIs
<1>8. Turns(h, "read", r, w)
  BY <1>6, <1>7 DEF Go, Goto, Turns
<1>9. Fits(h, w)
  BY <1>5, RowsFit
<1>10. Wrote("read", r, w)
  BY <1>2, <1>5, <1>7 DEF Wrote, SameRequest, Writing, Recalculating
<1>11. Prepares(h, "read", r)
  BY <1>0, <1>1, Unprepared
<1>12. "read" \in Stages \ {"idle", "bump"}
  BY DEF Stages
<1> QED BY <1>1, <1>5, <1>7, <1>8, <1>9, <1>10, <1>11, <1>12 DEF Works

LEMMA InsertWorks ==
    ASSUME Transacted, NEW h \in Handlers, Insert(h)
    PROVE  Works(h)
<1>1. /\ pc[h] = "insert" /\ req[h].kind = "create" /\ req[h].where = {req[h].id} /\ req[h].id \in Listings
      /\ req[h].dto \in ListingDtos /\ req[h].dto.costPrice # Keep
  BY DEF Transacted, Typed, Insert, InPlace, Asks
<1>2. PICK dto \in ListingDtos, l \in Listings : dto = req[h].dto /\ l = req[h].id
  BY <1>1
<1>3. PICK target : target = [costPrice |-> dto.costPrice, customMarkupBps |-> Chosen(dto.customMarkupBps, None)]
  OBVIOUS
<1>4. target.costPrice \in Nat /\ target.customMarkupBps \in Nat \cup {None}
  BY <1>1, <1>2, <1>3, RequestsAssumption DEF Chosen
<1>5. Fresh(target) \in ListingRow /\ Fresh(target).promotionId = None /\ RowWhole(Fresh(target))
  BY <1>4 DEF Fresh, ListingRow, RowWhole, Source
<1>6. PICK rows : rows = Only(l, Fresh(target))
  OBVIOUS
<1>7. rows \in Rows(Listings, ListingRow) /\ DOMAIN rows = {l} /\ rows[l] = Fresh(target)
  BY <1>5, <1>6, OnlyRows
<1>8. /\ tx' = [tx EXCEPT ![h].listings = rows] /\ Recalculate(h, req[h], {l}) /\ ListingsFree(h, {l})
      /\ UNCHANGED <<tables, cached, lost, clock, asked, sound>>
  BY <1>2, <1>3, <1>6 DEF Insert
<1>9. \A m \in DOMAIN rows :
              /\ ListingsFree(h, {m}) /\ RowWhole(rows[m]) /\ rows[m].promotionId = None
  BY <1>5, <1>7, <1>8
<1> QED BY <1>1, <1>2, <1>7, <1>8, <1>9, ListingsWork

LEMMA EditWorks ==
    ASSUME Transacted, NEW h \in Handlers, Edit(h)
    PROVE  Works(h)
<1>1. /\ pc[h] = "edit" /\ req[h].kind = "update" /\ req[h].where = {req[h].id} /\ req[h].id \in Listings
      /\ req[h].dto \in ListingDtos
  BY DEF Transacted, Typed, Edit, InPlace, Asks
<1>2. PICK dto \in ListingDtos, l \in Listings : dto = req[h].dto /\ l = req[h].id
  BY <1>1
<1>3. PICK old, new : /\ old = listings[l]
                      /\ new = [old EXCEPT !.costPrice = Chosen(dto.costPrice, @),
                                           !.customMarkupBps = Chosen(dto.customMarkupBps, @)]
  OBVIOUS
<1>4. Exists(old) /\ old \in ListingRow /\ RowWhole(old)
  <2>1. Exists(listings[l]) /\ listings[l] \in ListingRow \cup {None, Gone}
    BY <1>2 DEF Edit, Transacted, Typed, Tables
  <2> QED BY <1>3, <2>1, ExistsRow DEF Transacted, ListingsWhole
<1>5. dto.costPrice \in Nat \cup {Keep} /\ dto.customMarkupBps \in Nat \cup {None, Keep}
  BY RequestsAssumption
<1>6. /\ new \in ListingRow /\ new.promotionId = old.promotionId /\ new.onPromo = old.onPromo
      /\ new.oldPrice = old.oldPrice /\ new.price = old.price
  BY <1>3, <1>4, <1>5 DEF ListingRow, Chosen
<1>7. RowWhole(new)
  BY <1>4, <1>6 DEF RowWhole
<1>8. PICK rows : rows = Only(l, new)
  OBVIOUS
<1>9. rows \in Rows(Listings, ListingRow) /\ DOMAIN rows = {l} /\ rows[l] = new
  <2>1. new \in ListingRow
    BY <1>6
  <2>2. Only(l, new) \in Rows(Listings, ListingRow) /\ DOMAIN Only(l, new) = {l} /\ Only(l, new)[l] = new
    BY <2>1, OnlyRows
  <2> QED BY <1>8, <2>2
<1>10. /\ tx' = [tx EXCEPT ![h].listings = rows] /\ Recalculate(h, req[h], {l}) /\ ListingsFree(h, {l})
       /\ UNCHANGED <<tables, cached, lost, clock, asked, sound>>
  BY <1>2, <1>3, <1>8 DEF Edit
<1>11. \A m \in DOMAIN rows :
              /\ ListingsFree(h, {m}) /\ RowWhole(rows[m])
              /\ Exists(listings[m]) /\ rows[m].promotionId = listings[m].promotionId
  BY <1>3, <1>4, <1>6, <1>7, <1>9, <1>10
<1> QED BY <1>1, <1>2, <1>9, <1>10, <1>11, ListingsWork

LEMMA StockWorks ==
    ASSUME Transacted, NEW h \in Handlers, Stock(h)
    PROVE  Works(h)
<1>1. pc[h] = "stock" /\ req[h].kind = "order" /\ req[h].where \in SUBSET Listings
  BY DEF Transacted, Typed, Stock, InPlace, RequestRow
<1>2. PICK ls \in SUBSET Listings : ls = req[h].where
  BY <1>1
<1>3. PICK rows : rows = [l \in ls |-> listings[l]]
  OBVIOUS
<1>4. /\ tx' = [tx EXCEPT ![h].listings = rows] /\ Recalculate(h, req[h], ls) /\ ListingsFree(h, ls)
      /\ UNCHANGED <<tables, cached, lost, clock, asked, sound>>
      /\ \A l \in ls : Exists(listings[l])
  BY <1>2, <1>3 DEF Stock
<1>5. \A l \in ls : listings[l] \in ListingRow /\ RowWhole(listings[l])
  <2>1. \A l \in ls : listings[l] \in ListingRow \cup {None, Gone}
    BY DEF Transacted, Typed, Tables
  <2> QED BY <1>4, <2>1, ExistsRow DEF Transacted, ListingsWhole
<1>6. rows \in [ls -> ListingRow] /\ DOMAIN rows = ls
  BY <1>3, <1>5
<1>7. rows \in Rows(Listings, ListingRow)
  BY <1>6, RowsAre
<1>8. \A m \in DOMAIN rows :
              /\ ListingsFree(h, {m}) /\ RowWhole(rows[m])
              /\ Exists(listings[m]) /\ rows[m].promotionId = listings[m].promotionId
  <2>1. \A m \in ls : ListingsFree(h, {m})
    BY <1>4 DEF ListingsFree
  <2> QED BY <1>3, <1>4, <1>5, <2>1
<1> QED BY <1>1, <1>2, <1>4, <1>6, <1>7, <1>8, ListingsWork

\* A transaction that writes a promotion and recalculates its listings.
LEMMA MembersWork ==
    ASSUME Transacted, NEW h \in Handlers, pc[h] \in {"insertPromotion", "head", "items", "drop"},
           req[h].kind \in OnPromotion, RecalculateMembers(h), NEW w \in Writes, tx' = [tx EXCEPT ![h] = w],
           UNCHANGED <<tables, cached, lost, clock, asked, sound>>, Fits(h, w), Wrote("read", req[h], w)
    PROVE  Works(h)
<1>0. Typed
  BY DEF Transacted
<1>1. h \in Active /\ pc[h] \notin {"page", "write", "commit", "done", "read", "settingsBump", "idle", "bump"}
  BY DEF Active
<1>2. PICK stage \in {"read", "commit"}, r \in RequestRow :
              /\ Go(h, stage, r) /\ SameRequest(req[h], r) /\ Asks(r) /\ InPlace(stage, r)
              /\ r.where = req[h].where /\ Begins(h, stage, r)
  BY <1>0, <1>1, RecalculateMembersIs
<1>3. Wrote(stage, r, w)
  <2>1. req[h].kind \in Transactional
    BY DEF OnPromotion, Transactional
  <2>2. stage \in Writing /\ "read" \in Writing
    BY DEF Writing, Recalculating
  <2>3. r.kind = req[h].kind /\ r.id = req[h].id /\ r.dto = req[h].dto /\ r.where = req[h].where
    BY <1>2 DEF SameRequest
  <2>4. \A l : Marked(req[h], w, l) => Marked(r, w, l)
    BY <2>3 DEF Marked
  <2> QED BY <2>1, <2>2, <2>3, <2>4 DEF Wrote
<1>4. Turns(h, stage, r, w)
  BY <1>2 DEF Go, Goto, Turns
<1>5. Prepares(h, stage, r)
  BY <1>0, <1>1, Unprepared
<1>6. stage \in Stages \ {"idle", "bump"}
  BY <1>2 DEF Stages
<1> QED BY <1>1, <1>2, <1>3, <1>4, <1>5, <1>6 DEF Works

\* A row of promotions that is not deleted fits.
LEMMA PromotionFits ==
    ASSUME NEW h \in Handlers, NEW p \in Promotions, PromotionFree(h, p), NEW row \in PromotionRow, NEW w \in Writes,
           w.listings = Empty, w.promotions = Only(p, row)
    PROVE  Fits(h, w)
<1>1. DOMAIN w.listings = {} /\ DOMAIN w.promotions = {p} /\ w.promotions[p] = row
  BY EmptyRows DEF Only
<1>2. row # Gone
  BY IdsAssumption
<1> QED BY <1>1, <1>2 DEF Fits

\* What a dto says of a promotion, and of its listings.
LEMMA PromotionDto ==
    ASSUME NEW dto \in PromotionDtos
    PROVE  /\ dto.enabled \in BOOLEAN \cup {Keep}
           /\ dto.startsAt \in Nat \cup {None, Keep} /\ dto.endsAt \in Nat \cup {None, Keep}
           /\ dto.items # Keep => dto.items \in Rows(Listings, Nat)
BY RequestsAssumption, RowsAre DEF Partial, Date

LEMMA InsertPromotionWorks ==
    ASSUME Transacted, NEW h \in Handlers, InsertPromotion(h)
    PROVE  Works(h)
<1>0. Typed /\ tx \in [Handlers -> Writes]
  BY DEF Transacted, Typed
<1>1. /\ pc[h] = "insertPromotion" /\ req[h].kind = "createPromotion" /\ req[h].id \in Promotions
      /\ req[h].dto \in PromotionDtos
      /\ Keep \notin {req[h].dto.enabled, req[h].dto.startsAt, req[h].dto.endsAt, req[h].dto.items}
  BY DEF Transacted, Typed, InsertPromotion, InPlace, Asks, OnPromotion
<1>2. PICK dto \in PromotionDtos, p \in Promotions : dto = req[h].dto /\ p = req[h].id
  BY <1>1
<1>3. PICK row : row = [enabled |-> dto.enabled, startsAt |-> dto.startsAt, endsAt |-> dto.endsAt]
  OBVIOUS
<1>4. row \in PromotionRow /\ dto.items \in Rows(Listings, Nat)
  BY <1>1, <1>2, <1>3, PromotionDto DEF PromotionRow, Date
<1>5. tx[h] = NoTx
  BY <1>1, NothingYet DEF Writing, Recalculating
<1>6. PICK w : w = [NoTx EXCEPT !.promotions = Only(p, row), !.items = Only(p, dto.items)]
  OBVIOUS
<1>7. /\ Only(p, row) \in Rows(Promotions, PromotionRow \cup {Gone}) /\ DOMAIN Only(p, row) = {p} /\ Only(p, row)[p] = row
      /\ Only(p, dto.items) \in Rows(Promotions, Rows(Listings, Nat)) /\ Only(p, dto.items)[p] = dto.items
      /\ DOMAIN Only(p, dto.items) = {p}
  <2>1. row \in PromotionRow \cup {Gone}
    BY <1>4
  <2>2. Only(p, row) \in Rows(Promotions, PromotionRow \cup {Gone}) /\ DOMAIN Only(p, row) = {p} /\ Only(p, row)[p] = row
    BY <2>1, OnlyRows
  <2>3. dto.items \in Rows(Listings, Nat)
    BY <1>4
  <2>4. Only(p, dto.items) \in Rows(Promotions, Rows(Listings, Nat)) /\ Only(p, dto.items)[p] = dto.items
        /\ DOMAIN Only(p, dto.items) = {p}
    BY <2>3, OnlyRows
  <2> QED BY <2>2, <2>4
<1>8. w \in Writes /\ w.listings = Empty /\ w.promotions = Only(p, row) /\ w.items = Only(p, dto.items)
  BY <1>6, <1>7, NothingWritten DEF Writes
<1>9. /\ tx' = [tx EXCEPT ![h].promotions = Only(p, row), ![h].items = Only(p, dto.items)]
      /\ PromotionFree(h, p) /\ RecalculateMembers(h) /\ UNCHANGED <<tables, cached, lost, clock, asked, sound>>
  BY <1>2, <1>3 DEF InsertPromotion
<1>10. tx' = [tx EXCEPT ![h] = w]
  <2>1. w = [tx[h] EXCEPT !.promotions = Only(p, row), !.items = Only(p, dto.items)]
    BY <1>5, <1>6
  <2> QED BY <1>0, <1>9, <2>1
<1>11. Fits(h, w)
  BY <1>4, <1>8, <1>9, PromotionFits
<1>12. Wrote("read", req[h], w)
  <2>1. req[h].kind \in OnPromotion /\ req[h].kind # "removePromotion" /\ dto.items # Keep
    BY <1>1, <1>2 DEF OnPromotion
  <2>2. w.promotions[p] \in PromotionRow /\ w.items[p] = dto.items /\ DOMAIN w.promotions = {p} /\ DOMAIN w.items = {p}
        /\ DOMAIN w.listings = {}
    BY <1>4, <1>7, <1>8, EmptyRows
  <2>3. req[h].kind \in Transactional
    BY <1>1 DEF Transactional
  <2>4. "read" \in Writing
    BY DEF Writing, Recalculating
  <2> QED BY <1>2, <2>1, <2>2, <2>3, <2>4 DEF Wrote
<1>13. req[h].kind \in OnPromotion
  BY <1>1 DEF OnPromotion
<1> QED BY <1>1, <1>8, <1>9, <1>10, <1>11, <1>12, <1>13, MembersWork

LEMMA WritePromotionWorks ==
    ASSUME Transacted, NEW h \in Handlers, WritePromotion(h)
    PROVE  Works(h)
<1>0. Typed /\ tx \in [Handlers -> Writes] /\ req \in [Handlers -> RequestRow]
  BY DEF Transacted, Typed
<1>1. /\ pc[h] = "head" /\ req[h].kind = "updatePromotion" /\ req[h].id \in Promotions
      /\ req[h].dto \in PromotionDtos /\ req[h] \in RequestRow /\ Asks(req[h]) /\ InPlace("head", req[h])
  BY DEF Transacted, Typed, WritePromotion, InPlace, Asks, OnPromotion
<1>2. PICK dto \in PromotionDtos, p \in Promotions : dto = req[h].dto /\ p = req[h].id
  BY <1>1
<1>3. PICK old : old = promotions[p]
  OBVIOUS
<1>4. old \in PromotionRow
  <2>1. Exists(promotions[p]) /\ promotions[p] \in PromotionRow \cup {None, Gone}
    BY <1>2 DEF WritePromotion, Transacted, Typed, Tables
  <2> QED BY <1>3, <2>1, ExistsRow
<1>5. PICK row : row = [enabled |-> Chosen(dto.enabled, old.enabled), startsAt |-> Chosen(dto.startsAt, old.startsAt),
                        endsAt |-> Chosen(dto.endsAt, old.endsAt)]
  OBVIOUS
<1>6. row \in PromotionRow
  BY <1>4, <1>5, PromotionDto DEF PromotionRow, Date, Chosen
<1>7. tx[h] = NoTx
  BY <1>1, NothingYet DEF Writing, Recalculating
<1>8. PICK w : w = [NoTx EXCEPT !.promotions = Only(p, row)]
  OBVIOUS
<1>9. Only(p, row) \in Rows(Promotions, PromotionRow \cup {Gone}) /\ DOMAIN Only(p, row) = {p} /\ Only(p, row)[p] = row
  <2>1. row \in PromotionRow \cup {Gone}
    BY <1>6
  <2>2. Only(p, row) \in Rows(Promotions, PromotionRow \cup {Gone}) /\ DOMAIN Only(p, row) = {p} /\ Only(p, row)[p] = row
    BY <2>1, OnlyRows
  <2> QED BY <2>2
<1>10. w \in Writes /\ w.listings = Empty /\ w.promotions = Only(p, row) /\ w.items = Empty
  BY <1>8, <1>9, NothingWritten DEF Writes
<1>11. /\ tx' = [tx EXCEPT ![h].promotions = Only(p, row)]
       /\ PromotionFree(h, p) /\ UNCHANGED <<tables, cached, lost, clock, asked, sound>>
       /\ IF dto.items = Keep THEN RecalculateMembers(h) ELSE Goto(h, "items") /\ UNCHANGED req
  BY <1>2, <1>3, <1>5 DEF WritePromotion
<1>12. tx' = [tx EXCEPT ![h] = w]
  <2>1. w = [tx[h] EXCEPT !.promotions = Only(p, row)]
    BY <1>7, <1>8
  <2> QED BY <1>0, <1>11, <2>1
<1>13. Fits(h, w)
  BY <1>6, <1>10, <1>11, PromotionFits
<1>14. \A stage \in {"read", "items"} : Wrote(stage, req[h], w)
  <2>1. req[h].kind \in OnPromotion /\ req[h].kind # "removePromotion"
    BY <1>1 DEF OnPromotion
  <2>2. w.promotions[p] \in PromotionRow /\ DOMAIN w.promotions = {p} /\ DOMAIN w.items = {} /\ DOMAIN w.listings = {}
    BY <1>6, <1>9, <1>10, EmptyRows
  <2>3. req[h].kind \in Transactional
    BY <1>1 DEF Transactional
  <2>4. "read" \in Writing /\ "items" \in Writing
    BY DEF Writing, Recalculating
  <2> QED BY <1>2, <2>1, <2>2, <2>3, <2>4 DEF Wrote
<1>15. req[h].kind \in OnPromotion
  BY <1>1 DEF OnPromotion
<1>16. CASE dto.items = Keep
  BY <1>1, <1>10, <1>11, <1>12, <1>13, <1>14, <1>15, <1>16, MembersWork
<1>17. CASE dto.items # Keep
  <2>1. Turns(h, "items", req[h], w)
    BY <1>0, <1>11, <1>12, <1>17 DEF Goto, Turns
  <2>2. InPlace("items", req[h])
    BY <1>1, <1>2, <1>17 DEF InPlace, Recalculating
  <2>3. Prepares(h, "items", req[h]) /\ Begins(h, "items", req[h]) /\ SameRequest(req[h], req[h])
    BY <1>0, <1>1, <1>11, Unprepared DEF Begins, SameRequest
  <2>4. h \in Active /\ "items" \in Stages \ {"idle", "bump"}
    BY <1>1 DEF Active, Stages
  <2> QED BY <1>1, <1>10, <1>13, <1>14, <2>1, <2>2, <2>3, <2>4 DEF Works
<1> QED BY <1>16, <1>17

LEMMA ReplaceItemsWorks ==
    ASSUME Transacted, NEW h \in Handlers, ReplaceItems(h)
    PROVE  Works(h)
<1>0. Typed /\ tx \in [Handlers -> Writes]
  BY DEF Transacted, Typed
<1>1. /\ pc[h] = "items" /\ req[h].kind = "updatePromotion" /\ req[h].id \in Promotions
      /\ req[h].dto \in PromotionDtos /\ req[h].dto.items # Keep
  BY DEF Transacted, Typed, ReplaceItems, InPlace, Asks, OnPromotion
<1>2. PICK dto \in PromotionDtos, p \in Promotions, v \in Writes : dto = req[h].dto /\ p = req[h].id /\ v = tx[h]
  BY <1>0, <1>1
<1>3. req[h].kind \in Transactional /\ req[h].kind \in OnPromotion /\ req[h].kind # "removePromotion"
      /\ "items" \in Writing /\ "read" \in Writing
  BY <1>1 DEF Transactional, OnPromotion, Writing, Recalculating
<1>4. Wrote("items", req[h], v) /\ Fits(h, v)
  BY <1>1, <1>2 DEF Transacted
<1>5. /\ \A l \in DOMAIN v.listings : l \in req[h].where
      /\ DOMAIN v.promotions = {p} /\ v.promotions[p] \in PromotionRow
  BY <1>1, <1>2, <1>3, <1>4 DEF Wrote, Marked
<1>6. PICK w : w = [v EXCEPT !.items = Only(p, dto.items)]
  OBVIOUS
<1>7. dto.items \in Rows(Listings, Nat)
  BY <1>1, <1>2, PromotionDto
<1>8. Only(p, dto.items) \in Rows(Promotions, Rows(Listings, Nat)) /\ Only(p, dto.items)[p] = dto.items
      /\ DOMAIN Only(p, dto.items) = {p}
  BY <1>7, OnlyRows
<1>9. w \in Writes /\ w.listings = v.listings /\ w.promotions = v.promotions /\ w.items = Only(p, dto.items)
  BY <1>6, <1>8 DEF Writes
<1>10. Fits(h, w)
  BY <1>4, <1>9 DEF Fits
<1>11. Wrote("read", req[h], w)
  BY <1>1, <1>2, <1>3, <1>5, <1>8, <1>9 DEF Wrote
<1>12. /\ tx' = [tx EXCEPT ![h].items = Only(p, dto.items)]
       /\ RecalculateMembers(h) /\ UNCHANGED <<tables, cached, lost, clock, asked, sound>>
  BY <1>2 DEF ReplaceItems
<1>13. tx' = [tx EXCEPT ![h] = w]
  BY <1>0, <1>2, <1>6, <1>12
<1> QED BY <1>1, <1>3, <1>9, <1>10, <1>11, <1>12, <1>13, MembersWork

LEMMA DropPromotionWorks ==
    ASSUME Transacted, NEW h \in Handlers, DropPromotion(h)
    PROVE  Works(h)
<1>0. Typed /\ tx \in [Handlers -> Writes] /\ listings \in [Listings -> ListingRow \cup {None, Gone}]
  BY DEF Transacted, Typed, Tables
<1>1. pc[h] = "drop" /\ req[h].kind = "removePromotion" /\ req[h].id \in Promotions
  BY DEF Transacted, Typed, DropPromotion, InPlace, Asks, OnPromotion
<1>2. PICK p \in Promotions : p = req[h].id
  BY <1>1
<1>3. PICK marked, rows, w :
         /\ marked = {l \in Listings : Exists(listings[l]) /\ listings[l].promotionId = p}
         /\ rows = [l \in marked |-> [listings[l] EXCEPT !.promotionId = None]]
         /\ w = [promotions |-> Only(p, Gone), items |-> Only(p, Empty), listings |-> rows]
  OBVIOUS
<1>4. /\ tx' = [tx EXCEPT ![h] = w] /\ RecalculateMembers(h)
      /\ PromotionFree(h, p) /\ ListingsFree(h, marked) /\ \A k \in Handlers : ~GivenBy(k, p)
      /\ UNCHANGED <<tables, cached, lost, clock, asked, sound>>
  BY <1>2, <1>3 DEF DropPromotion
<1>5. ASSUME NEW l \in marked
      PROVE  /\ l \in Listings /\ rows[l] \in ListingRow /\ RowWhole(rows[l]) /\ rows[l].promotionId = None
             /\ Exists(listings[l]) /\ listings[l].promotionId = p
             /\ rows[l] = [listings[l] EXCEPT !.promotionId = None]
  <2>1. l \in Listings /\ Exists(listings[l]) /\ listings[l].promotionId = p
    BY <1>3
  <2>2. PICK row \in ListingRow : row = listings[l]
    BY <1>0, <2>1, ExistsRow
  <2>3. RowWhole(row)
    BY <2>1, <2>2 DEF Transacted, ListingsWhole
  <2>4. rows[l] = [row EXCEPT !.promotionId = None]
    BY <1>3, <2>2
  <2>5. rows[l] \in ListingRow /\ rows[l].promotionId = None /\ rows[l].onPromo = row.onPromo
        /\ rows[l].oldPrice = row.oldPrice /\ rows[l].price = row.price
    BY <2>4 DEF ListingRow
  <2>6. RowWhole(rows[l])
    BY <2>3, <2>5 DEF RowWhole
  <2> QED BY <2>1, <2>2, <2>4, <2>5, <2>6
<1>6. rows \in Rows(Listings, ListingRow) /\ DOMAIN rows = marked
  <2>1. DOMAIN rows = marked /\ marked \subseteq Listings
    BY <1>3
  <2>2. rows \in [marked -> ListingRow]
    BY <1>3, <1>5
  <2> QED BY <2>1, <2>2, RowsAre
<1>7. Only(p, Gone) \in Rows(Promotions, PromotionRow \cup {Gone}) /\ DOMAIN Only(p, Gone) = {p} /\ Only(p, Gone)[p] = Gone
  <2>1. Gone \in PromotionRow \cup {Gone}
    OBVIOUS
  <2> QED BY <2>1, OnlyRows
<1>8. Only(p, Empty) \in Rows(Promotions, Rows(Listings, Nat)) /\ DOMAIN Only(p, Empty) = {p}
  <2>1. Empty \in Rows(Listings, Nat)
    BY EmptyRows
  <2> QED BY <2>1, OnlyRows
<1>9. w \in Writes /\ w.listings = rows /\ w.promotions = Only(p, Gone) /\ w.items = Only(p, Empty)
  BY <1>3, <1>6, <1>7, <1>8 DEF Writes
<1>10. Fits(h, w)
  <2>1. \A l \in DOMAIN w.listings : \A k \in Handlers \ {h} : l \notin DOMAIN tx[k].listings
    BY <1>4, <1>6, <1>9 DEF ListingsFree
  <2>2. \A l \in DOMAIN w.listings : RowWhole(w.listings[l]) /\ w.listings[l].promotionId = None
    BY <1>5, <1>6, <1>9
  <2>3. \A l \in Listings : Exists(listings[l]) /\ listings[l].promotionId = p => l \in DOMAIN w.listings
    BY <1>3, <1>6, <1>9
  <2>4. DOMAIN w.promotions = {p}
    BY <1>7, <1>9
  <2> QED BY <1>4, <2>1, <2>2, <2>3, <2>4 DEF Fits
<1>11. req[h].kind \in Transactional /\ req[h].kind \in OnPromotion /\ "read" \in Writing
  BY <1>1 DEF Transactional, OnPromotion, Writing, Recalculating
<1>12. Wrote("read", req[h], w)
  <2>1. \A l \in DOMAIN w.listings : Marked(req[h], w, l)
    BY <1>1, <1>2, <1>5, <1>6, <1>9 DEF Marked
  <2>2. req[h].kind \notin {"createPromotion", "updatePromotion"}
    BY <1>1
  <2>3. DOMAIN w.promotions = {req[h].id} /\ DOMAIN w.items \subseteq {req[h].id} /\ w.promotions[req[h].id] = Gone
        /\ w.items = Only(req[h].id, Empty)
    BY <1>2, <1>7, <1>8, <1>9
  <2> QED BY <1>1, <1>11, <2>1, <2>2, <2>3 DEF Wrote
<1> QED BY <1>1, <1>4, <1>9, <1>10, <1>11, <1>12, MembersWork

\* assertAboveCost: the request goes on, or is over.
Ends(h) ==
    /\ h \in Active /\ End(h) /\ tx' = [tx EXCEPT ![h] = NoTx]
    /\ UNCHANGED <<tables, cached, clock, asked>> /\ sound' \in SUBSET Listings /\ lost' \in BOOLEAN
    /\ (cached # None /\ ~lost') => (cached # None /\ ~lost /\ pc[h] # "settingsBump")
    /\ sound' \subseteq sound
    /\ req[h].kind \notin OfAll \/ sound' = {} \/ (pc[h] = "scope" /\ Transitioned(h) = {})

LEMMA TxUnchanged ==
    ASSUME Transacted, NEW h \in Handlers, pc[h] \notin Writing \/ req[h].kind \notin Transactional, UNCHANGED tx
    PROVE  tx[h] = NoTx /\ tx' = [tx EXCEPT ![h] = NoTx]
<1>1. Wrote(pc[h], req[h], tx[h]) /\ tx \in [Handlers -> Writes]
  BY DEF Transacted, Typed
<1>2. tx[h] = NoTx
  BY <1>1 DEF Wrote
<1> QED BY <1>1, <1>2

LEMMA AssertWorks ==
    ASSUME Transacted, NEW h \in Handlers, AssertAboveCost(h)
    PROVE  Works(h) \/ Ends(h)
<1>0. Typed /\ req \in [Handlers -> RequestRow] /\ Tables
  BY DEF Transacted, Typed
<1>1. /\ pc[h] = "check" /\ req[h].kind \in {"createPromotion", "updatePromotion"} /\ req[h].dto.items # Keep
      /\ req[h] \in RequestRow /\ Asks(req[h]) /\ InPlace("check", req[h])
      /\ UNCHANGED <<tables, cached, lost, clock, tx, asked, sound>>
  BY DEF Transacted, Typed, AssertAboveCost, InPlace
<1>2. tx[h] = NoTx /\ tx' = [tx EXCEPT ![h] = NoTx]
  <2>1. pc[h] \notin Writing
    BY <1>1 DEF Writing, Recalculating
  <2> QED BY <1>1, <2>1, TxUnchanged
<1>3. h \in Active
  BY <1>1 DEF Active
<1>4. CASE End(h)
  <2>1. req[h].kind \notin OfAll
    BY <1>1 DEF OfAll
  <2> QED BY <1>0, <1>1, <1>2, <1>3, <1>4, <2>1 DEF Ends, Tables
<1>5. CASE ~End(h)
  <2> DEFINE stage == IF req[h].kind = "createPromotion" THEN "insertPromotion" ELSE "head"
  <2>1. Goto(h, stage) /\ UNCHANGED req
    BY <1>5 DEF AssertAboveCost
  <2>2. Turns(h, stage, req[h], NoTx)
    BY <1>0, <1>2, <2>1 DEF Goto, Turns
  <2>3. InPlace(stage, req[h])
    BY <1>1 DEF InPlace, Recalculating
  <2>4. Begins(h, stage, req[h]) /\ SameRequest(req[h], req[h]) /\ stage \in Stages \ {"idle", "bump"}
    BY DEF Begins, SameRequest, Stages
  <2>5. Prepares(h, stage, req[h])
    BY <1>0, <1>1, Unprepared
  <2>6. Wrote(stage, req[h], NoTx)
    BY DEF Wrote, Writing, Recalculating
  <2> HIDE DEF stage
  <2> QED BY <1>1, <1>3, <2>2, <2>3, <2>4, <2>5, <2>6, NothingFits, NothingWritten DEF Works
<1> QED BY <1>4, <1>5

LEMMA OfAllWork ==
    ASSUME Transacted, NEW h \in Handlers, pc[h] \in {"tiers", "settings", "settingsBump", "order", "scope"},
           req[h].kind \in OfAll, UNCHANGED tx, NEW stage \in Stages \ {"idle", "bump"}, NEW r \in RequestRow,
           Moves(h, stage, r), Prepares(h, stage, r), Begins(h, stage, r), SameRequest(req[h], r), Asks(r),
           InPlace(stage, r)
    PROVE  Works(h)
<1>1. req[h].kind \notin Transactional /\ r.kind \notin Transactional
  BY DEF OfAll, Transactional, SameRequest
<1>2. tx' = [tx EXCEPT ![h] = NoTx]
  BY <1>1, TxUnchanged
<1>3. Turns(h, stage, r, NoTx) /\ Wrote(stage, r, NoTx)
  BY <1>1, <1>2 DEF Moves, Turns, Wrote
<1>4. h \in Active /\ pc[h] \notin {"page", "write", "commit", "done", "read"}
  BY DEF Active
<1> QED BY <1>3, <1>4, NothingFits, NothingWritten DEF Works

LEMMA SettingsAre ==
    ASSUME Typed
    PROVE  /\ settings.markupTiers \in Tiers /\ settings.roundingStep \in Nat /\ settings.order \in PriceOrder
           /\ \A t \in Tiers : [settings EXCEPT !.markupTiers = t] \in Settings
           /\ \A n \in Nat : [settings EXCEPT !.roundingStep = n] \in Settings
           /\ \A o \in PriceOrder : [settings EXCEPT !.order = o] \in Settings
<1>1. settings \in Settings
  BY DEF Typed, Tables
<1>2. PICK T : T = Tiers
  OBVIOUS
<1>3. PICK O : O = PriceOrder
  OBVIOUS
<1>4. Settings = [markupTiers : T, roundingStep : Nat, order : O]
  BY <1>2, <1>3 DEF Settings
<1> QED BY <1>1, <1>2, <1>3, <1>4

LEMMA WriteTiersWorks ==
    ASSUME Transacted, NEW h \in Handlers, WriteTiers(h)
    PROVE  Works(h)
<1>0. Typed /\ req \in [Handlers -> RequestRow] /\ Tables
  BY DEF Transacted, Typed
<1>1. /\ pc[h] = "tiers" /\ req[h].kind = "settings" /\ req[h].dto \in SettingsDtos /\ req[h].dto.markupTiers # Keep
      /\ req[h] \in RequestRow /\ Asks(req[h]) /\ InPlace("tiers", req[h])
  BY DEF Transacted, Typed, WriteTiers, InPlace, Asks
<1>2. PICK t \in Tiers : t = req[h].dto.markupTiers
  BY <1>1, RequestsAssumption
<1>3. settings' \in Settings
  BY <1>0, <1>2, SettingsAre DEF WriteTiers
<1>4. Moves(h, "settings", req[h]) /\ UNCHANGED <<listings, promotions, items, cached, clock, tx, asked, lost, sound>>
  BY <1>0 DEF WriteTiers, Moves, Goto
<1>5. req[h].kind \in OfAll
  BY <1>1 DEF OfAll
<1>6. Prepares(h, "settings", req[h]) /\ Begins(h, "settings", req[h]) /\ SameRequest(req[h], req[h])
  BY <1>0, <1>1, <1>3, <1>4, <1>5 DEF Prepares, Begins, SameRequest, Tables
<1>7. InPlace("settings", req[h]) /\ "settings" \in Stages \ {"idle", "bump"}
  BY <1>1 DEF InPlace, Recalculating, Stages
<1> QED BY <1>1, <1>4, <1>5, <1>6, <1>7, OfAllWork

LEMMA WriteSettingsWorks ==
    ASSUME Transacted, NEW h \in Handlers, WriteSettings(h)
    PROVE  Works(h)
<1>0. Typed /\ req \in [Handlers -> RequestRow] /\ Tables
  BY DEF Transacted, Typed
<1>1. /\ pc[h] = "settings" /\ req[h].kind = "settings" /\ req[h].dto \in SettingsDtos
      /\ req[h] \in RequestRow /\ Asks(req[h]) /\ InPlace("settings", req[h])
  BY DEF Transacted, Typed, WriteSettings, InPlace, Asks
<1>2. PICK n : n = Chosen(req[h].dto.roundingStep, settings.roundingStep)
  OBVIOUS
<1>3. n \in Nat /\ settings.roundingStep \in Nat
  BY <1>0, <1>1, <1>2, SettingsAre, RequestsAssumption DEF Chosen
<1>4. settings' \in Settings
  <2>1. settings' = [settings EXCEPT !.roundingStep = n]
    BY <1>2 DEF WriteSettings
  <2> QED BY <1>0, <1>3, <2>1, SettingsAre
<1>5. Moves(h, "settingsBump", req[h]) /\ UNCHANGED <<listings, promotions, items, clock, tx, asked, lost, sound>>
  BY <1>0 DEF WriteSettings, Moves, Goto
<1>6. cached' \in Nat \cup {None}
  BY <1>0, <1>3 DEF WriteSettings, Tables
<1>7. req[h].kind \in OfAll
  BY <1>1 DEF OfAll
<1>8. Prepares(h, "settingsBump", req[h]) /\ Begins(h, "settingsBump", req[h]) /\ SameRequest(req[h], req[h])
  <2>1. pc[h] = "settings"
    BY <1>0 DEF WriteSettings
  <2>2. lost' \in BOOLEAN
    BY <1>0, <1>5 DEF Tables
  <2>3. Prepares(h, "settingsBump", req[h])
    BY <1>4, <1>5, <1>6, <1>7, <2>1, <2>2 DEF Prepares
  <2> QED BY <2>3 DEF Begins, SameRequest
<1>9. InPlace("settingsBump", req[h]) /\ "settingsBump" \in Stages \ {"idle", "bump"}
  BY <1>1 DEF InPlace, Recalculating, Stages
<1> QED BY <1>1, <1>5, <1>7, <1>8, <1>9, OfAllWork

LEMMA SettingsBumpWorks ==
    ASSUME Transacted, NEW h \in Handlers, SettingsBump(h)
    PROVE  Works(h)
<1>0. Typed /\ Tables
  BY DEF Transacted, Typed
<1>1. pc[h] = "settingsBump" /\ req[h].kind = "settings" /\ req[h].kind \in Transactional \cup OfAll /\ req[h].kind \in OfAll
  BY DEF Transacted, Typed, SettingsBump, InPlace, OfAll
<1>2. Recalculate(h, req[h], Listings) /\ DropCache /\ UNCHANGED <<tables, clock, tx, asked, sound>>
  BY DEF SettingsBump
<1>3. PICK r \in RequestRow :
              /\ Go(h, "read", r) /\ SameRequest(req[h], r) /\ Asks(r) /\ InPlace("read", r)
              /\ Begins(h, "read", r)
  <2>1. Listings \in SUBSET Listings /\ Listings = Recalculated(h)
    BY <1>1 DEF Recalculated
  <2> QED BY <1>0, <1>1, <1>2, <2>1, RecalculateIs
<1>4. Prepares(h, "read", r)
  BY <1>0, <1>2, NoneIsNoNumber DEF Prepares, Tables, tables, DropCache
<1>5. Moves(h, "read", r) /\ "read" \in Stages \ {"idle", "bump"}
  BY <1>3 DEF Go, Goto, Moves, Stages
<1>6. pc[h] \in {"tiers", "settings", "settingsBump", "order", "scope"} /\ UNCHANGED tx
  BY <1>1, <1>2
<1> QED BY <1>1, <1>3, <1>4, <1>5, <1>6, OfAllWork

LEMMA WriteOrderWorks ==
    ASSUME Transacted, NEW h \in Handlers, WriteOrder(h)
    PROVE  Works(h)
<1>0. Typed /\ Tables
  BY DEF Transacted, Typed
<1>1. pc[h] = "order" /\ req[h].kind = "priorities" /\ req[h].kind \in Transactional \cup OfAll /\ req[h].kind \in OfAll
      /\ req[h].dto \in PriceOrder
  BY DEF Transacted, Typed, WriteOrder, InPlace, OfAll, Asks
<1>2. Recalculate(h, req[h], Listings) /\ settings' = [settings EXCEPT !.order = req[h].dto]
      /\ UNCHANGED <<listings, promotions, items, cached, lost, clock, tx, asked, sound>>
  BY DEF WriteOrder
<1>3. PICK r \in RequestRow :
              /\ Go(h, "read", r) /\ SameRequest(req[h], r) /\ Asks(r) /\ InPlace("read", r)
              /\ Begins(h, "read", r)
  <2>1. Listings \in SUBSET Listings /\ Listings = Recalculated(h)
    BY <1>1 DEF Recalculated
  <2> QED BY <1>0, <1>1, <1>2, <2>1, RecalculateIs
<1>4. settings' \in Settings
  <2>1. PICK o \in PriceOrder : o = req[h].dto
    BY <1>1
  <2> QED BY <1>0, <1>2, <2>1, SettingsAre
<1>5. Prepares(h, "read", r)
  BY <1>0, <1>1, <1>2, <1>4 DEF Prepares, Tables
<1>6. Moves(h, "read", r) /\ "read" \in Stages \ {"idle", "bump"}
  BY <1>3 DEF Go, Goto, Moves, Stages
<1>7. pc[h] \in {"tiers", "settings", "settingsBump", "order", "scope"} /\ UNCHANGED tx
  BY <1>1, <1>2
<1> QED BY <1>1, <1>3, <1>5, <1>6, <1>7, OfAllWork

LEMMA TransitionedScopeWorks ==
    ASSUME Transacted, NEW h \in Handlers, TransitionedScope(h)
    PROVE  IF Transitioned(h) = {} THEN Ends(h) ELSE Works(h)
<1>0. Typed /\ Tables
  BY DEF Transacted, Typed
<1>1. pc[h] = "scope" /\ req[h].kind = "tick" /\ req[h].kind \in Transactional \cup OfAll /\ req[h].kind \in OfAll
      /\ req[h].kind \notin Transactional
  BY DEF Transacted, Typed, TransitionedScope, InPlace, OfAll, Transactional
<1>2. (IF Transitioned(h) = {} THEN End(h) ELSE Recalculate(h, req[h], Transitioned(h)))
      /\ UNCHANGED <<tables, cached, lost, clock, tx, asked, sound>>
  BY DEF TransitionedScope, Transitioned, Crossed
<1>3. Transitioned(h) \in SUBSET Listings
  <2>1. \A p \in Promotions : DOMAIN items[p] \subseteq Listings
    BY <1>0, RowsAre DEF Tables
  <2> QED BY <2>1 DEF Transitioned
<1>4. h \in Active /\ tx' = [tx EXCEPT ![h] = NoTx]
  BY <1>1, <1>2, TxUnchanged DEF Active
<1>5. CASE Transitioned(h) = {}
  BY <1>0, <1>1, <1>2, <1>4, <1>5 DEF Ends, Tables
<1>6. CASE Transitioned(h) # {}
  <2>1. PICK r \in RequestRow :
              /\ Go(h, "read", r) /\ SameRequest(req[h], r) /\ Asks(r) /\ InPlace("read", r)
              /\ Begins(h, "read", r)
    <3>1. Transitioned(h) = Recalculated(h)
      BY <1>1 DEF Recalculated
    <3> QED BY <1>0, <1>1, <1>2, <1>3, <1>6, <3>1, RecalculateIs
  <2>2. Prepares(h, "read", r)
    BY <1>0, <1>1, <1>2, Unprepared
  <2>3. Moves(h, "read", r) /\ "read" \in Stages \ {"idle", "bump"}
    BY <2>1 DEF Go, Goto, Moves, Stages
  <2>4. pc[h] \in {"tiers", "settings", "settingsBump", "order", "scope"} /\ UNCHANGED tx
    BY <1>1, <1>2
  <2> QED BY <1>1, <1>6, <2>1, <2>2, <2>3, <2>4, OfAllWork
<1> QED BY <1>5, <1>6

LEMMA FailEnds ==
    ASSUME Transacted, NEW h \in Handlers, Fail(h)
    PROVE  Ends(h)
<1>0. Tables /\ lost \in BOOLEAN /\ sound \in SUBSET Listings
  BY DEF Transacted, Typed, Tables
<1>1. "remove" \notin OfAll /\ Transactional \cap OfAll = {}
  BY DEF OfAll, Transactional
<1>2. h \in Active /\ End(h) /\ tx' = [tx EXCEPT ![h] = NoTx] /\ UNCHANGED <<tables, cached, clock, asked>>
  BY DEF Fail
<1>5. lost' \in BOOLEAN /\ (cached # None /\ ~lost' => cached # None /\ ~lost /\ pc[h] # "settingsBump")
  <2>1. lost' = (lost \/ (pc[h] = "settingsBump" /\ cached # None))
    BY DEF Fail
  <2>2. CASE lost \/ (pc[h] = "settingsBump" /\ cached # None)
    BY <2>1, <2>2
  <2>3. CASE ~(lost \/ (pc[h] = "settingsBump" /\ cached # None))
    BY <2>1, <2>3
  <2> QED BY <2>2, <2>3
<1>3. CASE InTx(h) \/ req[h].kind = "remove"
  <2>1. sound' = sound
    BY <1>3 DEF Fail
  <2>2. req[h].kind \notin OfAll
    BY <1>1, <1>3 DEF InTx
  <2>3. sound' \in SUBSET Listings /\ sound' \subseteq sound
    BY <1>0, <2>1
  <2> QED BY <1>2, <1>5, <2>2, <2>3 DEF Ends
<1>4. CASE ~(InTx(h) \/ req[h].kind = "remove")
  <2>1. sound' = {}
    BY <1>4 DEF Fail
  <2> QED BY <1>2, <1>5, <2>1 DEF Ends
<1> QED BY <1>3, <1>4

LEMMA EndsTransacted ==
    ASSUME Transacted, NEW h \in Handlers, Ends(h)
    PROVE  Transacted'
<1>1. Tables'
  BY DEF Ends, Transacted, Typed, Tables, tables, clock
<1>2. Go(h, "idle", NoReq) /\ "idle" \in {"idle", "bump"} /\ UNCHANGED <<listings, promotions, items>>
      /\ tx' = [tx EXCEPT ![h] = NoTx]
  BY DEF Ends, End, tables
<1> QED BY <1>1, <1>2, EndTransacted

LEMMA DoneTransacted ==
    ASSUME Transacted, NEW h \in Handlers, Done(h)
    PROVE  Transacted'
<1>1. pc[h] = "done" /\ req[h].kind \notin Transactional
  BY DEF Transacted, Typed, Done, InPlace, OfAll, Transactional
<1>2. Tables'
  BY VouchedTyped DEF Done, Transacted, Typed, Tables, tables, clock
<1>3. PICK stage \in {"idle", "bump"} : Go(h, stage, NoReq)
  BY DEF Done
<1>4. UNCHANGED <<listings, promotions, items, tx>>
  BY DEF Done, tables
<1>5. tx' = [tx EXCEPT ![h] = NoTx]
  BY <1>1, <1>4, TxUnchanged
<1> QED BY <1>2, <1>3, <1>4, <1>5, EndTransacted

LEMMA BumpTransacted ==
    ASSUME Transacted, NEW h \in Handlers, Bump(h)
    PROVE  Transacted'
<1>1. pc[h] = "bump" /\ pc[h] \notin Writing
  BY DEF Bump, Writing, Recalculating
<1>2. Tables'
  BY DEF Bump, DropCache, Transacted, Typed, Tables, tables, clock
<1>3. Go(h, "idle", NoReq) /\ UNCHANGED <<listings, promotions, items, tx>>
  BY DEF Bump, End, tables
<1>4. tx' = [tx EXCEPT ![h] = NoTx]
  BY <1>1, <1>3, TxUnchanged
<1> QED BY <1>2, <1>3, <1>4, EndTransacted

-----------------------------------------------------------------------------
(* Steps of a recalculation *)

LEMMA FiniteIsBounded ==
    ASSUME NEW S \in SUBSET Nat, IsFiniteSet(S)
    PROVE  \E b \in Nat : \A x \in S : x <= b
<1>1. PICK seq \in Seq(S) : \A x \in S : \E i \in 1..Len(seq) : seq[i] = x
  BY DEF IsFiniteSet
<1>2. PICK n \in Nat : n = Len(seq)
  OBVIOUS
<1>3. seq \in [1..n -> Int]
  <2>1. seq \in [1..n -> S]
    BY <1>2
  <2>2. S \subseteq Int
    OBVIOUS
  <2> QED BY <2>1, <2>2
<1>4. PICK b \in Nat : \A i \in 1..n : seq[i] <= b
  BY <1>3, FiniteHasBound
<1>5. \A x \in S : x <= b
  BY <1>1, <1>2, <1>4
<1> QED BY <1>5

\* The first n of a set of numbers, as they are read a page at a time.
First(rest, n) == {l \in rest : Cardinality({m \in rest : m < l}) < n}

\* F is such a page.
Leading(F, rest, n) ==
    /\ F \subseteq rest
    /\ F # {} => Greatest(F) \in F /\ \A l \in F : l <= Greatest(F)
    /\ \A l \in rest, f \in F : l <= f => l \in F
    /\ Cardinality(F) # n => F = rest

LEMMA FirstLeads ==
    ASSUME NEW rest \in SUBSET Nat, IsFiniteSet(rest), NEW n \in Nat \ {0}
    PROVE  Leading(First(rest, n), rest, n)
<1> DEFINE F == First(rest, n)
<1>f. F = {l \in rest : Cardinality({m \in rest : m < l}) < n}
  BY DEF First
<1> HIDE DEF F
<1>0. \A l : IsFiniteSet({m \in rest : m < l}) /\ Cardinality({m \in rest : m < l}) \in Nat
  <2> TAKE l
  <2>1. {m \in rest : m < l} \in SUBSET rest
    OBVIOUS
  <2>2. IsFiniteSet({m \in rest : m < l})
    BY <2>1, FS_Subset
  <2> QED BY <2>2, FS_CardinalityType
<1>1. F \subseteq rest /\ F \subseteq Nat /\ IsFiniteSet(F)
  <2>1. F \in SUBSET rest
    BY <1>f
  <2> QED BY <2>1, FS_Subset
<1>2. ASSUME F # {} PROVE Greatest(F) \in F /\ \A l \in F : l <= Greatest(F)
  <2>1. \E b \in Nat : \A x \in F : x <= b
    BY <1>1, FiniteIsBounded
  <2>2. F \in SUBSET Int /\ \E e \in F : e >= 0
    <3>1. PICK e \in F : TRUE
      BY <1>2
    <3>2. F \in SUBSET Int
      BY <1>1
    <3>3. e >= 0
      BY <1>1
    <3> QED BY <3>2, <3>3
  <2> QED BY <2>1, <2>2, BoundedHasGreatest
<1>3. ASSUME NEW l \in rest, NEW f \in F, l <= f PROVE l \in F
  <2>1. \A m \in rest : m \in Nat /\ l \in Nat /\ f \in Nat
    BY <1>1
  <2>2. \A m \in rest : m < l => m < f
    BY <1>3, <2>1
  <2>3. {m \in rest : m < l} \in SUBSET {m \in rest : m < f}
    BY <2>2
  <2>4. PICK a, b : a = Cardinality({m \in rest : m < l}) /\ b = Cardinality({m \in rest : m < f})
    OBVIOUS
  <2>5. a \in Nat /\ b \in Nat
    BY <1>0, <2>4
  <2>6. a <= b
    BY <1>0, <2>3, <2>4, FS_Subset
  <2>7. b < n
    BY <1>f, <2>4
  <2>8. a < n
    BY <2>5, <2>6, <2>7
  <2> QED BY <1>f, <2>4, <2>8
<1>4. ASSUME F # rest PROVE Cardinality(F) = n
  <2>1. PICK l \in rest \ F : \A m \in rest \ F : l <= m
    BY <1>1, <1>4, LeastNatural
  <2>2. F = {m \in rest : m < l}
    <3>1. ASSUME NEW m \in F PROVE m \in rest /\ m < l
      BY <1>1, <1>3, <2>1
    <3>2. ASSUME NEW m \in rest, m < l PROVE m \in F
      BY <1>1, <2>1, <3>2
    <3> QED BY <3>1, <3>2
  <2>3. ~(Cardinality({m \in rest : m < l}) < n)
    BY <1>f, <2>1
  <2>4. F # {}
    <3>1. Cardinality({}) = 0 /\ 0 < n
      BY FS_EmptySet
    <3>2. ~(Cardinality(F) < n)
      BY <2>2, <2>3
    <3>3. ASSUME F = {} PROVE FALSE
      <4>1. Cardinality(F) = 0
        BY <3>1, <3>3
      <4> QED BY <3>1, <3>2, <4>1
    <3> QED BY <3>3
  <2>5. PICK g \in F : \A m \in F : m <= g
    BY <1>2, <2>4
  <2>6. F \ {g} = {m \in rest : m < g}
    <3>1. ASSUME NEW m \in F \ {g} PROVE m \in rest /\ m < g
      BY <1>1, <2>5
    <3>2. ASSUME NEW m \in rest, m < g PROVE m \in F \ {g}
      <4>1. m \in Nat /\ g \in Nat /\ m # g /\ m <= g
        BY <1>1, <3>2
      <4>2. m \in F
        BY <1>3, <4>1
      <4> QED BY <4>1, <4>2
    <3> QED BY <3>1, <3>2
  <2>7. Cardinality({m \in rest : m < g}) < n
    BY <1>f, <2>5
  <2>8. Cardinality(F \ {g}) = Cardinality(F) - 1
    BY <1>1, <2>5, FS_RemoveElement
  <2>9. Cardinality(F) \in Nat
    BY <1>1, FS_CardinalityType
  <2>10. ~(Cardinality(F) < n)
    BY <2>2, <2>3
  <2>11. Cardinality(F) - 1 < n
    BY <2>6, <2>7, <2>8
  <2>12. PICK c \in Nat : c = Cardinality(F)
    BY <2>9
  <2>13. ~(c < n) /\ c - 1 < n
    BY <2>10, <2>11, <2>12
  <2>14. c = n
    BY <2>13
  <2> QED BY <2>12, <2>14
<1> QED BY <1>1, <1>2, <1>3, <1>4 DEF Leading, F

\* What has been asked and is not a matter of the answers.
SameWork(q, r) ==
    SameRequest(q, r) /\ r.where = q.where /\ r.now = q.now /\ r.from = q.from

\* One query is answered: r is q with the answer.
Answered(h, q, r, query) ==
    /\ SameWork(q, r) /\ r.reads = q.reads \ {query} /\ r.cursor = q.cursor /\ r.todo = q.todo
    /\ r.config \in Config
    /\ query # "step" => r.config.roundingStep = q.config.roundingStep /\ r.stale = q.stale
    /\ query # "tiers" => r.config.markupTiers = q.config.markupTiers
    /\ query # "order" => r.config.order = q.config.order
    /\ query # "promotions" => r.promotions = q.promotions
    /\ query = "step" =>
          r.stale = lost /\ r.config.roundingStep = IF cached = None THEN settings.roundingStep ELSE cached
    /\ query = "tiers" => r.config.markupTiers = settings.markupTiers
    /\ query = "order" => r.config.order = settings.order
    /\ query = "promotions" => r.promotions = LoadPromotions(SeenPromotions(h), SeenItems(h), q.now)

LEMMA ConfigFields ==
    ASSUME NEW c \in Config, NEW t \in Tiers, NEW n \in Nat, NEW o \in PriceOrder
    PROVE  LET a == [c EXCEPT !.roundingStep = n]
               b == [c EXCEPT !.markupTiers = t]
               d == [c EXCEPT !.order = o]
           IN  /\ a \in Config /\ a.roundingStep = n /\ a.markupTiers = c.markupTiers /\ a.order = c.order
               /\ b \in Config /\ b.markupTiers = t /\ b.roundingStep = c.roundingStep /\ b.order = c.order
               /\ d \in Config /\ d.order = o /\ d.roundingStep = c.roundingStep /\ d.markupTiers = c.markupTiers
<1>1. PICK T : T = Tiers
  OBVIOUS
<1>2. PICK O : O = PriceOrder
  OBVIOUS
<1>3. Config = [markupTiers : T \cup {Keep}, roundingStep : Nat \cup {Keep}, order : O \cup {Keep}]
  BY <1>1, <1>2 DEF Config
<1> QED BY <1>1, <1>2, <1>3

\* The row of a request with another answer in it.
LEMMA AnswerTyped ==
    ASSUME NEW q \in RequestRow, NEW c \in Config, NEW found \in SUBSET Candidate, NEW reads \in SUBSET Queries,
           NEW old \in BOOLEAN
    PROVE  /\ [q EXCEPT !.reads = reads, !.config = c, !.stale = old] \in RequestRow
           /\ [q EXCEPT !.reads = reads, !.promotions = found] \in RequestRow
<1>1. PICK C, F : C = Config \cup {Keep} /\ F = SUBSET Candidate
  OBVIOUS
<1>2. PICK P, K, D : P = SUBSET [id : Listings, price : Price] /\ K = Kinds /\ D = Dtos
  OBVIOUS
<1>3. RequestRow =
    [kind : K, id : Nat, dto : D, where : SUBSET Listings, now : Nat, from : Nat,
     reads : SUBSET Queries, config : C, promotions : F,
     cursor : Nat, todo : P, more : BOOLEAN,
     changed : BOOLEAN, alone : BOOLEAN, stale : BOOLEAN]
  BY <1>1, <1>2 DEF RequestRow
<1> QED BY <1>1, <1>2, <1>3

LEMMA ReadIs ==
    ASSUME Typed, NEW h \in Handlers, Read(h)
    PROVE  \E query \in Queries, r \in RequestRow :
              /\ pc[h] = "read" /\ query \in req[h].reads /\ Answered(h, req[h], r, query)
              /\ Moves(h, IF r.reads = {} THEN "page" ELSE "read", r)
              /\ UNCHANGED <<tables, cached, lost, clock, tx, asked, sound>>
<1>0. Tables /\ pc[h] = "read" /\ UNCHANGED <<tables, cached, lost, clock, tx, asked, sound>>
  BY DEF Typed, Read
<1>1. PICK q \in RequestRow : q = req[h] /\ InPlace("read", q)
  BY <1>0 DEF Typed
<1>2. q.config \in Config /\ q.reads \in SUBSET Queries /\ q.stale \in BOOLEAN /\ q.promotions \in SUBSET Candidate
  BY <1>1 DEF InPlace, HasRead, Recalculating, RequestRow
<1>3. PICK query \in Answerable(h) :
          LET step == IF cached = None THEN settings.roundingStep ELSE cached
              r == [req[h] EXCEPT !.reads = @ \ {query}]
          IN  /\ req' = [req EXCEPT ![h] =
                    CASE query = "step"  -> [r EXCEPT !.config.roundingStep = step, !.stale = lost]
                      [] query = "tiers" -> [r EXCEPT !.config.markupTiers = settings.markupTiers]
                      [] query = "order" -> [r EXCEPT !.config.order = settings.order]
                      [] OTHER -> [r EXCEPT !.promotions =
                                      LoadPromotions(SeenPromotions(h), SeenItems(h), r.now)]]
              /\ Goto(h, IF r.reads = {} THEN "page" ELSE "read")
  BY DEF Read
<1>4. query \in q.reads /\ query \in Queries
  <2>1. Answerable(h) \subseteq req[h].reads
    BY DEF Answerable
  <2> QED BY <1>1, <1>2, <2>1
<1>5. PICK step, reads, found :
         /\ step = IF cached = None THEN settings.roundingStep ELSE cached
         /\ reads = q.reads \ {query}
         /\ found = LoadPromotions(SeenPromotions(h), SeenItems(h), q.now)
  OBVIOUS
<1>6. step \in Nat /\ settings.markupTiers \in Tiers /\ settings.order \in PriceOrder /\ lost \in BOOLEAN
  BY <1>0, <1>5, SettingsAre DEF Tables
<1>7. reads \in SUBSET Queries
  BY <1>2, <1>5
<1>8. found \in SUBSET Candidate
  BY <1>5, SeenTyped, LoadedTyped
<1>9. PICK a, b, d :
         /\ a = [q.config EXCEPT !.roundingStep = step]
         /\ b = [q.config EXCEPT !.markupTiers = settings.markupTiers]
         /\ d = [q.config EXCEPT !.order = settings.order]
  OBVIOUS
<1>10. /\ a \in Config /\ a.roundingStep = step /\ a.markupTiers = q.config.markupTiers /\ a.order = q.config.order
       /\ b \in Config /\ b.markupTiers = settings.markupTiers /\ b.roundingStep = q.config.roundingStep /\ b.order = q.config.order
       /\ d \in Config /\ d.order = settings.order /\ d.roundingStep = q.config.roundingStep /\ d.markupTiers = q.config.markupTiers
  BY <1>2, <1>6, <1>9, ConfigFields
<1>11. PICK r : r = CASE query = "step"  -> [q EXCEPT !.reads = reads, !.config = a, !.stale = lost]
                      [] query = "tiers" -> [q EXCEPT !.reads = reads, !.config = b, !.stale = q.stale]
                      [] query = "order" -> [q EXCEPT !.reads = reads, !.config = d, !.stale = q.stale]
                      [] OTHER -> [q EXCEPT !.reads = reads, !.promotions = found]
  OBVIOUS
<1>12. r \in RequestRow
  <2>1. /\ [q EXCEPT !.reads = reads, !.config = a, !.stale = lost] \in RequestRow
        /\ [q EXCEPT !.reads = reads, !.config = b, !.stale = q.stale] \in RequestRow
        /\ [q EXCEPT !.reads = reads, !.config = d, !.stale = q.stale] \in RequestRow
        /\ [q EXCEPT !.reads = reads, !.promotions = found] \in RequestRow
    BY <1>2, <1>6, <1>7, <1>8, <1>10, AnswerTyped
  <2> QED BY <1>11, <2>1
<1>13. req' = [req EXCEPT ![h] = r] /\ Goto(h, IF reads = {} THEN "page" ELSE "read")
  <2>1. q = [kind |-> q.kind, id |-> q.id, dto |-> q.dto, where |-> q.where, now |-> q.now,
             from |-> q.from, reads |-> q.reads, config |-> q.config, promotions |-> q.promotions, cursor |-> q.cursor,
             todo |-> q.todo, more |-> q.more, changed |-> q.changed, alone |-> q.alone, stale |-> q.stale]
    BY DEF RequestRow
  <2>2. PICK s : s = [q EXCEPT !.reads = reads]
    OBVIOUS
  <2>3. s.reads = reads /\ s.now = q.now /\ s.config = q.config /\ s.stale = q.stale
    BY <2>1, <2>2
  <2>4. /\ [s EXCEPT !.config.roundingStep = step, !.stale = lost] = [q EXCEPT !.reads = reads, !.config = a, !.stale = lost]
        /\ [s EXCEPT !.config.markupTiers = settings.markupTiers] = [q EXCEPT !.reads = reads, !.config = b, !.stale = q.stale]
        /\ [s EXCEPT !.config.order = settings.order] = [q EXCEPT !.reads = reads, !.config = d, !.stale = q.stale]
        /\ [s EXCEPT !.promotions = found] = [q EXCEPT !.reads = reads, !.promotions = found]
    BY <1>9, <2>1, <2>2
  <2> QED BY <1>1, <1>3, <1>5, <1>11, <2>2, <2>3, <2>4
<1>14. Answered(h, q, r, query)
  <2>1. q \in RequestRow
    OBVIOUS
  <2>2. /\ r.kind = q.kind /\ r.id = q.id /\ r.dto = q.dto /\ r.alone = q.alone /\ r.where = q.where /\ r.now = q.now
        /\ r.from = q.from /\ r.reads = reads /\ r.cursor = q.cursor /\ r.todo = q.todo
    BY <1>11 DEF RequestRow
  <2>3. /\ query = "step" => r.config = a /\ r.stale = lost /\ r.promotions = q.promotions
        /\ query = "tiers" => r.config = b /\ r.stale = q.stale /\ r.promotions = q.promotions
        /\ query = "order" => r.config = d /\ r.stale = q.stale /\ r.promotions = q.promotions
        /\ query = "promotions" => r.config = q.config /\ r.stale = q.stale /\ r.promotions = found
    BY <1>11 DEF RequestRow
  <2> QED BY <1>2, <1>4, <1>5, <1>10, <2>2, <2>3 DEF Answered, SameWork, SameRequest, Queries
<1>15. r.reads = reads
  BY <1>5, <1>14 DEF Answered
<1>16. Moves(h, IF r.reads = {} THEN "page" ELSE "read", r)
  BY <1>13, <1>15 DEF Moves, Goto
<1> QED BY <1>0, <1>1, <1>4, <1>12, <1>14, <1>16

LEMMA SameWrote ==
    ASSUME NEW q, NEW r, SameRequest(q, r), r.where = q.where, NEW s \in Writing, NEW stage \in Writing, NEW w, Wrote(s, q, w)
    PROVE  Wrote(stage, r, w)
<1>1. r.kind = q.kind /\ r.id = q.id /\ r.dto = q.dto /\ r.where = q.where
  BY DEF SameRequest
<1>2. \A l : Marked(q, w, l) => Marked(r, w, l)
  BY <1>1 DEF Marked
<1> QED BY <1>1, <1>2 DEF Wrote

\* Asks says nothing of what a recalculation finds out.
LEMMA SameWorkAsks ==
    ASSUME NEW q, NEW r, SameWork(q, r), Asks(q)
    PROVE  Asks(r)
BY DEF SameWork, SameRequest, Asks

\* A step of a recalculation that writes nothing.
LEMMA LooksTransacted ==
    ASSUME Transacted, NEW h \in Handlers, pc[h] \in Writing, NEW stage, NEW r \in RequestRow,
           stage \in Writing \/ (stage = "done" /\ r.kind \in OfAll),
           SameWork(req[h], r), Moves(h, stage, r), InPlace(stage, r),
           UNCHANGED <<tables, cached, lost, clock, tx, asked, sound>>
    PROVE  Transacted'
<1>0. Typed /\ tx \in [Handlers -> Writes]
  BY DEF Transacted, Typed
<1>1. PICK w \in Writes : w = tx[h]
  BY <1>0
<1>2. Wrote(pc[h], req[h], w) /\ Fits(h, w) /\ Asks(req[h])
  BY <1>0, <1>1 DEF Transacted, Typed
<1>3. Wrote(stage, r, w)
  <2>1. SameRequest(req[h], r) /\ r.where = req[h].where
    BY DEF SameWork
  <2>2. CASE stage \in Writing
    BY <1>2, <2>1, <2>2, SameWrote
  <2>3. CASE stage = "done" /\ r.kind \in OfAll
    BY <1>2, <2>1, <2>3 DEF SameRequest, Wrote, OfAll, Transactional
  <2> QED BY <2>2, <2>3
<1>6. Asks(r)
  BY <1>2, SameWorkAsks
<1>4. tx' = [tx EXCEPT ![h] = w]
  BY <1>0, <1>1
<1>5. Turns(h, stage, r, w) /\ stage \in Stages
  BY <1>4 DEF Moves, Turns, Writing, Recalculating, Stages
<1>7. Tables' /\ UNCHANGED <<listings, promotions, items>>
  BY <1>0 DEF Typed, Tables, tables, clock
<1> QED BY <1>2, <1>3, <1>5, <1>6, <1>7, WorkTransacted

LEMMA ReadTransacted ==
    ASSUME Transacted, NEW h \in Handlers, Read(h)
    PROVE  Transacted'
<1>0. Typed
  BY DEF Transacted
<1>1. PICK query \in Queries, r \in RequestRow :
              /\ pc[h] = "read" /\ query \in req[h].reads /\ Answered(h, req[h], r, query)
              /\ Moves(h, IF r.reads = {} THEN "page" ELSE "read", r)
              /\ UNCHANGED <<tables, cached, lost, clock, tx, asked, sound>>
  BY <1>0, ReadIs
<1>2. PICK q \in RequestRow : q = req[h] /\ InPlace("read", q)
  BY <1>0, <1>1 DEF Typed
<1>3. PICK stage \in {"read", "page"} : stage = IF r.reads = {} THEN "page" ELSE "read"
  OBVIOUS
<1>4. HasRead(r)
  <2>1. HasRead(q)
    BY <1>2 DEF InPlace, Recalculating
  <2>2. Answered(h, q, r, query)
    BY <1>1, <1>2
  <2>3. settings.markupTiers \in Tiers /\ settings.roundingStep \in Nat /\ settings.order \in PriceOrder
        /\ cached \in Nat \cup {None}
    BY <1>0, SettingsAre DEF Typed, Tables
  <2> QED BY <2>1, <2>2, <2>3 DEF HasRead, Answered
<1>5. InPlace(stage, r)
  <2>1. q.cursor = 0 /\ q.todo = {} /\ q.kind \in Transactional \cup OfAll
    BY <1>2 DEF InPlace, Recalculating
  <2>2. r.cursor = 0 /\ r.todo = {} /\ r.kind = q.kind
    BY <1>1, <1>2, <2>1 DEF Answered, SameWork, SameRequest
  <2>3. r.reads = {} \/ stage = "read"
    BY <1>3
  <2> QED BY <1>4, <2>1, <2>2, <2>3 DEF InPlace, Recalculating
<1>6. pc[h] \in Writing /\ stage \in Writing
  BY <1>1, <1>3 DEF Writing, Recalculating
<1>7. SameWork(req[h], r)
  BY <1>1 DEF Answered
<1>8. Moves(h, stage, r)
  BY <1>1, <1>3
<1> QED BY <1>1, <1>5, <1>6, <1>7, <1>8, LooksTransacted

\* What the answers say listing l should cost.
Due(h, l) == Resolved(SeenListings(h)[l], req[h].config, OffersFor(l, req[h].promotions), req[h].now)

LEMMA DueIsWhole ==
    ASSUME Typed, NEW h \in Handlers, req[h].reads = {}, HasRead(req[h]), NEW l \in Listings,
           Exists(SeenListings(h)[l])
    PROVE  Due(h, l) \in Price /\ PriceWhole(Due(h, l))
           /\ (Due(h, l).promotionId # None =>
                 \E o \in OffersFor(l, req[h].promotions) : o.promotionId = Due(h, l).promotionId)
<1>1. PICK row \in ListingRow : row = SeenListings(h)[l]
  BY SeenTyped, ExistsRow
<1>2. PICK q \in RequestRow : q = req[h] /\ HasRead(q) /\ q.reads = {}
  BY DEF Typed, InPlace
<1>3. q.config \in PriceConfig
  <2>1. q.config \in Config /\ q.config.markupTiers \in Tiers /\ q.config.roundingStep \in Nat /\ q.config.order \in PriceOrder
    BY <1>2 DEF HasRead
  <2>2. PICK T, O : T = Tiers /\ O = PriceOrder
    OBVIOUS
  <2>3. Config = [markupTiers : T \cup {Keep}, roundingStep : Nat \cup {Keep}, order : O \cup {Keep}]
        /\ PriceConfig = [markupTiers : T, roundingStep : Nat, order : O]
    BY <2>2 DEF Config, PriceConfig, Tiers, TierSet
  <2> QED BY <2>1, <2>2, <2>3
<1>4. q.promotions \in SUBSET Candidate
  BY DEF RequestRow
<1>5. PICK offers \in SUBSET Offered : offers = OffersFor(l, q.promotions)
  BY <1>4, OffersTyped
<1>6. row.costPrice \in Nat /\ row.customMarkupBps \in Nat \cup {None}
  BY DEF ListingRow
<1>7. PICK p : p = Resolved(row, q.config, offers, q.now)
  OBVIOUS
<1>8. p \in Price /\ PriceWhole(p) /\ (p.promotionId # None => \E o \in offers : o.promotionId = p.promotionId)
  BY <1>3, <1>6, <1>7, ResolvedIsWhole
<1>9. Due(h, l) = p
  BY <1>1, <1>2, <1>5, <1>7 DEF Due
<1> QED BY <1>2, <1>5, <1>8, <1>9

\* What a page leaves to write, and what h knows when it has read it.
ToReprice(h) ==
    {[id |-> l, price |-> Due(h, l)] : l \in {m \in Page(h) : PriceOf(SeenListings(h)[m]) # Due(h, m)}}

Paged(h, q, r) ==
    /\ SameWork(q, r) /\ r.reads = q.reads /\ r.config = q.config /\ r.promotions = q.promotions /\ r.stale = q.stale
    /\ r.todo = ToReprice(h) /\ r.more = (Cardinality(Page(h)) = PageSize)
    /\ r.cursor = IF Page(h) = {} THEN q.cursor ELSE Greatest(Page(h))

\* Listings that are still to be read.
Ahead(h) == {l \in req[h].where : Exists(SeenListings(h)[l]) /\ l > req[h].cursor}

LEMMA PageLeads ==
    ASSUME Typed, NEW h \in Handlers
    PROVE  Leading(Page(h), Ahead(h), PageSize)
<1>1. Ahead(h) \in SUBSET Listings
  BY DEF Ahead, Typed, RequestRow
<1>2. Ahead(h) \in SUBSET Nat /\ IsFiniteSet(Ahead(h))
  BY <1>1, IdsAssumption, FS_Subset
<1>3. Page(h) = First(Ahead(h), PageSize)
  BY DEF Page, First, Ahead
<1>4. PageSize \in Nat \ {0}
  BY BoundsAssumption
<1> QED BY <1>2, <1>3, <1>4, FirstLeads

LEMMA PageTyped ==
    ASSUME NEW q \in RequestRow, NEW todo \in SUBSET [id : Listings, price : Price], NEW more \in BOOLEAN,
           NEW changed \in BOOLEAN, NEW cursor \in Nat
    PROVE  [q EXCEPT !.todo = todo, !.more = more, !.changed = changed, !.cursor = cursor] \in RequestRow
<1>1. PICK C, F : C = Config \cup {Keep} /\ F = SUBSET Candidate
  OBVIOUS
<1>2. PICK P, K, D : P = SUBSET [id : Listings, price : Price] /\ K = Kinds /\ D = Dtos
  OBVIOUS
<1>3. RequestRow =
    [kind : K, id : Nat, dto : D, where : SUBSET Listings, now : Nat, from : Nat,
     reads : SUBSET Queries, config : C, promotions : F,
     cursor : Nat, todo : P, more : BOOLEAN,
     changed : BOOLEAN, alone : BOOLEAN, stale : BOOLEAN]
  BY <1>1, <1>2 DEF RequestRow
<1> QED BY <1>1, <1>2, <1>3

\* Where a request with prices r to write goes on.
Onward(r) == IF r.todo # {} THEN "write" ELSE IF r.more THEN "page" ELSE AfterRecalculation(r)

LEMMA ReadPageIs ==
    ASSUME Typed, NEW h \in Handlers, ReadPage(h)
    PROVE  \E r \in RequestRow :
              /\ pc[h] = "page" /\ Paged(h, req[h], r) /\ ToWrite(r)
              /\ Moves(h, Onward(r), r)
              /\ UNCHANGED <<tables, cached, lost, clock, tx, asked, sound>>
<1>0. pc[h] = "page" /\ UNCHANGED <<tables, cached, lost, clock, tx, asked, sound>>
  BY DEF ReadPage
<1>1. PICK q \in RequestRow : q = req[h] /\ InPlace("page", q)
  BY <1>0 DEF Typed
<1>2. q.reads = {} /\ q.changed \in BOOLEAN /\ q.cursor \in Nat
  BY <1>1 DEF InPlace, RequestRow
<1> DEFINE price == [l \in Page(h) |-> Resolved(SeenListings(h)[l], req[h].config,
                                 OffersFor(l, req[h].promotions), req[h].now)]
           found == {[id |-> l, price |-> price[l]] : l \in {m \in Page(h) : PriceOf(SeenListings(h)[m]) # price[m]}}
<1>3. found = ToReprice(h)
  <2>1. \A l \in Page(h) : price[l] = Due(h, l)
    BY DEF Due
  <2> HIDE DEF price
  <2>2. ASSUME NEW l \in {m \in Page(h) : PriceOf(SeenListings(h)[m]) # price[m]}
        PROVE  l \in {m \in Page(h) : PriceOf(SeenListings(h)[m]) # Due(h, m)} /\ price[l] = Due(h, l)
    BY <2>1
  <2>3. ASSUME NEW l \in {m \in Page(h) : PriceOf(SeenListings(h)[m]) # Due(h, m)}
        PROVE  l \in {m \in Page(h) : PriceOf(SeenListings(h)[m]) # price[m]} /\ price[l] = Due(h, l)
    BY <2>1
  <2> QED BY <2>2, <2>3 DEF ToReprice
<1>4. /\ req' = [req EXCEPT ![h].todo = found, ![h].more = (Cardinality(Page(h)) = PageSize),
                            ![h].changed = @ \/ found # {},
                            ![h].cursor = IF Page(h) = {} THEN @ ELSE Greatest(Page(h))]
      /\ Goto(h, IF found # {} THEN "write" ELSE IF Cardinality(Page(h)) = PageSize THEN "page"
                   ELSE AfterRecalculation(req[h]))
  BY DEF ReadPage
<1> HIDE DEF found
<1>5. PICK page, todo, more, cursor :
         /\ page = Page(h) /\ todo = ToReprice(h) /\ more = (Cardinality(page) = PageSize)
         /\ cursor = IF page = {} THEN q.cursor ELSE Greatest(page)
  OBVIOUS
<1>6. req \in [Handlers -> RequestRow]
  BY DEF Typed
<1>7. /\ req' = [req EXCEPT ![h].todo = todo, ![h].more = more, ![h].changed = @ \/ todo # {}, ![h].cursor = cursor]
      /\ Goto(h, IF todo # {} THEN "write" ELSE IF more THEN "page" ELSE AfterRecalculation(req[h]))
  BY <1>1, <1>3, <1>4, <1>5, <1>6
<1>8. page \subseteq Ahead(h) /\ page \subseteq q.where /\ q.where \subseteq Listings
      /\ \A l \in page : Exists(SeenListings(h)[l])
  BY <1>1, <1>5, PageLeads DEF Ahead, RequestRow, Leading
<1>9. \A l \in page : Due(h, l) \in Price /\ PriceWhole(Due(h, l))
  BY <1>0, <1>1, <1>2, <1>8, DueIsWhole DEF Recalculating, InPlace
<1>10. todo \in SUBSET [id : Listings, price : Price]
  BY <1>5, <1>8, <1>9 DEF ToReprice
<1>11. cursor \in Nat
  <2>1. page # {} => Greatest(page) \in page
    BY <1>5, PageLeads DEF Leading
  <2>2. page \subseteq Nat
    BY <1>8, IdsAssumption
  <2> QED BY <1>2, <1>5, <2>1, <2>2
<1>12. more \in BOOLEAN
  BY <1>5
<1>13. PICK changed \in BOOLEAN : changed = (q.changed \/ todo # {})
  OBVIOUS
<1>14. PICK r : r = [q EXCEPT !.todo = todo, !.more = more, !.changed = changed, !.cursor = cursor]
  OBVIOUS
<1>15. r \in RequestRow
  BY <1>10, <1>11, <1>12, <1>14, PageTyped
<1>16. r.todo = todo /\ r.more = more /\ r.cursor = cursor /\ SameWork(q, r)
       /\ r.reads = q.reads /\ r.config = q.config /\ r.promotions = q.promotions /\ r.stale = q.stale
  BY <1>14 DEF RequestRow, SameWork, SameRequest
<1>17. req' = [req EXCEPT ![h] = r]
  BY <1>1, <1>7, <1>13, <1>14
<1>18. AfterRecalculation(r) = AfterRecalculation(req[h])
  BY <1>1, <1>16 DEF AfterRecalculation, SameWork, SameRequest
<1>19. Moves(h, Onward(r), r)
  BY <1>7, <1>16, <1>17, <1>18 DEF Moves, Goto, Onward
<1>20. Paged(h, req[h], r)
  BY <1>1, <1>5, <1>16 DEF Paged
<1>21. ToWrite(r)
  <2>1. \A u \in todo : u.id \in page /\ u.price = Due(h, u.id)
    BY <1>5 DEF ToReprice
  <2>2. \A u, v \in todo : u.id = v.id => u = v
    BY <1>10, <2>1
  <2>3. r.where = q.where
    BY <1>16 DEF SameWork
  <2> QED BY <1>8, <1>9, <1>16, <2>1, <2>2, <2>3 DEF ToWrite
<1> QED BY <1>0, <1>15, <1>19, <1>20, <1>21

LEMMA AfterIs ==
    ASSUME NEW r
    PROVE  /\ r.kind \in Transactional => AfterRecalculation(r) = "commit"
           /\ r.kind \in OfAll => AfterRecalculation(r) = "done"
BY DEF AfterRecalculation, Transactional, OfAll

LEMMA OnwardIs ==
    ASSUME NEW r, r.kind \in Transactional \cup OfAll, HasRead(r), r.reads = {}, ToWrite(r)
    PROVE  /\ InPlace(Onward(r), r) /\ Onward(r) \in Stages
           /\ r.kind \in Transactional => Onward(r) \in Writing
           /\ r.kind \notin Transactional => Onward(r) \in Recalculating \cup {"done"}
<1>1. PICK stage : stage = Onward(r)
  OBVIOUS
<1>2. \/ stage = "write"
      \/ stage = "page" /\ r.todo = {}
      \/ r.todo = {} /\ stage = "commit" /\ r.kind \in Transactional
      \/ r.todo = {} /\ stage = "done" /\ r.kind \in OfAll /\ r.kind \notin Transactional
  <2>1. CASE r.todo # {}
    BY <1>1, <2>1 DEF Onward
  <2>2. CASE r.todo = {} /\ r.more
    BY <1>1, <2>2 DEF Onward
  <2>3. CASE r.todo = {} /\ ~r.more
    <3>1. stage = AfterRecalculation(r)
      BY <1>1, <2>3 DEF Onward
    <3> QED BY <2>3, <3>1, AfterIs DEF AfterRecalculation
  <2> QED BY <2>1, <2>2, <2>3
<1>3. InPlace(stage, r)
  BY <1>2 DEF InPlace, Recalculating
<1> QED BY <1>1, <1>2, <1>3 DEF Writing, Recalculating, Stages

LEMMA ReadPageTransacted ==
    ASSUME Transacted, NEW h \in Handlers, ReadPage(h)
    PROVE  Transacted'
<1>0. Typed
  BY DEF Transacted
<1>1. PICK r \in RequestRow :
              /\ pc[h] = "page" /\ Paged(h, req[h], r) /\ ToWrite(r)
              /\ Moves(h, Onward(r), r)
              /\ UNCHANGED <<tables, cached, lost, clock, tx, asked, sound>>
  BY <1>0, ReadPageIs
<1>2. PICK q \in RequestRow : q = req[h] /\ InPlace("page", q)
  BY <1>0, <1>1 DEF Typed
<1>3. q.kind \in Transactional \cup OfAll /\ HasRead(q) /\ q.reads = {}
  BY <1>2 DEF InPlace, Recalculating
<1>4. r.kind = q.kind /\ HasRead(r) /\ r.reads = {}
  BY <1>1, <1>2, <1>3 DEF Paged, SameWork, SameRequest, HasRead
<1>5. PICK stage : stage = Onward(r)
  OBVIOUS
<1>6. InPlace(stage, r) /\ (stage \in Writing \/ (stage = "done" /\ r.kind \in OfAll))
  BY <1>1, <1>3, <1>4, <1>5, OnwardIs DEF Writing
<1>7. pc[h] \in Writing /\ SameWork(req[h], r) /\ Moves(h, stage, r)
  BY <1>1, <1>5 DEF Paged, Writing, Recalculating
<1> QED BY <1>1, <1>6, <1>7, LooksTransacted

\* The row of l as u says it is to be written.
Given(h, l, row, u) ==
    /\ u.id = l /\ Exists(SeenListings(h)[l]) /\ row = Repriced(SeenListings(h)[l], u.price)
    /\ u.price.promotionId # None =>
          Exists(SeenPromotions(h)[u.price.promotionId]) /\ ~BeingDeleted(h, u.price.promotionId)

\* What a chunk of prices writes, and what h has left to write.
Priced(h, q, r, new) ==
    /\ SameWork(q, r) /\ r.reads = q.reads /\ r.config = q.config /\ r.promotions = q.promotions /\ r.stale = q.stale
    /\ r.cursor = q.cursor /\ r.more = q.more /\ r.todo = q.todo \ Chunk(h)
    /\ ListingsFree(h, DOMAIN new)
    /\ \A u \in Chunk(h) : Exists(SeenListings(h)[u.id]) => u.id \in DOMAIN new
    /\ \A l \in DOMAIN new : \E u \in Chunk(h) : Given(h, l, new[l], u)

LEMMA RepricedTyped ==
    ASSUME NEW row \in ListingRow, NEW p \in Price
    PROVE  /\ Repriced(row, p) \in ListingRow /\ PriceOf(Repriced(row, p)) = p
           /\ Target(Repriced(row, p)) = Target(row)
           /\ Repriced(row, p).promotionId = p.promotionId
           /\ PriceWhole(p) => RowWhole(Repriced(row, p))
<1>1. PICK S, P : S = Source /\ P = Promotions \cup {None}
  OBVIOUS
<1>2. ListingRow = [costPrice : Nat, customMarkupBps : Nat \cup {None}, price : Nat, source : S,
        oldPrice : Nat \cup {None}, promotionId : P, onPromo : BOOLEAN]
      /\ Price = [price : Nat, source : S, oldPrice : Nat \cup {None}, promotionId : P]
  BY <1>1 DEF ListingRow, Price
<1>3. PICK b \in BOOLEAN : b = (p.promotionId # None)
  OBVIOUS
<1>4. Repriced(row, p) = [row EXCEPT !.price = p.price, !.source = p.source, !.oldPrice = p.oldPrice,
                !.promotionId = p.promotionId, !.onPromo = b]
  BY <1>3 DEF Repriced
<1>5. Repriced(row, p) \in ListingRow
  BY <1>2, <1>4
<1>6. PICK x : x = Repriced(row, p)
  OBVIOUS
<1>7. x.price = p.price /\ x.source = p.source /\ x.oldPrice = p.oldPrice /\ x.promotionId = p.promotionId
      /\ x.onPromo = b /\ x.costPrice = row.costPrice /\ x.customMarkupBps = row.customMarkupBps
  BY <1>2, <1>4, <1>6
<1>8. p = [price |-> p.price, source |-> p.source, oldPrice |-> p.oldPrice, promotionId |-> p.promotionId]
  BY <1>2
<1>9. PriceOf(x) = p
  BY <1>7, <1>8 DEF PriceOf
<1>10. Target(x) = Target(row)
  BY <1>7 DEF Target
<1>11. PriceWhole(p) => RowWhole(x)
  BY <1>3, <1>7 DEF PriceWhole, RowWhole
<1> QED BY <1>5, <1>6, <1>7, <1>9, <1>10, <1>11

LEMMA LeftTyped ==
    ASSUME NEW q \in RequestRow, NEW todo \in SUBSET q.todo
    PROVE  [q EXCEPT !.todo = todo] \in RequestRow
<1>1. PICK C, F : C = Config \cup {Keep} /\ F = SUBSET Candidate
  OBVIOUS
<1>2. PICK P, K, D : P = [id : Listings, price : Price] /\ K = Kinds /\ D = Dtos
  OBVIOUS
<1>3. RequestRow =
    [kind : K, id : Nat, dto : D, where : SUBSET Listings, now : Nat, from : Nat,
     reads : SUBSET Queries, config : C, promotions : F,
     cursor : Nat, todo : SUBSET P, more : BOOLEAN,
     changed : BOOLEAN, alone : BOOLEAN, stale : BOOLEAN]
  BY <1>1, <1>2 DEF RequestRow
<1>4. todo \in SUBSET P
  BY <1>3
<1> QED BY <1>3, <1>4

LEMMA WritePricesIs ==
    ASSUME Typed, NEW h \in Handlers, WritePrices(h)
    PROVE  \E r \in RequestRow, new \in Rows(Listings, ListingRow) :
              /\ pc[h] = "write" /\ Priced(h, req[h], r, new) /\ ToWrite(r)
              /\ Moves(h, Onward(r), r)
              /\ IF InTx(h) THEN tx' = [tx EXCEPT ![h].listings = Over(new, @)] /\ UNCHANGED listings
                 ELSE listings' = Over(new, listings) /\ UNCHANGED tx
              /\ UNCHANGED <<promotions, items, settings, cached, lost, clock, asked, sound>>
<1> DEFINE rows == {u \in Chunk(h) : Exists(SeenListings(h)[u.id])}
           ids == {u.id : u \in rows}
           new == [l \in ids |-> Repriced(SeenListings(h)[l], (CHOOSE u \in rows : u.id = l).price)]
           rest == req[h].todo \ Chunk(h)
<1>0. pc[h] = "write" /\ UNCHANGED <<promotions, items, settings, cached, lost, clock, asked, sound>>
  BY DEF WritePrices
<1>1. PICK q \in RequestRow : q = req[h] /\ InPlace("write", q) /\ Asks(q)
  BY <1>0 DEF Typed
<1>2. ToWrite(q) /\ q.todo \in SUBSET [id : Listings, price : Price]
  BY <1>1 DEF InPlace, RequestRow
<1>3. Chunk(h) \subseteq q.todo
  BY <1>1 DEF Chunk
<1>4. \A u \in rows : (CHOOSE v \in rows : v.id = u.id) = u
  <2>1. rows \subseteq q.todo
    BY <1>3
  <2> HIDE DEF rows
  <2> QED BY <1>2, <2>1 DEF ToWrite
<1>5. /\ ListingsFree(h, ids)
      /\ \A u \in rows : u.price.promotionId # None =>
              /\ Exists(SeenPromotions(h)[u.price.promotionId])
              /\ ~BeingDeleted(h, u.price.promotionId)
      /\ IF InTx(h) THEN tx' = [tx EXCEPT ![h].listings = Over(new, @)] /\ UNCHANGED listings
         ELSE listings' = Over(new, listings) /\ UNCHANGED tx
      /\ req' = [req EXCEPT ![h].todo = rest]
      /\ Goto(h, IF rest # {} THEN "write" ELSE IF req[h].more THEN "page" ELSE AfterRecalculation(req[h]))
  BY DEF WritePrices
<1>6. DOMAIN new = ids
  OBVIOUS
<1>7. \A u \in rows : u.id \in ids /\ new[u.id] = Repriced(SeenListings(h)[u.id], u.price)
  <2>1. ASSUME NEW u \in rows PROVE u.id \in ids /\ new[u.id] = Repriced(SeenListings(h)[u.id], u.price)
    <3>1. u.id \in ids
      OBVIOUS
    <3>2. new[u.id] = Repriced(SeenListings(h)[u.id], (CHOOSE v \in rows : v.id = u.id).price)
      BY <3>1
    <3> QED BY <1>4, <3>1, <3>2
  <2> QED BY <2>1
<1>8. \A l \in ids : \E u \in rows : u.id = l
  OBVIOUS
<1>9. \A u \in rows : u \in Chunk(h) /\ Exists(SeenListings(h)[u.id])
  OBVIOUS
<1>10. \A u \in Chunk(h) : Exists(SeenListings(h)[u.id]) => u \in rows
  OBVIOUS
<1>11. \A l \in Listings : Exists(SeenListings(h)[l]) => SeenListings(h)[l] \in ListingRow
  BY SeenTyped, ExistsRow
<1>12. new \in Rows(Listings, ListingRow)
  <2>1. ASSUME NEW u \in rows
        PROVE  u.id \in Listings /\ Repriced(SeenListings(h)[u.id], u.price) \in ListingRow
    <3>1. u.id \in Listings /\ u.price \in Price
      BY <1>2, <1>3, <1>9
    <3>2. SeenListings(h)[u.id] \in ListingRow
      BY <1>9, <1>11, <3>1
    <3> QED BY <3>1, <3>2, RepricedTyped
  <2>2. \A l \in ids : l \in Listings /\ new[l] \in ListingRow
    BY <1>7, <1>8, <2>1
  <2>3. new = [l \in ids |-> new[l]]
    OBVIOUS
  <2> HIDE DEF new, ids, rows
  <2>4. new \in [ids -> ListingRow] /\ ids \subseteq Listings
    BY <2>2, <2>3
  <2> QED BY <1>6, <2>4, RowsAre
<1> HIDE DEF new, ids, rows
<1>13. PICK todo : todo = rest
  OBVIOUS
<1>14. todo \in SUBSET q.todo
  BY <1>1, <1>13
<1> HIDE DEF rest
<1>15. PICK r : r = [q EXCEPT !.todo = todo]
  OBVIOUS
<1>16. r \in RequestRow
  BY <1>14, <1>15, LeftTyped
<1>17. r.todo = todo /\ SameWork(q, r) /\ r.reads = q.reads /\ r.config = q.config /\ r.promotions = q.promotions
       /\ r.stale = q.stale /\ r.cursor = q.cursor /\ r.more = q.more
  BY <1>15 DEF RequestRow, SameWork, SameRequest
<1>18. req' = [req EXCEPT ![h] = r]
  <2>1. req \in [Handlers -> RequestRow]
    BY DEF Typed
  <2> QED BY <1>1, <1>5, <1>13, <1>15, <2>1
<1>19. AfterRecalculation(r) = AfterRecalculation(req[h])
  BY <1>1, <1>17 DEF AfterRecalculation, SameWork, SameRequest
<1>20. Moves(h, Onward(r), r)
  BY <1>1, <1>5, <1>13, <1>17, <1>18, <1>19 DEF Moves, Goto, Onward
<1>21. ToWrite(r)
  BY <1>2, <1>14, <1>17 DEF ToWrite, SameWork
<1>22. \A l \in DOMAIN new : \E u \in Chunk(h) : Given(h, l, new[l], u)
  <2>1. ASSUME NEW l \in ids PROVE \E u \in Chunk(h) : Given(h, l, new[l], u)
    <3>1. PICK u \in rows : u.id = l
      BY <1>8
    <3> QED BY <1>5, <1>7, <1>9, <3>1 DEF Given
  <2> QED BY <1>6, <2>1
<1>23. Priced(h, req[h], r, new)
  <2>1. r.todo = q.todo \ Chunk(h)
    BY <1>1, <1>13, <1>17 DEF rest
  <2> QED BY <1>1, <1>5, <1>6, <1>7, <1>10, <1>17, <1>22, <2>1 DEF Priced
<1> QED BY <1>0, <1>5, <1>12, <1>16, <1>20, <1>21, <1>23

LEMMA PricedWrites ==
    ASSUME Transacted, NEW h \in Handlers, pc[h] = "write", NEW r \in RequestRow, NEW new \in Rows(Listings, ListingRow),
           Priced(h, req[h], r, new)
    PROVE  /\ \A l \in DOMAIN new :
                 /\ l \in req[h].where /\ Exists(SeenListings(h)[l]) /\ RowWhole(new[l])
                 /\ new[l].promotionId # None =>
                       Exists(SeenPromotions(h)[new[l].promotionId]) /\ ~BeingDeleted(h, new[l].promotionId)
           /\ HasRead(r) /\ r.reads = {} /\ r.kind = req[h].kind /\ r.kind \in Transactional \cup OfAll
           /\ SameRequest(req[h], r) /\ r.where = req[h].where /\ Asks(r)
<1>0. Typed
  BY DEF Transacted
<1>1. PICK q \in RequestRow : q = req[h] /\ InPlace("write", q) /\ Asks(q)
  BY <1>0 DEF Typed
<1>2. ToWrite(q) /\ q.todo \in SUBSET [id : Listings, price : Price] /\ HasRead(q) /\ q.reads = {}
      /\ q.kind \in Transactional \cup OfAll
  BY <1>1 DEF InPlace, RequestRow, Recalculating
<1>3. SameWork(q, r) /\ r.reads = q.reads /\ r.config = q.config
  BY <1>1 DEF Priced
<1>4. HasRead(r) /\ r.reads = {} /\ r.kind = q.kind /\ SameRequest(q, r) /\ r.where = q.where /\ Asks(r)
  BY <1>1, <1>2, <1>3, SameWorkAsks DEF SameWork, SameRequest, HasRead
<1>5. ASSUME NEW l \in DOMAIN new
      PROVE  /\ l \in q.where /\ Exists(SeenListings(h)[l]) /\ RowWhole(new[l])
             /\ new[l].promotionId # None =>
                       Exists(SeenPromotions(h)[new[l].promotionId]) /\ ~BeingDeleted(h, new[l].promotionId)
  <2>1. PICK u \in Chunk(h) : Given(h, l, new[l], u)
    BY DEF Priced
  <2>2. u \in q.todo
    BY <1>1 DEF Chunk
  <2>3. u.id = l /\ u.id \in q.where /\ PriceWhole(u.price) /\ u.price \in Price /\ l \in Listings
    BY <1>2, <2>1, <2>2 DEF ToWrite, Given
  <2>4. SeenListings(h)[l] \in ListingRow /\ Exists(SeenListings(h)[l])
    BY <1>0, <2>1, <2>3, SeenTyped, ExistsRow DEF Given
  <2>5. new[l] = Repriced(SeenListings(h)[l], u.price)
    BY <2>1 DEF Given
  <2>6. RowWhole(new[l]) /\ new[l].promotionId = u.price.promotionId
    BY <2>3, <2>4, <2>5, RepricedTyped
  <2> QED BY <2>1, <2>3, <2>4, <2>6 DEF Given
<1> QED BY <1>1, <1>2, <1>4, <1>5

LEMMA PricedInTx ==
    ASSUME Transacted, NEW h \in Handlers, pc[h] = "write", NEW r \in RequestRow, NEW new \in Rows(Listings, ListingRow),
           Priced(h, req[h], r, new), r.kind \in Transactional, NEW stage \in Writing, NEW w,
           w = [tx[h] EXCEPT !.listings = Over(new, @)]
    PROVE  w \in Writes /\ Fits(h, w) /\ Wrote(stage, r, w)
<1>0. Typed
  BY DEF Transacted
<1>1. PICK q \in RequestRow : q = req[h]
  BY <1>0 DEF Typed
<1>2. PICK v \in Writes : v = tx[h]
  BY <1>0 DEF Typed
<1>3. Fits(h, v) /\ Wrote(pc[h], q, v)
  BY <1>1, <1>2 DEF Transacted
<1>4. PICK rows : rows = Over(new, v.listings)
  OBVIOUS
<1>5. rows \in Rows(Listings, ListingRow)
  BY <1>2, <1>4, OverRows DEF Writes
<1>6. /\ DOMAIN rows = DOMAIN new \cup DOMAIN v.listings
      /\ \A l \in DOMAIN rows : rows[l] = IF l \in DOMAIN new THEN new[l] ELSE v.listings[l]
  BY <1>4 DEF Over
<1>7. w.listings = rows /\ w.promotions = v.promotions /\ w.items = v.items /\ w \in Writes
  BY <1>2, <1>4, <1>5 DEF Writes
<1>8. /\ \A l \in DOMAIN new :
                 /\ l \in q.where /\ RowWhole(new[l])
                 /\ new[l].promotionId # None =>
                       Exists(SeenPromotions(h)[new[l].promotionId]) /\ ~BeingDeleted(h, new[l].promotionId)
      /\ SameRequest(q, r) /\ r.where = q.where
  BY <1>1, PricedWrites
<1>9. SeenPromotions(h) = Over(w.promotions, promotions)
  BY <1>2, <1>7 DEF SeenPromotions
<1>10. Fits(h, w)
  <2>1. \A l \in DOMAIN new : \A k \in Handlers \ {h} : l \notin DOMAIN tx[k].listings
    BY DEF Priced, ListingsFree
  <2>2. \A l \in DOMAIN rows : \A k \in Handlers \ {h} : l \notin DOMAIN tx[k].listings
    BY <1>3, <1>6, <2>1 DEF Fits
  <2>3. ASSUME NEW l \in DOMAIN rows
        PROVE  /\ RowWhole(rows[l])
               /\ rows[l].promotionId # None =>
                    /\ Exists(Over(w.promotions, promotions)[rows[l].promotionId])
                    /\ ~BeingDeleted(h, rows[l].promotionId)
    <3>1. CASE l \in DOMAIN new
      BY <1>6, <1>8, <1>9, <3>1
    <3>2. CASE l \notin DOMAIN new
      <4>1. l \in DOMAIN v.listings /\ rows[l] = v.listings[l]
        BY <1>6, <3>2
      <4> QED BY <1>3, <1>7, <4>1 DEF Fits
    <3> QED BY <3>1, <3>2
  <2>4. ASSUME NEW p \in DOMAIN w.promotions
        PROVE  /\ PromotionFree(h, p)
               /\ w.promotions[p] = Gone =>
                    /\ \A k \in Handlers \ {h} : ~GivenBy(k, p)
                    /\ \A l \in Listings :
                          Exists(listings[l]) /\ listings[l].promotionId = p => l \in DOMAIN w.listings
    BY <1>3, <1>6, <1>7 DEF Fits
  <2> QED BY <1>7, <2>2, <2>3, <2>4 DEF Fits
<1>11. Wrote("write", q, v) /\ q.kind \in Transactional
  BY <1>3, <1>8 DEF SameRequest
<1>12. Wrote(stage, r, v)
  <2>1. "write" \in Writing
    BY DEF Writing, Recalculating
  <2> QED BY <1>8, <1>11, <2>1, SameWrote
<1>13. \A l \in DOMAIN rows : l \in r.where \/ Marked(r, w, l)
  <2>1. ASSUME NEW l \in DOMAIN rows, l \notin DOMAIN new PROVE l \in r.where \/ Marked(r, w, l)
    <3>1. l \in DOMAIN v.listings /\ rows[l] = v.listings[l]
      BY <1>6, <2>1
    <3>2. l \in r.where \/ Marked(r, v, l)
      BY <1>12, <3>1 DEF Wrote
    <3> QED BY <1>7, <3>1, <3>2 DEF Marked
  <2> QED BY <1>8, <2>1
<1>14. Wrote(stage, r, w)
  BY <1>7, <1>12, <1>13 DEF Wrote
<1> QED BY <1>7, <1>10, <1>14

LEMMA PricedOutOfTx ==
    ASSUME Transacted, NEW h \in Handlers, pc[h] = "write", NEW r \in RequestRow, NEW new \in Rows(Listings, ListingRow),
           Priced(h, req[h], r, new), r.kind \notin Transactional, NEW stage \in Recalculating \cup {"done"},
           InPlace(stage, r), Moves(h, stage, r), listings' = Over(new, listings), UNCHANGED tx,
           UNCHANGED <<promotions, items, settings, cached, lost, clock, asked, sound>>
    PROVE  Transacted'
<1>0. Typed /\ Tables /\ tx \in [Handlers -> Writes]
  BY DEF Transacted, Typed
<1>1. /\ \A l \in DOMAIN new :
                 /\ RowWhole(new[l])
                 /\ new[l].promotionId # None =>
                       Exists(SeenPromotions(h)[new[l].promotionId]) /\ ~BeingDeleted(h, new[l].promotionId)
      /\ r.kind = req[h].kind /\ Asks(r)
  BY PricedWrites
<1>2. tx[h] = NoTx
  BY <1>1 DEF Transacted, Wrote
<1>3. /\ listings' \in [Listings -> ListingRow \cup {None, Gone}]
      /\ \A l \in Listings : listings'[l] = IF l \in DOMAIN new THEN new[l] ELSE listings[l]
  <2>1. new \in Rows(Listings, ListingRow \cup {None, Gone})
    BY RowsWider
  <2>2. listings \in [Listings -> ListingRow \cup {None, Gone}]
    BY <1>0 DEF Tables
  <2> QED BY <2>1, <2>2, OverWhole
<1>4. Tables' /\ NoMembersLeft'
  BY <1>0, <1>3 DEF Tables, clock, Transacted, NoMembersLeft
<1>5. stage \in Stages
  BY DEF Recalculating, Stages
<1>6. Typed'
  BY <1>0, <1>1, <1>4, <1>5, MoveTyped
<1>7. \A l \in Listings : \A k \in Handlers \ {h} : l \in DOMAIN tx[k].listings => l \notin DOMAIN new
  BY DEF Priced, ListingsFree
<1>8. Undisturbed(h)
  <2>1. ASSUME NEW k \in Handlers \ {h}, NEW l \in DOMAIN tx[k].listings PROVE l \in Listings
    <3>1. tx[k] \in Writes
      BY <1>0
    <3> QED BY <3>1, WritesAre
  <2> QED BY <1>3, <1>7, <2>1 DEF Undisturbed
<1>9. Wrote(stage, r, NoTx)
  BY DEF Wrote
<1>10. SeenPromotions(h) = promotions
  <2>1. promotions \in [Promotions -> PromotionRow \cup {None, Gone}]
    BY <1>0 DEF Tables
  <2>2. Over(Empty, promotions) = promotions
    BY <2>1, EmptyRows DEF Over
  <2> QED BY <1>2, <2>2, NothingWritten DEF SeenPromotions
<1>11. ASSUME NEW l \in Listings, Exists(listings'[l])
       PROVE  \/ listings'[l] = listings[l]
              \/ /\ RowWhole(listings'[l])
                 /\ listings'[l].promotionId # None =>
                       Exists(promotions[listings'[l].promotionId]) /\ ~BeingDeleted(h, listings'[l].promotionId)
  BY <1>1, <1>3, <1>10, <1>11
<1> QED BY <1>2, <1>4, <1>5, <1>6, <1>8, <1>9, <1>11, RowsTransacted

LEMMA WritePricesTransacted ==
    ASSUME Transacted, NEW h \in Handlers, WritePrices(h)
    PROVE  Transacted'
<1>0. Typed /\ tx \in [Handlers -> Writes] /\ Tables
  BY DEF Transacted, Typed
<1>1. PICK r \in RequestRow, new \in Rows(Listings, ListingRow) :
              /\ pc[h] = "write" /\ Priced(h, req[h], r, new) /\ ToWrite(r)
              /\ Moves(h, Onward(r), r)
              /\ IF InTx(h) THEN tx' = [tx EXCEPT ![h].listings = Over(new, @)] /\ UNCHANGED listings
                 ELSE listings' = Over(new, listings) /\ UNCHANGED tx
              /\ UNCHANGED <<promotions, items, settings, cached, lost, clock, asked, sound>>
  BY <1>0, WritePricesIs
<1>2. HasRead(r) /\ r.reads = {} /\ r.kind = req[h].kind /\ r.kind \in Transactional \cup OfAll /\ Asks(r)
  BY <1>1, PricedWrites
<1>3. PICK stage : stage = Onward(r)
  OBVIOUS
<1>4. /\ InPlace(stage, r) /\ stage \in Stages
      /\ r.kind \in Transactional => stage \in Writing
      /\ r.kind \notin Transactional => stage \in Recalculating \cup {"done"}
  BY <1>1, <1>2, <1>3, OnwardIs
<1>5. CASE r.kind \in Transactional
  <2>1. PICK w : w = [tx[h] EXCEPT !.listings = Over(new, @)]
    OBVIOUS
  <2>2. w \in Writes /\ Fits(h, w) /\ Wrote(stage, r, w)
    BY <1>1, <1>4, <1>5, <2>1, PricedInTx
  <2>3. tx' = [tx EXCEPT ![h] = w] /\ UNCHANGED listings
    BY <1>0, <1>1, <1>2, <1>5, <2>1 DEF InTx
  <2>4. Turns(h, stage, r, w)
    BY <1>1, <1>3, <2>3 DEF Turns, Moves
  <2>5. Tables' /\ UNCHANGED <<listings, promotions, items>>
    BY <1>0, <1>1, <2>3 DEF Tables, clock
  <2> QED BY <1>2, <1>4, <2>2, <2>4, <2>5, WorkTransacted
<1>6. CASE r.kind \notin Transactional
  <2>1. listings' = Over(new, listings) /\ UNCHANGED tx
    BY <1>1, <1>2, <1>6 DEF InTx
  <2>2. Moves(h, stage, r)
    BY <1>1, <1>3
  <2> QED BY <1>1, <1>4, <1>6, <2>1, <2>2, PricedOutOfTx
<1> QED BY <1>5, <1>6

-----------------------------------------------------------------------------
(* Steps that write nothing, and the beginning *)

LEMMA StillFits ==
    ASSUME Transacted, UNCHANGED <<listings, promotions, tx>>, NEW k \in Handlers
    PROVE  Fits(k, tx[k])'
<1>1. PICK w : w = tx[k]
  OBVIOUS
<1>2. Fits(k, w) /\ tx'[k] = w
  BY <1>1 DEF Transacted
<1>3. Fits(k, w)'
  BY <1>2 DEF Fits, BeingDeleted, PromotionFree, GivenBy
<1> QED BY <1>2, <1>3

LEMMA AcceptedTransacted ==
    ASSUME Transacted, NEW h \in Handlers, Accepted(h)
    PROVE  Transacted'
<1>0. Typed /\ Typed'
  BY AcceptedTyped DEF Transacted
<1>1. PICK stage, r :
        /\ pc[h] = "idle" /\ Take(h, stage, r) /\ r \in RequestRow
        /\ stage \in Stages \ ({"idle", "bump", "items", "commit", "done"} \cup Recalculating)
        /\ UNCHANGED <<tables, cached, lost, today, tx>>
  BY DEF Accepted
<1>2. UNCHANGED <<listings, promotions, items, tx>>
  BY <1>1 DEF tables
<1>3. NoMembersLeft' /\ ListingsWhole'
  BY <1>2 DEF Transacted, NoMembersLeft, ListingsWhole
<1>4. ASSUME NEW k \in Handlers PROVE Wrote(pc[k], req[k], tx[k])'
  <2>1. PICK w : w = tx[k]
    OBVIOUS
  <2>2. CASE k = h
    <3>1. w = NoTx
      BY <1>1, <2>1, <2>2, NothingYet DEF Writing, Recalculating
    <3>2. pc'[h] = stage
      BY <1>0, <1>1, TakeIs DEF Typed
    <3>3. pc'[h] \notin Writing
      BY <1>1, <3>2 DEF Writing
    <3> QED BY <1>2, <2>1, <2>2, <3>1, <3>3 DEF Wrote
  <2>3. CASE k # h
    <3>1. PICK q, s : q = req[k] /\ s = pc[k]
      OBVIOUS
    <3>2. Wrote(s, q, w)
      BY <2>1, <3>1 DEF Transacted
    <3>3. pc'[k] = s
      BY <1>0, <1>1, <2>3, <3>1, TakeIs DEF Typed
    <3>4. PICK x : x = req'[k]
      OBVIOUS
    <3>5. x.kind = q.kind /\ x.id = q.id /\ x.dto = q.dto /\ x.where = q.where
      <4>1. x = q \/ SameButAlone(q, x)
        BY <1>0, <1>1, <2>3, <3>1, <3>4, TakeIs
      <4> QED BY <4>1 DEF SameButAlone
    <3>6. Wrote(s, x, w)'
      BY <1>2, <3>2, <3>5 DEF Wrote, Marked
    <3> QED BY <1>2, <2>1, <3>3, <3>4, <3>6
  <2> QED BY <2>2, <2>3
<1> QED BY <1>0, <1>2, <1>3, <1>4, StillFits DEF Transacted

LEMMA ClockTransacted ==
    ASSUME Transacted, NextDay \/ Expire
    PROVE  Transacted'
<1>0. Typed /\ Tables
  BY DEF Transacted, Typed
<1>1. UNCHANGED <<listings, promotions, items, settings, pc, req, tx, asked, sound>>
  BY DEF NextDay, Expire, tables
<1>2. Tables'
  <2>1. CASE NextDay
    BY <1>0, <1>1, <2>1 DEF NextDay, Tables
  <2>2. CASE Expire
    BY <1>0, <1>1, <2>2 DEF Expire, Tables, clock
  <2> QED BY <2>1, <2>2
<1>3. Typed' /\ NoMembersLeft' /\ ListingsWhole'
  BY <1>0, <1>1, <1>2 DEF Typed, Transacted, NoMembersLeft, ListingsWhole
<1>4. ASSUME NEW k \in Handlers PROVE Wrote(pc[k], req[k], tx[k])'
  <2>1. Wrote(pc[k], req[k], tx[k])
    BY DEF Transacted
  <2> QED BY <1>1, <2>1 DEF Wrote, Marked
<1> QED BY <1>1, <1>3, <1>4, StillFits DEF Transacted

Boot(now) == [Request("boot", 0, Keep, Listings) EXCEPT
                 !.now = now, !.config = Unread, !.reads = {"step", "tiers", "order", "promotions"}]

LEMMA BootTyped ==
    ASSUME NEW now \in Nat
    PROVE  /\ Boot(now) \in RequestRow /\ Asks(Boot(now)) /\ InPlace("read", Boot(now))
           /\ Boot(now).kind = "boot" /\ Boot(now).where = Listings /\ Boot(now).now = now /\ Boot(now).reads = Queries
           /\ Boot(now).todo = {} /\ Boot(now).alone = TRUE
<1>1. PICK q : q = Request("boot", 0, Keep, Listings)
  OBVIOUS
<1>2. "boot" \in Kinds /\ Keep \in Dtos /\ Listings \in SUBSET Listings
  BY DEF Kinds, OfAll, Dtos
<1>3. q \in RequestRow /\ q.kind = "boot" /\ q.where = Listings /\ q.cursor = 0 /\ q.todo = {}
  BY <1>1, <1>2, AskedTyped
<1>4. q.alone = TRUE
  BY <1>1 DEF Request, NoReq
<1>5. PICK c : c = Unread
  OBVIOUS
<1>6. c \in Config
  BY <1>5 DEF Unread, Config
<1>7. PICK C, F, K, D, P : C = Config \cup {Keep} /\ F = SUBSET Candidate
        /\ P = SUBSET [id : Listings, price : Price] /\ K = Kinds /\ D = Dtos
  OBVIOUS
<1>8. RequestRow =
    [kind : K, id : Nat, dto : D, where : SUBSET Listings, now : Nat, from : Nat,
     reads : SUBSET Queries, config : C, promotions : F,
     cursor : Nat, todo : P, more : BOOLEAN,
     changed : BOOLEAN, alone : BOOLEAN, stale : BOOLEAN]
  BY <1>7 DEF RequestRow
<1>9. PICK r : r = [q EXCEPT !.now = now, !.config = c, !.reads = Queries]
  OBVIOUS
<1>10. r \in RequestRow
  BY <1>3, <1>6, <1>7, <1>8, <1>9
<1>11. /\ r.kind = "boot" /\ r.where = Listings /\ r.now = now /\ r.reads = Queries /\ r.todo = {} /\ r.cursor = 0
       /\ r.config = c /\ r.alone = TRUE
  BY <1>3, <1>4, <1>8, <1>9
<1>12. Asks(r)
  BY <1>11 DEF Asks, OnPromotion
<1>13. InPlace("read", r)
  <2>1. HasRead(r)
    BY <1>6, <1>11 DEF HasRead, Queries
  <2> QED BY <1>11, <2>1 DEF InPlace, Recalculating, OfAll
<1>14. Boot(now) = r
  BY <1>1, <1>5, <1>9 DEF Boot, Queries
<1> QED BY <1>10, <1>11, <1>12, <1>13, <1>14

\* What nobody has written is as it should be.
LEMMA NobodyWrote ==
    ASSUME \A h \in Handlers : tx[h] = NoTx /\ (pc[h] \in Writing => req[h].kind \notin Transactional)
    PROVE  \A h \in Handlers : Wrote(pc[h], req[h], tx[h]) /\ Fits(h, tx[h])
<1>1. ASSUME NEW h \in Handlers PROVE Wrote(pc[h], req[h], tx[h]) /\ Fits(h, tx[h])
  BY NothingFits DEF Wrote
<1> QED BY <1>1

LEMMA RestartTransacted ==
    ASSUME Transacted, NEW h \in Handlers, Restart(h)
    PROVE  Transacted'
<1>0. Typed /\ Tables
  BY DEF Transacted, Typed
<1>1. /\ asked' = asked + 1 /\ lastRun' = today' /\ today' \in today..LastDay
      /\ pc' = [k \in Handlers |-> IF k = h THEN "read" ELSE "idle"]
      /\ req' = [k \in Handlers |-> IF k = h THEN Boot(today') ELSE NoReq]
      /\ tx' = [k \in Handlers |-> NoTx]
      /\ lost' = (cached # None)
      /\ UNCHANGED <<listings, promotions, items, settings, cached, sound>>
  BY DEF Restart, Boot, tables
<1>2. PICK now \in Nat : now = today'
  BY <1>0, <1>1, BoundsAssumption DEF Tables
<1>3. Tables'
  BY <1>0, <1>1, <1>2 DEF Tables
<1>4. PICK r \in RequestRow : r = Boot(now) /\ Asks(r) /\ InPlace("read", r) /\ r.kind = "boot"
  BY BootTyped
<1>5. req' = [k \in Handlers |-> IF k = h THEN r ELSE NoReq]
  BY <1>1, <1>2, <1>4
<1>6. Typed'
  <2>1. pc' \in [Handlers -> Stages]
    BY <1>1 DEF Stages
  <2>2. req' \in [Handlers -> RequestRow] /\ tx' \in [Handlers -> Writes]
    BY <1>1, <1>5, NothingAsked, NothingWritten
  <2>3. \A k \in Handlers : Asks(req'[k]) /\ InPlace(pc'[k], req'[k])
    BY <1>1, <1>4, <1>5, NothingAsked
  <2> QED BY <1>3, <2>1, <2>2, <2>3 DEF Typed
<1>7. NoMembersLeft' /\ ListingsWhole'
  BY <1>1 DEF Transacted, NoMembersLeft, ListingsWhole
<1>8. \A k \in Handlers : tx'[k] = NoTx /\ (pc'[k] \in Writing => req'[k].kind \notin Transactional)
  BY <1>1, <1>4, <1>5 DEF Writing, Recalculating, Transactional
<1>9. (\A k \in Handlers : Wrote(pc[k], req[k], tx[k]) /\ Fits(k, tx[k]))'
  <2>1. ASSUME NEW k \in Handlers PROVE (Wrote(pc[k], req[k], tx[k]) /\ Fits(k, tx[k]))'
    <3>1. Wrote(pc[k], req[k], NoTx)'
      BY <1>8, EmptyRows, NothingWritten DEF Wrote
    <3>2. Fits(k, NoTx)'
      BY EmptyRows, NothingWritten DEF Fits
    <3> QED BY <1>8, <3>1, <3>2
  <2> QED BY <2>1
<1> QED BY <1>6, <1>7, <1>9 DEF Transacted

LEMMA LoadedLive ==
    ASSUME NEW heads, NEW members, NEW now, NEW l, NEW o \in OffersFor(l, LoadPromotions(heads, members, now))
    PROVE  o.promotionId \in LivePromotions(heads, now) /\ l \in DOMAIN members[o.promotionId]
<1>1. PICK c \in LoadPromotions(heads, members, now) : c.listingId = l /\ o = c.offer
  BY DEF OffersFor
<1>2. PICK p \in LivePromotions(heads, now) : \E m \in DOMAIN members[p] :
         c = [listingId |-> m, offer |-> [promotionId |-> p, promoPrice |-> members[p][m],
                        startsAt |-> heads[p].startsAt, endsAt |-> heads[p].endsAt]]
  BY DEF LoadPromotions
<1>3. PICK m \in DOMAIN members[p] :
         c = [listingId |-> m, offer |-> [promotionId |-> p, promoPrice |-> members[p][m],
                        startsAt |-> heads[p].startsAt, endsAt |-> heads[p].endsAt]]
  BY <1>2
<1>4. c.listingId = m /\ c.offer.promotionId = p
  BY <1>3
<1> QED BY <1>1, <1>4

LEMMA SettingsPrice == Settings \subseteq PriceConfig
<1>1. PICK T, O : T = Tiers /\ O = PriceOrder
  OBVIOUS
<1>2. Settings = [markupTiers : T, roundingStep : Nat, order : O]
      /\ PriceConfig = [markupTiers : T, roundingStep : Nat, order : O]
  BY <1>1 DEF Settings, PriceConfig, Tiers, TierSet
<1> QED BY <1>2

LEMMA FreshTyped ==
    ASSUME NEW t \in [costPrice : Nat, customMarkupBps : Nat \cup {None}]
    PROVE  Fresh(t) \in ListingRow /\ Target(Fresh(t)) = Target(t)
<1>1. PICK S, P : S = Source /\ P = Promotions \cup {None} /\ "BASE_MARKUP" \in S
  BY DEF Source
<1>2. ListingRow = [costPrice : Nat, customMarkupBps : Nat \cup {None}, price : Nat, source : S,
        oldPrice : Nat \cup {None}, promotionId : P, onPromo : BOOLEAN]
  BY <1>1 DEF ListingRow
<1> QED BY <1>1, <1>2 DEF Fresh, Target

\* What a listing is priced with at the beginning.
LEMMA BeginsTyped ==
    ASSUME NEW b \in Beginnings
    PROVE  /\ b.promotions \in [Promotions -> PromotionRow \cup {None, Gone}]
           /\ b.items \in [Promotions -> Rows(Listings, Nat)] /\ b.settings \in Settings
           /\ \A p \in Promotions : ~Exists(b.promotions[p]) => DOMAIN b.items[p] = {}
           /\ \A l \in Listings : b.targets[l] # None =>
                 b.targets[l] \in [costPrice : Nat, customMarkupBps : Nat \cup {None}]
<1>1. PICK T : T = [costPrice : Nat, customMarkupBps : Nat \cup {None}]
  OBVIOUS
<1>2. b.targets \in [Listings -> T \cup {None}]
  BY <1>1, BeginningsAssumption
<1>3. b.promotions \in [Promotions -> PromotionRow \cup {None}]
  BY BeginningsAssumption
<1>4. b.promotions \in [Promotions -> PromotionRow \cup {None, Gone}]
  BY <1>3
<1>5. b.items \in [Promotions -> Rows(Listings, Nat)]
  <2>1. b.items = [p \in Promotions |-> b.items[p]]
    BY BeginningsAssumption
  <2>2. \A p \in Promotions : b.items[p] \in Rows(Listings, Nat)
    BY BeginningsAssumption, RowsAre DEF Partial
  <2> QED BY <2>1, <2>2
<1>6. \A p \in Promotions : ~Exists(b.promotions[p]) => DOMAIN b.items[p] = {}
  BY <1>3, BeginningsAssumption, ExistsRow
<1>7. b.settings \in Settings
  BY BeginningsAssumption
<1> QED BY <1>1, <1>2, <1>4, <1>5, <1>6, <1>7

LEMMA FirstPrice ==
    ASSUME NEW b \in Beginnings, NEW l \in Listings, b.targets[l] # None
    PROVE  LET p == Resolved(b.targets[l], b.settings, OffersFor(l, LoadPromotions(b.promotions, b.items, 0)), 0)
               row == Repriced(Fresh(b.targets[l]), p)
           IN  /\ row \in ListingRow /\ RowWhole(row) /\ PriceOf(row) = p /\ Target(row) = Target(b.targets[l])
               /\ row.promotionId # None => Exists(b.promotions[row.promotionId])
<1>1. PICK t \in [costPrice : Nat, customMarkupBps : Nat \cup {None}] : t = b.targets[l]
  BY BeginsTyped
<1>2. PICK loaded \in SUBSET Candidate : loaded = LoadPromotions(b.promotions, b.items, 0)
  BY BeginsTyped, LoadedTyped
<1>3. PICK offers \in SUBSET Offered : offers = OffersFor(l, loaded)
  BY OffersTyped
<1>4. PICK config \in PriceConfig : config = b.settings
  BY BeginsTyped, SettingsPrice
<1>5. PICK p : p = Resolved(t, config, offers, 0)
  OBVIOUS
<1>6. p \in Price /\ PriceWhole(p) /\ (p.promotionId # None => \E o \in offers : o.promotionId = p.promotionId)
  BY <1>5, ResolvedIsWhole
<1>7. PICK row : row = Repriced(Fresh(t), p)
  OBVIOUS
<1>8. row \in ListingRow /\ RowWhole(row) /\ PriceOf(row) = p /\ Target(row) = Target(t)
      /\ row.promotionId = p.promotionId
  BY <1>6, <1>7, FreshTyped, RepricedTyped
<1>9. p.promotionId # None => Exists(b.promotions[p.promotionId])
  <2>1. ASSUME NEW o \in offers PROVE Exists(b.promotions[o.promotionId])
    BY <1>2, <1>3, LoadedLive DEF LivePromotions
  <2> QED BY <1>6, <2>1
<1> QED BY <1>1, <1>2, <1>3, <1>4, <1>5, <1>7, <1>8, <1>9

LEMMA InitTransacted ==
    ASSUME Init
    PROVE  Transacted
<1>1. PICK b \in Beginnings :
          /\ promotions = b.promotions /\ items = b.items /\ settings = b.settings
          /\ listings = [l \in Listings |->
                IF b.targets[l] = None THEN None
                ELSE Repriced(Fresh(b.targets[l]),
                        Resolved(b.targets[l], b.settings,
                                 OffersFor(l, LoadPromotions(b.promotions, b.items, 0)), 0))]
  BY DEF Init
<1>2. /\ cached = None /\ today = 0 /\ lastRun = 0 /\ pc = [h \in Handlers |-> "idle"]
      /\ req = [h \in Handlers |-> NoReq] /\ tx = [h \in Handlers |-> NoTx]
      /\ asked = 0 /\ lost = FALSE /\ sound = Listings
  BY DEF Init
<1>3. ASSUME NEW l \in Listings
      PROVE  /\ listings[l] \in ListingRow \cup {None, Gone}
             /\ Exists(listings[l]) =>
                   /\ RowWhole(listings[l])
                   /\ listings[l].promotionId # None => Exists(promotions[listings[l].promotionId])
  <2>1. CASE b.targets[l] = None
    BY <1>1, <2>1 DEF Exists
  <2>2. CASE b.targets[l] # None
    <3>1. PICK row : row = Repriced(Fresh(b.targets[l]),
                        Resolved(b.targets[l], b.settings,
                                 OffersFor(l, LoadPromotions(b.promotions, b.items, 0)), 0))
      OBVIOUS
    <3>2. row \in ListingRow /\ RowWhole(row) /\ (row.promotionId # None => Exists(b.promotions[row.promotionId]))
      BY <2>2, <3>1, FirstPrice
    <3>3. listings[l] = row
      BY <1>1, <2>2, <3>1
    <3> QED BY <1>1, <3>2, <3>3
  <2> QED BY <2>1, <2>2
<1>4. listings \in [Listings -> ListingRow \cup {None, Gone}]
  <2>1. listings = [l \in Listings |-> listings[l]]
    BY <1>1
  <2> QED BY <1>3, <2>1
<1>5. Tables
  BY <1>1, <1>2, <1>4, BeginsTyped DEF Tables
<1>6. Typed
  BY <1>2, <1>5, NothingAsked, NothingWritten DEF Typed, Stages
<1>7. NoMembersLeft /\ ListingsWhole
  BY <1>1, <1>3, BeginsTyped DEF NoMembersLeft, ListingsWhole
<1>8. \A h \in Handlers : tx[h] = NoTx /\ (pc[h] \in Writing => req[h].kind \notin Transactional)
  BY <1>2 DEF Writing, Recalculating
<1> QED BY <1>6, <1>7, <1>8, NobodyWrote DEF Transacted

-----------------------------------------------------------------------------

\* What the step of a request is, of whichever kind.
LEMMA ServeIs ==
    ASSUME Transacted, NEW h \in Handlers, Serve(h)
    PROVE  \/ Works(h) \/ Ends(h) \/ Delete(h)
           \/ Read(h) \/ ReadPage(h) \/ WritePrices(h) \/ Commit(h) \/ Done(h) \/ Bump(h)
BY InsertWorks, EditWorks, StockWorks, AssertWorks, InsertPromotionWorks, WritePromotionWorks, ReplaceItemsWorks,
   DropPromotionWorks, WriteTiersWorks, WriteSettingsWorks, SettingsBumpWorks, WriteOrderWorks, TransitionedScopeWorks
   DEF Serve

LEMMA NextIs ==
    ASSUME Transacted, Next
    PROVE  \/ \E h \in Handlers :
                 \/ Accepted(h) \/ Restart(h) \/ Works(h) \/ Ends(h) \/ Delete(h)
                 \/ Read(h) \/ ReadPage(h) \/ WritePrices(h) \/ Commit(h) \/ Done(h) \/ Bump(h)
           \/ NextDay \/ Expire
<1>1. Typed /\ NoMembersLeft
  BY DEF Transacted
<1>2. ASSUME NEW h \in Handlers, Ask(h) \/ Tick(h) PROVE Accepted(h)
  BY <1>1, <1>2, AskAccepted, TickAccepted
<1>3. ASSUME NEW h \in Handlers, Fail(h) PROVE Ends(h)
  BY <1>3, FailEnds
<1> QED BY <1>2, <1>3, ServeIs DEF Next

LEMMA NextTransacted ==
    ASSUME Transacted, [Next]_vars
    PROVE  Transacted'
<1>1. CASE Next
  <2>1. ASSUME NEW h \in Handlers, Accepted(h) \/ Restart(h) \/ Works(h) \/ Ends(h) \/ Delete(h)
        PROVE  Transacted'
    BY <2>1, AcceptedTransacted, RestartTransacted, WorksTransacted, EndsTransacted, DeleteTransacted
  <2>2. ASSUME NEW h \in Handlers, Read(h) \/ ReadPage(h) \/ WritePrices(h) \/ Commit(h) \/ Done(h) \/ Bump(h)
        PROVE  Transacted'
    BY <2>2, ReadTransacted, ReadPageTransacted, WritePricesTransacted, CommitTransacted, DoneTransacted, BumpTransacted
  <2> QED BY <1>1, <2>1, <2>2, NextIs, ClockTransacted
<1>2. CASE UNCHANGED vars
  <2>1. UNCHANGED <<listings, promotions, items, settings, cached, today, lastRun, pc, req, tx, asked, lost, sound>>
    BY <1>2 DEF vars, tables, clock
  <2>2. Typed' /\ NoMembersLeft' /\ ListingsWhole'
    BY <2>1 DEF Transacted, Typed, Tables, NoMembersLeft, ListingsWhole
  <2>3. ASSUME NEW k \in Handlers PROVE Wrote(pc[k], req[k], tx[k])'
    <3>1. Wrote(pc[k], req[k], tx[k])
      BY DEF Transacted
    <3> QED BY <2>1, <3>1 DEF Wrote, Marked
  <2> QED BY <2>1, <2>2, <2>3, StillFits DEF Transacted
<1> QED BY <1>1, <1>2

LEMMA TransactedWhole ==
    ASSUME Transacted
    PROVE  TypeOK /\ DiscountsAreWhole
<1>1. Typed /\ Tables
  BY DEF Transacted, Typed
<1>2. \A p \in Promotions : Partial(items[p], Listings, Nat)
  BY <1>1, RowsAre DEF Tables, Partial
<1>3. ASSUME NEW h \in Handlers
      PROVE  /\ Partial(tx[h].listings, Listings, ListingRow \cup {None, Gone})
             /\ Partial(tx[h].promotions, Promotions, PromotionRow \cup {None, Gone})
             /\ \A p \in DOMAIN tx[h].items : p \in Promotions /\ Partial(tx[h].items[p], Listings, Nat)
  <2>1. PICK w \in Writes : w = tx[h]
    BY <1>1 DEF Typed
  <2>2. w.listings \in Rows(Listings, ListingRow \cup {None, Gone})
        /\ w.promotions \in Rows(Promotions, PromotionRow \cup {None, Gone})
    <3>1. w.listings \in Rows(Listings, ListingRow) /\ w.promotions \in Rows(Promotions, PromotionRow \cup {Gone})
      BY DEF Writes
    <3> QED BY <3>1, RowsWider
  <2>3. \A p \in DOMAIN w.items : p \in Promotions /\ w.items[p] \in Rows(Listings, Nat)
    BY WritesAre
  <2> QED BY <2>1, <2>2, <2>3, RowsAre DEF Partial
<1>4. ASSUME NEW h \in Handlers
      PROVE  /\ req[h].where \in SUBSET Listings /\ req[h].config \in Config \cup {Keep}
             /\ req[h].promotions \in SUBSET Candidate
             /\ req[h].todo \in SUBSET [id : Listings, price : Price]
  <2>1. req[h] \in RequestRow
    BY <1>1 DEF Typed
  <2> QED BY <2>1 DEF RequestRow
<1>5. TypeOK
  BY <1>1, <1>2, <1>3, <1>4 DEF TypeOK, Typed, Tables
<1>6. DiscountsAreWhole
  BY <1>1, ExistsRow DEF Transacted, ListingsWhole, DiscountsAreWhole, RowWhole, Tables
<1> QED BY <1>5, <1>6

\* A listing shown as discounted has a higher old price and names a promotion that
\* exists, whatever requests, failures and restarts overlap.
THEOREM PricesAreWhole == Spec => [](TypeOK /\ DiscountsAreWhole)
<1>1. Init => Transacted
  BY InitTransacted
<1>2. Transacted /\ [Next]_vars => Transacted'
  BY NextTransacted
<1>3. Transacted => TypeOK /\ DiscountsAreWhole
  BY TransactedWhole
<1> QED BY <1>1, <1>2, <1>3, PTL DEF Spec

-----------------------------------------------------------------------------
(* The inductive invariant: which requests may disturb each other *)

\* The listings a request prices or writes, and those of the promotion it writes.
About(r) ==
    IF r.kind \in OfAll THEN Listings
    ELSE IF r.kind \in {"create", "update", "remove"} THEN {r.id} ELSE r.where

Members(r) == IF r.kind \in OnPromotion THEN DOMAIN items[r.id] ELSE {}

\* Neither touches what the other is about.
Apart(r, s) ==
    /\ About(r) \cap About(s) = {} /\ About(r) \cap Members(s) = {} /\ Members(r) \cap About(s) = {}
    /\ r.kind \in OnPromotion /\ s.kind \in OnPromotion => r.id # s.id
    /\ r.kind \notin OfAll /\ s.kind \notin OfAll

\* A request is apart from every other, or nothing it touches is vouched for.
OverlapsOf(h) ==
    IF req[h].alone
    THEN Members(req[h]) \subseteq About(req[h]) /\ \A k \in Active \ {h} : Apart(req[h], req[k])
    ELSE sound \cap (About(req[h]) \cup Members(req[h])) = {}

Overlaps == \A h \in Active : OverlapsOf(h)

\* Unless a bump was lost, the cache holds an old rounding step only while the
\* request that wrote the new one is on its way to the bump.
CacheIsRight == cached # None /\ ~lost => \E h \in Handlers : pc[h] = "settingsBump"

Disjoint == Overlaps /\ CacheIsRight

LEMMA ActiveIs ==
    ASSUME Typed, NEW h \in Active
    PROVE  /\ h \in Handlers /\ req[h] \in RequestRow /\ Asks(req[h]) /\ req[h].kind # "none"
           /\ InPlace(pc[h], req[h]) /\ pc[h] \in Stages
<1>1. h \in Handlers /\ req[h] \in RequestRow /\ Asks(req[h]) /\ InPlace(pc[h], req[h]) /\ pc[h] \in Stages
      /\ pc[h] \notin {"idle", "bump"}
  BY DEF Active, Typed
<1>2. req[h].kind # "none"
  BY <1>1 DEF InPlace, Stages, Recalculating, Transactional, OfAll
<1> QED BY <1>1, <1>2

LEMMA ApartBothWays ==
    ASSUME NEW r, NEW s, Apart(r, s)
    PROVE  Apart(s, r)
BY DEF Apart

\* What a request names is at least what it is about.
LEMMA NamedIs ==
    ASSUME NEW r, r.kind \in Kinds \ {"none"}, Asks(r), r.where \subseteq Listings
    PROVE  /\ About(r) \subseteq NamedBy(r).listings
           /\ r.kind \notin OfAll => {p \in Promotions : DOMAIN items[p] \cap About(r) # {}} \subseteq NamedBy(r).promotions
           /\ r.kind \in OnPromotion => r.id \in NamedBy(r).promotions
           /\ r.kind \in OfAll => NamedBy(r) = All
           /\ r.kind \notin OnPromotion => NamedBy(r).listings # {}
           /\ r.kind \notin OfAll => NamedBy(r).promotions \subseteq Promotions
<1>1. CASE r.kind \in {"create", "update", "remove"}
  <2>1. NamedBy(r) = Names({r.id}, {})
    BY <1>1 DEF NamedBy
  <2> QED BY <1>1, <2>1 DEF Names, About, OfAll, OnPromotion
<1>2. CASE r.kind = "order"
  <2>1. NamedBy(r) = Names(r.where, {}) /\ r.where # {}
    BY <1>2 DEF NamedBy, Asks
  <2> QED BY <1>2, <2>1 DEF Names, About, OfAll, OnPromotion
<1>3. CASE r.kind \in OnPromotion
  <2>1. NamedBy(r) = Names(r.where, {r.id}) /\ r.id \in Promotions
    BY <1>3 DEF NamedBy, OnPromotion, Asks
  <2> QED BY <1>3, <2>1 DEF Names, About, OfAll, OnPromotion
<1>4. CASE r.kind \in OfAll
  <2>1. NamedBy(r) = All
    BY <1>4 DEF NamedBy, OfAll
  <2> QED BY <1>4, <2>1, IdsAssumption DEF All, About, OfAll, OnPromotion
<1> QED BY <1>1, <1>2, <1>3, <1>4 DEF Kinds, Transactional, OnPromotion

LEMMA NoConflictApart ==
    ASSUME NEW r, r.kind \in Kinds \ {"none"}, Asks(r), r.where \subseteq Listings,
           NEW s, s.kind \in Kinds \ {"none"}, Asks(s), s.where \subseteq Listings,
           ~Conflict(NamedBy(r), NamedBy(s))
    PROVE  Apart(r, s)
<1>1. NamedBy(r).listings \cap NamedBy(s).listings = {} /\ NamedBy(r).promotions \cap NamedBy(s).promotions = {}
  BY DEF Conflict
<1>2. ASSUME NEW x, x.kind \in Kinds \ {"none"}, Asks(x), x.where \subseteq Listings
      PROVE  /\ NamedBy(x).listings # {} \/ NamedBy(x).promotions # {}
             /\ NamedBy(x).listings \subseteq Listings /\ NamedBy(x).promotions \subseteq Promotions
  <2>1. NamedBy(x).listings # {} \/ NamedBy(x).promotions # {}
    BY <1>2, NamedIs
  <2>2. NamedBy(x).promotions \subseteq Promotions
    BY <1>2, NamedIs DEF All
  <2>3. NamedBy(x).listings \subseteq Listings
    <3>1. CASE x.kind \in {"create", "update", "remove"}
      BY <1>2, <3>1 DEF NamedBy, Names, Asks
    <3>2. CASE x.kind = "order"
      BY <1>2, <3>2 DEF NamedBy, Names
    <3>3. CASE x.kind \in OnPromotion
      BY <1>2, <3>3 DEF NamedBy, Names, OnPromotion
    <3>4. CASE x.kind \in OfAll
      BY <3>4 DEF NamedBy, All, OfAll
    <3> QED BY <1>2, <3>1, <3>2, <3>3, <3>4 DEF Kinds, Transactional, OnPromotion
  <2> QED BY <2>1, <2>2, <2>3
<1>3. r.kind \notin OfAll /\ s.kind \notin OfAll
  <2>1. CASE r.kind \in OfAll
    <3>1. NamedBy(r).listings = Listings /\ NamedBy(r).promotions = Promotions
      BY <2>1, NamedIs DEF All
    <3> QED BY <1>1, <1>2, <3>1
  <2>2. CASE s.kind \in OfAll
    <3>1. NamedBy(s).listings = Listings /\ NamedBy(s).promotions = Promotions
      BY <2>2, NamedIs DEF All
    <3> QED BY <1>1, <1>2, <3>1
  <2> QED BY <2>1, <2>2
<1>4. About(r) \cap About(s) = {}
  BY <1>1, NamedIs
<1>5. r.kind \in OnPromotion /\ s.kind \in OnPromotion => r.id # s.id
  BY <1>1, NamedIs
<1>6. ASSUME NEW x, NEW y, x.kind \in Kinds \ {"none"}, Asks(x), x.where \subseteq Listings, x.kind \notin OfAll,
             y.kind \in Kinds \ {"none"}, Asks(y), y.where \subseteq Listings,
             NamedBy(x).promotions \cap NamedBy(y).promotions = {}
      PROVE  About(x) \cap Members(y) = {}
  <2>1. CASE y.kind \in OnPromotion
    <3>1. y.id \in NamedBy(y).promotions /\ y.id \in Promotions
      BY <1>6, <2>1, NamedIs DEF Asks
    <3>2. y.id \notin NamedBy(x).promotions
      BY <1>6, <3>1
    <3>3. DOMAIN items[y.id] \cap About(x) = {}
      BY <1>6, <3>1, <3>2, NamedIs
    <3> QED BY <2>1, <3>3 DEF Members
  <2>2. CASE y.kind \notin OnPromotion
    BY <2>2 DEF Members
  <2> QED BY <2>1, <2>2
<1>7. About(r) \cap Members(s) = {} /\ About(s) \cap Members(r) = {}
  BY <1>1, <1>3, <1>6
<1> QED BY <1>3, <1>4, <1>5, <1>7 DEF Apart

\* Requests that name the same are about the same.
SameNames(q, r) ==
    r.kind = q.kind /\ r.id = q.id /\ r.alone = q.alone /\ (q.kind \notin OfAll => r.where = q.where)

LEMMA SameAbout ==
    ASSUME NEW q, NEW r, r.kind = q.kind, r.id = q.id, q.kind \notin OfAll => r.where = q.where
    PROVE  About(r) = About(q) /\ Members(r) = Members(q)
BY DEF About, Members

LEMMA OverlapsKept ==
    ASSUME Overlaps, UNCHANGED items, Active' \subseteq Active, sound' \subseteq sound,
           \A k \in Active' : SameNames(req[k], req'[k])
    PROVE  Overlaps'
<1>1. ASSUME NEW k \in Active'
      PROVE  /\ About(req'[k]) = About(req[k]) /\ Members(req[k])' = Members(req[k])
             /\ req'[k].alone = req[k].alone /\ OverlapsOf(k) /\ k \in Active
             /\ req'[k].kind = req[k].kind /\ req'[k].id = req[k].id
  <2>1. SameNames(req[k], req'[k])
    OBVIOUS
  <2>2. About(req'[k]) = About(req[k]) /\ Members(req[k])' = Members(req[k])
    BY <2>1 DEF SameNames, About, Members
  <2>3. k \in Active /\ OverlapsOf(k)
    BY DEF Overlaps
  <2> QED BY <2>1, <2>2, <2>3 DEF SameNames
<1>2. ASSUME NEW k \in Active' PROVE OverlapsOf(k)'
  <2>1. CASE req[k].alone
    <3>1. Members(req[k]) \subseteq About(req[k]) /\ \A j \in Active \ {k} : Apart(req[k], req[j])
      BY <1>1, <2>1 DEF OverlapsOf
    <3>2. (Members(req[k]) \subseteq About(req[k]))'
      BY <1>1, <3>1
    <3>3. ASSUME NEW j \in Active' \ {k} PROVE Apart(req[k], req[j])'
      BY <1>1, <3>1 DEF Apart
    <3> QED BY <1>1, <2>1, <3>2, <3>3 DEF OverlapsOf
  <2>2. CASE ~req[k].alone
    <3>1. sound \cap (About(req[k]) \cup Members(req[k])) = {}
      BY <1>1, <2>2 DEF OverlapsOf
    <3>2. (sound \cap (About(req[k]) \cup Members(req[k])) = {})'
      BY <1>1, <3>1
    <3> QED BY <1>1, <2>2, <3>2 DEF OverlapsOf
  <2> QED BY <2>1, <2>2
<1> QED BY <1>2 DEF Overlaps

LEMMA CacheKept ==
    ASSUME CacheIsRight, UNCHANGED <<cached, lost>>,
           \A k \in Handlers : pc[k] = "settingsBump" => pc'[k] = "settingsBump"
    PROVE  CacheIsRight'
BY DEF CacheIsRight

LEMMA AcceptedDisjoint ==
    ASSUME Transacted, Disjoint, NEW h \in Handlers, Accepted(h)
    PROVE  Disjoint'
<1>0. Typed
  BY DEF Transacted
<1>1. PICK stage, r :
        /\ pc[h] = "idle" /\ Take(h, stage, r)
        /\ r \in RequestRow /\ r.kind # "none" /\ Asks(r)
        /\ stage \in Stages \ ({"idle", "bump", "items", "commit", "done"} \cup Recalculating)
        /\ r.kind \in OnPromotion => DOMAIN items[r.id] \subseteq r.where
        /\ UNCHANGED <<tables, cached, lost, today, tx>>
  BY DEF Accepted
<1>2. /\ pc' = [pc EXCEPT ![h] = stage] /\ req' \in [Handlers -> RequestRow]
      /\ SameButAlone(r, req'[h]) /\ req'[h].alone = (Foes(h, r) = {})
      /\ \A k \in Handlers \ {h} :
            /\ k \notin Foes(h, r) => req'[k] = req[k]
            /\ k \in Foes(h, r) => k \in Active /\ SameButAlone(req[k], req'[k]) /\ ~req'[k].alone
      /\ sound' \subseteq sound
      /\ Foes(h, r) # {} =>
            /\ sound' \cap NamedBy(r).listings = {}
            /\ \A k \in Foes(h, r) : sound' \cap NamedBy(req[k]).listings = {}
  BY <1>0, <1>1, TakeIs
<1>3. UNCHANGED items
  BY <1>1 DEF tables
<1>4. Active' = Active \cup {h} /\ h \notin Active
  BY <1>0, <1>1, <1>2 DEF Active, Typed
<1>5. r.kind \in Kinds \ {"none"} /\ r.where \subseteq Listings
  BY <1>1 DEF RequestRow
<1>6. PICK x : x = req'[h]
  OBVIOUS
<1>7. About(x) = About(r) /\ Members(x) = Members(r) /\ Members(x)' = Members(r) /\ x.kind = r.kind /\ x.id = r.id
  <2>1. x.kind = r.kind /\ x.id = r.id /\ x.where = r.where
    BY <1>2, <1>6 DEF SameButAlone
  <2> QED BY <1>3, <2>1, SameAbout DEF Members
<1>8. Members(r) \subseteq About(r)
  BY <1>1 DEF Members, About, OnPromotion, OfAll
<1>9. ASSUME NEW k \in Active
      PROVE  /\ req[k].kind \in Kinds \ {"none"} /\ Asks(req[k]) /\ req[k].where \subseteq Listings
             /\ k \in Handlers \ {h} /\ OverlapsOf(k)
  BY <1>0, <1>4, ActiveIs DEF RequestRow, Disjoint, Overlaps
<1>10. ASSUME NEW k \in Active
       PROVE  /\ About(req'[k]) = About(req[k]) /\ Members(req[k])' = Members(req[k])
              /\ req'[k].kind = req[k].kind /\ req'[k].id = req[k].id
              /\ k \in Foes(h, r) => ~req'[k].alone
              /\ k \notin Foes(h, r) => req'[k].alone = req[k].alone
  <2>1. PICK q, y : q = req[k] /\ y = req'[k]
    OBVIOUS
  <2>2. y.kind = q.kind /\ y.id = q.id /\ y.where = q.where
    BY <1>2, <1>9, <2>1 DEF SameButAlone
  <2>3. About(y) = About(q) /\ Members(y)' = Members(q)
    BY <1>3, <2>2 DEF About, Members
  <2> QED BY <1>2, <1>9, <2>1, <2>2, <2>3
<1>11. ASSUME NEW k \in Active, k \notin Foes(h, r) PROVE Apart(r, req[k])
  <2>1. ~Conflict(NamedBy(r), NamedBy(req[k]))
    BY <1>9, <1>11 DEF Foes
  <2> QED BY <1>1, <1>5, <1>9, <2>1, NoConflictApart
<1>12. OverlapsOf(h)'
  <2>1. CASE Foes(h, r) = {}
    <3>1. (Members(req[h]) \subseteq About(req[h]))'
      BY <1>6, <1>7, <1>8
    <3>2. ASSUME NEW k \in Active PROVE Apart(req[h], req[k])'
      BY <1>6, <1>7, <1>10, <1>11, <2>1 DEF Apart
    <3> QED BY <1>2, <1>4, <2>1, <3>1, <3>2 DEF OverlapsOf
  <2>2. CASE Foes(h, r) # {}
    <3>1. About(r) \subseteq NamedBy(r).listings
      BY <1>1, <1>5, NamedIs
    <3>2. sound' \cap (About(r) \cup Members(r)) = {}
      BY <1>2, <1>8, <2>2, <3>1
    <3>3. (sound \cap (About(req[h]) \cup Members(req[h])) = {})'
      BY <1>6, <1>7, <3>2
    <3> QED BY <1>2, <2>2, <3>3 DEF OverlapsOf
  <2> QED BY <2>1, <2>2
<1>13. ASSUME NEW k \in Active PROVE OverlapsOf(k)'
  <2>1. CASE k \in Foes(h, r)
    <3>1. About(req[k]) \subseteq NamedBy(req[k]).listings
      BY <1>9, NamedIs
    <3>2. sound' \cap About(req[k]) = {}
      BY <1>2, <2>1, <3>1
    <3>3. sound' \cap Members(req[k]) = {}
      BY <1>2, <1>9, <3>2 DEF OverlapsOf
    <3>4. (sound \cap (About(req[k]) \cup Members(req[k])) = {})'
      BY <1>10, <3>2, <3>3
    <3> QED BY <1>10, <2>1, <3>4 DEF OverlapsOf
  <2>2. CASE k \notin Foes(h, r) /\ req[k].alone
    <3>1. Members(req[k]) \subseteq About(req[k]) /\ \A j \in Active \ {k} : Apart(req[k], req[j])
      BY <1>9, <2>2 DEF OverlapsOf
    <3>2. (Members(req[k]) \subseteq About(req[k]))'
      BY <1>10, <3>1
    <3>3. ASSUME NEW j \in Active \ {k} PROVE Apart(req[k], req[j])'
      BY <1>10, <3>1 DEF Apart
    <3>4. Apart(req[k], req[h])'
      <4>1. Apart(req[k], r)
        BY <1>11, <2>2, ApartBothWays
      <4> QED BY <1>6, <1>7, <1>10, <4>1 DEF Apart
    <3> QED BY <1>4, <1>10, <2>2, <3>2, <3>3, <3>4 DEF OverlapsOf
  <2>3. CASE k \notin Foes(h, r) /\ ~req[k].alone
    <3>1. sound \cap (About(req[k]) \cup Members(req[k])) = {}
      BY <1>9, <2>3 DEF OverlapsOf
    <3>2. (sound \cap (About(req[k]) \cup Members(req[k])) = {})'
      BY <1>2, <1>10, <3>1
    <3> QED BY <1>10, <2>3, <3>2 DEF OverlapsOf
  <2> QED BY <2>1, <2>2, <2>3
<1>14. CacheIsRight'
  <2>1. \A k \in Handlers : pc[k] = "settingsBump" => pc'[k] = "settingsBump"
    BY <1>0, <1>1, <1>2 DEF Typed
  <2> QED BY <1>1, <2>1, CacheKept DEF Disjoint
<1> QED BY <1>4, <1>12, <1>13, <1>14 DEF Disjoint, Overlaps

LEMMA RestartDisjoint ==
    ASSUME Transacted, Disjoint, NEW h \in Handlers, Restart(h)
    PROVE  Disjoint'
<1>0. Typed /\ Tables
  BY DEF Transacted, Typed
<1>1. /\ today' \in today..LastDay
      /\ pc' = [k \in Handlers |-> IF k = h THEN "read" ELSE "idle"]
      /\ req' = [k \in Handlers |-> IF k = h THEN Boot(today') ELSE NoReq]
      /\ lost' = (cached # None) /\ UNCHANGED cached
  BY DEF Restart, Boot
<1>2. PICK now \in Nat : now = today'
  BY <1>0, <1>1, BoundsAssumption DEF Tables
<1>3. PICK r \in RequestRow : r = Boot(now) /\ r.kind = "boot" /\ r.alone = TRUE
  BY BootTyped
<1>4. Active' = {h} /\ req'[h] = r
  BY <1>1, <1>2, <1>3 DEF Active
<1>5. OverlapsOf(h)'
  <2>1. Members(r)' = {}
    BY <1>3 DEF Members, OnPromotion
  <2> QED BY <1>3, <1>4, <2>1 DEF OverlapsOf
<1>6. CacheIsRight'
  BY <1>1 DEF CacheIsRight
<1> QED BY <1>4, <1>5, <1>6 DEF Disjoint, Overlaps

\* A step of one request, which goes on being about the same.
LEMMA GoesOnDisjoint ==
    ASSUME Transacted, Disjoint, NEW h \in Active, NEW stage \in Stages \ {"idle", "bump"}, NEW r \in RequestRow,
           Moves(h, stage, r), SameRequest(req[h], r), req[h].kind \notin OfAll => r.where = req[h].where,
           UNCHANGED <<items, sound>>
    PROVE  Overlaps'
<1>1. Typed /\ h \in Handlers
  BY DEF Transacted, Active
<1>2. Active' = Active
  BY <1>1 DEF Active, Moves, Typed
<1>3. ASSUME NEW k \in Active' PROVE SameNames(req[k], req'[k])
  <2>1. CASE k = h
    <3>1. req'[k] = r
      BY <1>1, <2>1 DEF Moves, Typed
    <3> QED BY <2>1, <3>1 DEF SameNames, SameRequest
  <2>2. CASE k # h
    <3>1. req'[k] = req[k]
      BY <1>1, <1>2, <2>2 DEF Moves, Typed, Active
    <3> QED BY <3>1 DEF SameNames
  <2> QED BY <2>1, <2>2
<1> QED BY <1>2, <1>3, OverlapsKept DEF Disjoint

LEMMA WorksDisjoint ==
    ASSUME Transacted, Disjoint, NEW h \in Handlers, Works(h)
    PROVE  Disjoint'
<1>0. Typed
  BY DEF Transacted
<1>1. PICK stage \in Stages \ {"idle", "bump"}, r \in RequestRow, w \in Writes :
        /\ h \in Active /\ Turns(h, stage, r, w) /\ Prepares(h, stage, r) /\ Begins(h, stage, r)
        /\ SameRequest(req[h], r)
  BY DEF Works
<1>2. req[h].kind \notin OfAll => r.where = req[h].where
  BY <1>1 DEF Begins, SameRequest
<1>3. UNCHANGED <<items, sound>> /\ Moves(h, stage, r)
  BY <1>1 DEF Prepares, Turns, Moves
<1>4. Overlaps'
  BY <1>1, <1>2, <1>3, GoesOnDisjoint
<1>5. CacheIsRight'
  <2>1. cached' # None /\ ~lost' => stage = "settingsBump" \/ (cached # None /\ ~lost /\ pc[h] # "settingsBump")
    BY <1>1 DEF Prepares
  <2>2. pc'[h] = stage /\ \A k \in Handlers \ {h} : pc'[k] = pc[k]
    BY <1>0, <1>3 DEF Moves, Typed
  <2> QED BY <2>1, <2>2 DEF Disjoint, CacheIsRight
<1> QED BY <1>4, <1>5 DEF Disjoint

LEMMA EndsDisjoint ==
    ASSUME Transacted, Disjoint, NEW h \in Handlers, Ends(h)
    PROVE  Disjoint'
<1>0. Typed
  BY DEF Transacted
<1>1. /\ h \in Active /\ Go(h, "idle", NoReq) /\ UNCHANGED <<items, cached>> /\ sound' \subseteq sound
      /\ (cached # None /\ ~lost') => (cached # None /\ ~lost /\ pc[h] # "settingsBump")
  BY DEF Ends, End, tables
<1>2. /\ Active' = Active \ {h}
      /\ \A k \in Handlers \ {h} : pc'[k] = pc[k] /\ req'[k] = req[k]
  BY <1>0, <1>1 DEF Active, Go, Goto, Typed
<1>3. \A k \in Active' : SameNames(req[k], req'[k])
  BY <1>0, <1>2 DEF SameNames, Active
<1>4. Overlaps'
  BY <1>1, <1>2, <1>3, OverlapsKept DEF Disjoint
<1>5. CacheIsRight'
  BY <1>1, <1>2 DEF Disjoint, CacheIsRight
<1> QED BY <1>4, <1>5 DEF Disjoint

LEMMA LooksDisjoint ==
    ASSUME Transacted, Disjoint, NEW h \in Active, NEW stage \in Stages \ {"idle", "bump"}, NEW r \in RequestRow,
           Moves(h, stage, r), SameRequest(req[h], r), r.where = req[h].where, pc[h] # "settingsBump",
           UNCHANGED <<items, sound, cached, lost>>
    PROVE  Disjoint'
<1>1. Overlaps'
  BY GoesOnDisjoint
<1>2. \A k \in Handlers : pc[k] = "settingsBump" => pc'[k] = "settingsBump"
  BY DEF Moves, Transacted, Typed, Active
<1> QED BY <1>1, <1>2, CacheKept DEF Disjoint

\* The statements of a recalculation.
LEMMA RecalculatesDisjoint ==
    ASSUME Transacted, Disjoint, NEW h \in Handlers, Read(h) \/ ReadPage(h) \/ WritePrices(h)
    PROVE  Disjoint'
<1>0. Typed
  BY DEF Transacted
<1>1. \E stage \in Stages \ {"idle", "bump"}, r \in RequestRow :
         /\ Moves(h, stage, r) /\ SameWork(req[h], r) /\ pc[h] \in Recalculating
         /\ UNCHANGED <<items, sound, cached, lost>>
  <2>1. CASE Read(h)
    <3>1. PICK query \in Queries, r \in RequestRow :
              /\ pc[h] = "read" /\ Answered(h, req[h], r, query)
              /\ Moves(h, IF r.reads = {} THEN "page" ELSE "read", r)
              /\ UNCHANGED <<tables, cached, lost, clock, tx, asked, sound>>
      BY <1>0, <2>1, ReadIs
    <3>2. PICK stage \in {"page", "read"} : Moves(h, stage, r)
      BY <3>1
    <3> QED BY <3>1, <3>2 DEF Answered, tables, Recalculating, Stages
  <2>2. CASE ReadPage(h)
    <3>1. PICK r \in RequestRow :
              /\ pc[h] = "page" /\ Paged(h, req[h], r) /\ Moves(h, Onward(r), r) /\ ToWrite(r)
              /\ UNCHANGED <<tables, cached, lost, clock, tx, asked, sound>>
      BY <1>0, <2>2, ReadPageIs
    <3>2. Onward(r) \in {"write", "page", "commit", "done"}
      BY DEF Onward, AfterRecalculation
    <3> QED BY <3>1, <3>2 DEF Paged, tables, Recalculating, Stages
  <2>3. CASE WritePrices(h)
    <3>1. PICK r \in RequestRow, new \in Rows(Listings, ListingRow) :
              /\ pc[h] = "write" /\ Priced(h, req[h], r, new) /\ Moves(h, Onward(r), r)
              /\ UNCHANGED <<promotions, items, settings, cached, lost, clock, asked, sound>>
      BY <1>0, <2>3, WritePricesIs
    <3>2. Onward(r) \in {"write", "page", "commit", "done"}
      BY DEF Onward, AfterRecalculation
    <3> QED BY <3>1, <3>2 DEF Priced, Recalculating, Stages
  <2> QED BY <2>1, <2>2, <2>3
<1>2. h \in Active /\ pc[h] # "settingsBump"
  BY <1>1 DEF Active, Recalculating
<1> QED BY <1>1, <1>2, LooksDisjoint DEF SameWork

LEMMA AboutWhere ==
    ASSUME NEW r, Asks(r), r.kind \in Transactional
    PROVE  About(r) = r.where /\ r.kind \notin OfAll
BY DEF Asks, Transactional, About, OfAll

\* A transaction changes the head and the items of its own promotion only; new items
\* are among what it prices.
LEMMA CommitIs ==
    ASSUME Transacted, NEW h \in Handlers, Commit(h)
    PROVE  /\ pc[h] = "commit" /\ h \in Active /\ req[h].kind \in Transactional /\ req[h].kind \notin OfAll
           /\ About(req[h]) = req[h].where
           /\ Active' = Active \ {h} /\ \A k \in Handlers \ {h} : pc'[k] = pc[k] /\ req'[k] = req[k] /\ tx'[k] = tx[k]
           /\ listings' = SeenListings(h) /\ promotions' = SeenPromotions(h) /\ items' = SeenItems(h)
           /\ UNCHANGED <<settings, cached, lost, today, lastRun>> /\ sound' = Vouched(h)
           /\ \A p \in Promotions :
                 \/ items'[p] = items[p] /\ promotions'[p] = promotions[p]
                 \/ /\ req[h].kind \in OnPromotion /\ p = req[h].id
                    /\ items'[p] = items[p] \/ DOMAIN items'[p] \subseteq req[h].where
<1>0. Typed
  BY DEF Transacted
<1>1. /\ pc[h] = "commit" /\ Go(h, "bump", NoReq) /\ tx' = [tx EXCEPT ![h] = NoTx]
      /\ listings' = SeenListings(h) /\ promotions' = SeenPromotions(h) /\ items' = SeenItems(h)
      /\ UNCHANGED <<settings, cached, lost, today, lastRun>> /\ sound' = Vouched(h)
  BY DEF Commit, clock
<1>2. h \in Active /\ req[h].kind \in Transactional /\ Asks(req[h])
  BY <1>0, <1>1 DEF Active, Typed, InPlace
<1>3. req[h].kind \notin OfAll /\ About(req[h]) = req[h].where
  BY <1>2, AboutWhere
<1>4. Active' = Active \ {h} /\ \A k \in Handlers \ {h} : pc'[k] = pc[k] /\ req'[k] = req[k] /\ tx'[k] = tx[k]
  BY <1>0, <1>1 DEF Active, Go, Goto, Typed
<1>5. ASSUME NEW p \in Promotions
      PROVE  \/ items'[p] = items[p] /\ promotions'[p] = promotions[p]
             \/ /\ req[h].kind \in OnPromotion /\ p = req[h].id
                /\ items'[p] = items[p] \/ DOMAIN items'[p] \subseteq req[h].where
  <2>1. /\ promotions'[p] = IF p \in DOMAIN tx[h].promotions THEN tx[h].promotions[p] ELSE promotions[p]
        /\ items'[p] = IF p \in DOMAIN tx[h].items THEN tx[h].items[p] ELSE items[p]
    BY <1>0, <1>1, SeenTyped
  <2>2. CASE p \notin DOMAIN tx[h].promotions
    <3>1. p \notin DOMAIN tx[h].items
      BY <2>2, WrotePromotions
    <3> QED BY <2>1, <2>2, <3>1
  <2>3. CASE p \in DOMAIN tx[h].promotions
    <3>1. /\ p = req[h].id /\ req[h].kind \in OnPromotion
          /\ req[h].kind = "removePromotion" => tx[h].items = Only(p, Empty)
          /\ req[h].kind # "removePromotion" => (p \in DOMAIN tx[h].items => tx[h].items[p] = req[h].dto.items)
      BY <2>3, WrotePromotions
    <3>2. CASE p \notin DOMAIN tx[h].items
      BY <2>1, <3>1, <3>2
    <3>3. CASE p \in DOMAIN tx[h].items /\ req[h].kind = "removePromotion"
      <4>1. tx[h].items[p] = Empty
        BY <3>1, <3>3 DEF Only
      <4>2. DOMAIN Empty = {}
        BY EmptyRows
      <4> QED BY <2>1, <3>1, <3>3, <4>1, <4>2
    <3>4. CASE p \in DOMAIN tx[h].items /\ req[h].kind # "removePromotion"
      <4>1. req[h].kind \in {"createPromotion", "updatePromotion"}
        BY <3>1, <3>4 DEF OnPromotion
      <4>2. Wrote("commit", req[h], tx[h])
        BY <1>1 DEF Transacted
      <4>3. req[h].dto.items # Keep
        BY <1>2, <3>1, <3>4, <4>1, <4>2 DEF Wrote, Writing
      <4>4. DOMAIN req[h].dto.items \subseteq req[h].where
        BY <1>2, <4>1, <4>3 DEF Asks
      <4> QED BY <2>1, <3>1, <3>4, <4>4
    <3> QED BY <3>2, <3>3, <3>4
  <2> QED BY <2>2, <2>3
<1> QED BY <1>1, <1>2, <1>3, <1>4, <1>5

LEMMA CommitDisjoint ==
    ASSUME Transacted, Disjoint, NEW h \in Handlers, Commit(h)
    PROVE  Disjoint'
<1>1. /\ pc[h] = "commit" /\ h \in Active /\ req[h].kind \notin OfAll /\ About(req[h]) = req[h].where
      /\ Active' = Active \ {h} /\ \A k \in Handlers \ {h} : pc'[k] = pc[k] /\ req'[k] = req[k]
      /\ UNCHANGED <<cached, lost>> /\ sound' = Vouched(h)
      /\ \A p \in Promotions :
            \/ items'[p] = items[p]
            \/ req[h].kind \in OnPromotion /\ p = req[h].id /\ DOMAIN items'[p] \subseteq req[h].where
  BY CommitIs
<1>2. OverlapsOf(h)
  BY <1>1 DEF Disjoint, Overlaps
<1>3. sound' \subseteq (IF req[h].alone THEN sound \cup req[h].where ELSE sound)
  BY <1>1 DEF Vouched
<1>4. ASSUME NEW k \in Active'
      PROVE  /\ About(req'[k]) = About(req[k]) /\ req'[k] = req[k] /\ OverlapsOf(k) /\ k \in Active
             /\ Members(req[k])' \subseteq Members(req[k]) \cup About(req[h])
             /\ ~(req[h].kind \in OnPromotion /\ req[k].kind \in OnPromotion /\ req[k].id = req[h].id) =>
                   Members(req[k])' = Members(req[k])
  <2>1. req'[k] = req[k] /\ k \in Active /\ OverlapsOf(k)
    BY <1>1 DEF Active, Disjoint, Overlaps
  <2>2. PICK q : q = req[k]
    OBVIOUS
  <2>3. q.kind \in OnPromotion => q.id \in Promotions
    BY <2>1, <2>2, ActiveIs DEF Transacted, Asks
  <2>4. Members(q)' \subseteq Members(q) \cup About(req[h])
        /\ (~(req[h].kind \in OnPromotion /\ q.kind \in OnPromotion /\ q.id = req[h].id) => Members(q)' = Members(q))
    BY <1>1, <2>3 DEF Members
  <2> QED BY <2>1, <2>2, <2>4
<1>5. ASSUME NEW k \in Active' PROVE OverlapsOf(k)'
  <2>1. k \in Active \ {h} /\ h \in Active \ {k}
    BY <1>1
  <2>2. CASE req[k].alone
    <3>1. Members(req[k]) \subseteq About(req[k]) /\ \A j \in Active \ {k} : Apart(req[k], req[j])
      BY <1>4, <2>2 DEF OverlapsOf
    <3>2. Apart(req[k], req[h])
      BY <2>1, <3>1
    <3>3. Members(req[k])' = Members(req[k])
      BY <1>4, <3>2 DEF Apart
    <3>4. (Members(req[k]) \subseteq About(req[k]))'
      BY <1>4, <3>1, <3>3
    <3>5. ASSUME NEW j \in Active' \ {k} PROVE Apart(req[k], req[j])'
      <4>1. Apart(req[k], req[j]) /\ Members(req[j])' \subseteq Members(req[j]) \cup About(req[h])
        BY <1>1, <1>4, <3>1
      <4>2. About(req[k]) \cap About(req[h]) = {}
        BY <3>2 DEF Apart
      <4>3. /\ About(req'[k]) = About(req[k]) /\ req'[k] = req[k] /\ About(req'[j]) = About(req[j]) /\ req'[j] = req[j]
        BY <1>4
      <4> QED BY <3>3, <4>1, <4>2, <4>3 DEF Apart
    <3> QED BY <1>4, <2>2, <3>4, <3>5 DEF OverlapsOf
  <2>3. CASE ~req[k].alone
    <3>1. sound \cap (About(req[k]) \cup Members(req[k])) = {}
      BY <1>4, <2>3 DEF OverlapsOf
    <3>2. CASE req[h].alone
      <4>1. Apart(req[h], req[k])
        BY <1>2, <2>1, <3>2 DEF OverlapsOf
      <4>2. Members(req[k])' = Members(req[k])
        BY <1>4, <4>1 DEF Apart
      <4>3. req[h].where \cap (About(req[k]) \cup Members(req[k])) = {}
        BY <1>1, <4>1 DEF Apart
      <4>4. (sound \cap (About(req[k]) \cup Members(req[k])) = {})'
        BY <1>3, <1>4, <3>1, <3>2, <4>2, <4>3
      <4> QED BY <1>4, <2>3, <4>4 DEF OverlapsOf
    <3>3. CASE ~req[h].alone
      <4>1. sound \cap About(req[h]) = {}
        BY <1>2, <3>3 DEF OverlapsOf
      <4>2. (sound \cap (About(req[k]) \cup Members(req[k])) = {})'
        BY <1>3, <1>4, <3>1, <3>3, <4>1
      <4> QED BY <1>4, <2>3, <4>2 DEF OverlapsOf
    <3> QED BY <3>2, <3>3
  <2> QED BY <2>2, <2>3
<1>6. CacheIsRight'
  <2>1. \A k \in Handlers : pc[k] = "settingsBump" => pc'[k] = "settingsBump"
    BY <1>1
  <2> QED BY <1>1, <2>1, CacheKept DEF Disjoint
<1> QED BY <1>5, <1>6 DEF Disjoint, Overlaps

\* A request that is about all listings is the only one, or nothing is vouched for.
LEMMA OfAllAlone ==
    ASSUME Transacted, Disjoint, NEW h \in Active, req[h].kind \in OfAll
    PROVE  /\ req[h].alone => Active = {h}
           /\ ~req[h].alone => sound = {}
<1>1. OverlapsOf(h) /\ About(req[h]) = Listings /\ sound \subseteq Listings
  BY DEF Disjoint, Overlaps, About, Transacted, Typed, Tables
<1>2. req[h].alone => Active = {h}
  BY <1>1 DEF OverlapsOf, Apart
<1>3. ~req[h].alone => sound = {}
  BY <1>1 DEF OverlapsOf
<1> QED BY <1>2, <1>3

LEMMA DoneIs ==
    ASSUME Transacted, NEW h \in Handlers, Done(h)
    PROVE  /\ pc[h] = "done" /\ h \in Active /\ req[h].kind \in OfAll /\ tx[h] = NoTx
           /\ Active' = Active \ {h} /\ \A k \in Handlers \ {h} : pc'[k] = pc[k] /\ req'[k] = req[k]
           /\ UNCHANGED <<listings, promotions, items, settings, cached, lost, today, lastRun, tx>> /\ sound' = Vouched(h)
<1>0. Typed
  BY DEF Transacted
<1>1. /\ pc[h] = "done" /\ sound' = Vouched(h)
      /\ UNCHANGED <<listings, promotions, items, settings, cached, lost, today, lastRun, tx>>
  BY DEF Done, tables, clock
<1>2. PICK stage \in {"idle", "bump"} : Go(h, stage, NoReq)
  BY DEF Done
<1>3. Active' = Active \ {h} /\ \A k \in Handlers \ {h} : pc'[k] = pc[k] /\ req'[k] = req[k]
  BY <1>0, <1>2 DEF Active, Go, Goto, Typed
<1>4. h \in Active /\ req[h].kind \in OfAll
  BY <1>0, <1>1 DEF Active, Typed, InPlace
<1>5. tx[h] = NoTx
  <2>1. pc[h] \notin Writing
    BY <1>1 DEF Writing, Recalculating
  <2> QED BY <2>1, NothingYet
<1> QED BY <1>1, <1>3, <1>4, <1>5

LEMMA DoneDisjoint ==
    ASSUME Transacted, Disjoint, NEW h \in Handlers, Done(h)
    PROVE  Disjoint'
<1>1. /\ pc[h] = "done" /\ h \in Active /\ req[h].kind \in OfAll
      /\ Active' = Active \ {h} /\ \A k \in Handlers \ {h} : pc'[k] = pc[k] /\ req'[k] = req[k]
      /\ UNCHANGED <<items, cached, lost>> /\ sound' = Vouched(h)
  BY DoneIs
<1>2. Overlaps'
  <2>1. CASE req[h].alone
    BY <1>1, <2>1, OfAllAlone DEF Overlaps
  <2>2. CASE ~req[h].alone
    <3>1. sound' \subseteq sound
      BY <1>1, <2>2 DEF Vouched
    <3>2. \A k \in Active' : SameNames(req[k], req'[k])
      BY <1>1 DEF SameNames, Active
    <3> QED BY <1>1, <3>1, <3>2, OverlapsKept DEF Disjoint
  <2> QED BY <2>1, <2>2
<1>3. CacheIsRight'
  <2>1. \A k \in Handlers : pc[k] = "settingsBump" => pc'[k] = "settingsBump"
    BY <1>1
  <2> QED BY <1>1, <2>1, CacheKept DEF Disjoint
<1> QED BY <1>2, <1>3 DEF Disjoint

LEMMA DeleteIs ==
    ASSUME Transacted, NEW h \in Handlers, Delete(h)
    PROVE  /\ pc[h] = "delete" /\ h \in Active /\ req[h].kind = "remove" /\ req[h].id \in Listings
           /\ About(req[h]) = {req[h].id}
           /\ Active' = Active \ {h} /\ \A k \in Handlers \ {h} : pc'[k] = pc[k] /\ req'[k] = req[k]
           /\ listings' = [listings EXCEPT ![req[h].id] = Gone]
           /\ \A p \in Promotions : /\ DOMAIN items'[p] = DOMAIN items[p] \ {req[h].id}
                                    /\ \A l \in DOMAIN items'[p] : items'[p][l] = items[p][l]
           /\ UNCHANGED <<promotions, settings, cached, lost, today, lastRun, tx, sound>>
<1>0. Typed
  BY DEF Transacted
<1>1. /\ pc[h] = "delete" /\ Go(h, "bump", NoReq) /\ listings' = [listings EXCEPT ![req[h].id] = Gone]
      /\ UNCHANGED <<promotions, settings, cached, lost, today, lastRun, tx, sound>>
  BY DEF Delete, clock
<1>2. PICK l : l = req[h].id
  OBVIOUS
<1>3. items' = [p \in Promotions |-> [m \in DOMAIN items[p] \ {l} |-> items[p][m]]]
  BY <1>2 DEF Delete
<1>4. Active' = Active \ {h} /\ \A k \in Handlers \ {h} : pc'[k] = pc[k] /\ req'[k] = req[k]
  BY <1>0, <1>1 DEF Active, Go, Goto, Typed
<1>5. h \in Active /\ req[h].kind = "remove" /\ req[h].id \in Listings
  BY <1>0, <1>1 DEF Active, Typed, InPlace, Asks
<1>6. About(req[h]) = {req[h].id}
  BY <1>5 DEF About, OfAll
<1>7. ASSUME NEW p \in Promotions
      PROVE  DOMAIN items'[p] = DOMAIN items[p] \ {l} /\ \A m \in DOMAIN items'[p] : items'[p][m] = items[p][m]
  BY <1>3
<1> QED BY <1>1, <1>2, <1>4, <1>5, <1>6, <1>7

LEMMA DeleteDisjoint ==
    ASSUME Transacted, Disjoint, NEW h \in Handlers, Delete(h)
    PROVE  Disjoint'
<1>1. /\ pc[h] = "delete" /\ h \in Active
      /\ Active' = Active \ {h} /\ \A k \in Handlers \ {h} : pc'[k] = pc[k] /\ req'[k] = req[k]
      /\ \A p \in Promotions : DOMAIN items'[p] \subseteq DOMAIN items[p]
      /\ UNCHANGED <<cached, lost, sound>>
  BY DeleteIs
<1>2. ASSUME NEW k \in Active'
      PROVE  /\ About(req'[k]) = About(req[k]) /\ req'[k] = req[k] /\ OverlapsOf(k) /\ k \in Active
             /\ Members(req[k])' \subseteq Members(req[k])
  <2>1. req'[k] = req[k] /\ k \in Active /\ OverlapsOf(k)
    BY <1>1 DEF Active, Disjoint, Overlaps
  <2>2. PICK q : q = req[k]
    OBVIOUS
  <2>3. q.kind \in OnPromotion => q.id \in Promotions
    BY <2>1, <2>2, ActiveIs DEF Transacted, Asks
  <2>4. Members(q)' \subseteq Members(q)
    BY <1>1, <2>3 DEF Members
  <2> QED BY <2>1, <2>2, <2>4
<1>3. ASSUME NEW k \in Active' PROVE OverlapsOf(k)'
  <2>1. CASE req[k].alone
    <3>1. Members(req[k]) \subseteq About(req[k]) /\ \A j \in Active \ {k} : Apart(req[k], req[j])
      BY <1>2, <2>1 DEF OverlapsOf
    <3>2. (Members(req[k]) \subseteq About(req[k]))'
      BY <1>2, <3>1
    <3>3. ASSUME NEW j \in Active' \ {k} PROVE Apart(req[k], req[j])'
      BY <1>2, <3>1 DEF Apart
    <3> QED BY <1>2, <2>1, <3>2, <3>3 DEF OverlapsOf
  <2>2. CASE ~req[k].alone
    <3>1. sound \cap (About(req[k]) \cup Members(req[k])) = {}
      BY <1>2, <2>2 DEF OverlapsOf
    <3>2. (sound \cap (About(req[k]) \cup Members(req[k])) = {})'
      BY <1>1, <1>2, <3>1
    <3> QED BY <1>2, <2>2, <3>2 DEF OverlapsOf
  <2> QED BY <2>1, <2>2
<1>4. CacheIsRight'
  <2>1. \A k \in Handlers : pc[k] = "settingsBump" => pc'[k] = "settingsBump"
    BY <1>1
  <2> QED BY <1>1, <2>1, CacheKept DEF Disjoint
<1> QED BY <1>3, <1>4 DEF Disjoint, Overlaps

LEMMA BumpIs ==
    ASSUME Transacted, NEW h \in Handlers, Bump(h)
    PROVE  /\ Active' = Active /\ h \notin Active /\ pc[h] = "bump"
           /\ \A k \in Handlers \ {h} : pc'[k] = pc[k] /\ req'[k] = req[k]
           /\ UNCHANGED <<listings, promotions, items, settings, today, lastRun, tx, sound>> /\ DropCache
<1>1. /\ pc[h] = "bump" /\ Go(h, "idle", NoReq) /\ DropCache
      /\ UNCHANGED <<listings, promotions, items, settings, today, lastRun, tx, sound>>
  BY DEF Bump, End, tables, clock
<1>2. Active' = Active /\ h \notin Active /\ \A k \in Handlers \ {h} : pc'[k] = pc[k] /\ req'[k] = req[k]
  BY <1>1 DEF Active, Go, Goto, Transacted, Typed
<1> QED BY <1>1, <1>2

LEMMA BumpDisjoint ==
    ASSUME Transacted, Disjoint, NEW h \in Handlers, Bump(h)
    PROVE  Disjoint'
<1>1. Active' = Active /\ h \notin Active /\ (\A k \in Handlers \ {h} : req'[k] = req[k])
      /\ UNCHANGED <<items, sound>> /\ DropCache
  BY BumpIs
<1>2. \A k \in Active' : SameNames(req[k], req'[k])
  BY <1>1 DEF SameNames, Active
<1>3. Overlaps'
  BY <1>1, <1>2, OverlapsKept DEF Disjoint
<1>4. CacheIsRight'
  BY <1>1 DEF DropCache, CacheIsRight
<1> QED BY <1>3, <1>4 DEF Disjoint

LEMMA ClockDisjoint ==
    ASSUME Disjoint, NextDay \/ Expire \/ UNCHANGED vars
    PROVE  Disjoint'
<1>1. UNCHANGED <<items, pc, req, sound>> /\ (UNCHANGED <<cached, lost>> \/ cached' = None)
  BY DEF NextDay, Expire, vars, tables
<1>2. Active' = Active /\ \A k \in Active' : SameNames(req[k], req'[k])
  BY <1>1 DEF Active, SameNames
<1>3. Overlaps'
  BY <1>1, <1>2, OverlapsKept DEF Disjoint
<1>4. CacheIsRight'
  BY <1>1 DEF Disjoint, CacheIsRight
<1> QED BY <1>3, <1>4 DEF Disjoint

LEMMA NextDisjoint ==
    ASSUME Transacted, Disjoint, [Next]_vars
    PROVE  Disjoint'
<1>1. ASSUME NEW h \in Handlers, Accepted(h) \/ Restart(h) \/ Works(h) \/ Ends(h) \/ Delete(h)
      PROVE  Disjoint'
  BY <1>1, AcceptedDisjoint, RestartDisjoint, WorksDisjoint, EndsDisjoint, DeleteDisjoint
<1>2. ASSUME NEW h \in Handlers, Read(h) \/ ReadPage(h) \/ WritePrices(h) \/ Commit(h) \/ Done(h) \/ Bump(h)
      PROVE  Disjoint'
  BY <1>2, RecalculatesDisjoint, CommitDisjoint, DoneDisjoint, BumpDisjoint
<1> QED BY <1>1, <1>2, NextIs, ClockDisjoint

LEMMA InitDisjoint ==
    ASSUME Init
    PROVE  Disjoint
BY DEF Init, Disjoint, Overlaps, CacheIsRight, Active

-----------------------------------------------------------------------------
(* The inductive invariant: prices *)

Quiet == \A k \in Active : req[k].kind \notin OfAll

Right(l, n) == PriceOf(listings[l]) = PresentPrice(l, n)

\* A recalculation of some day since d would have given l the price it has.
RightSince(l, d) == \E n \in d..today : Right(l, n)

\* h has been at listing l.
LookedAt(h, l) ==
    \/ pc[h] = "page" /\ l <= req[h].cursor
    \/ pc[h] = "write" /\ (l <= req[h].cursor \/ ~req[h].more)
    \/ pc[h] \in {"commit", "done"}

Recalculates(h) ==
    pc[h] \in Recalculating \/ pc[h] = "done" \/ (pc[h] = "commit" /\ req[h].where # {})

\* What has been read of the settings is what they say, or a lost bump shows.
FreshConfig(r) ==
    /\ "step" \notin r.reads /\ ~r.stale => r.config.roundingStep = settings.roundingStep
    /\ "tiers" \notin r.reads => r.config.markupTiers = settings.markupTiers
    /\ "order" \notin r.reads => r.config.order = settings.order

SeenOffers(h, l) == OffersFor(l, LoadPromotions(SeenPromotions(h), SeenItems(h), req[h].now))

FreshOffers(h) ==
    "promotions" \notin req[h].reads =>
        \A l \in req[h].where : OffersFor(l, req[h].promotions) = SeenOffers(h, l)

\* A listing that has been looked at has its price, or is still to get it.
FreshPrices(h) ==
    /\ \A l \in req[h].where : Exists(SeenListings(h)[l]) /\ LookedAt(h, l) =>
          PriceOf(SeenListings(h)[l]) = Due(h, l) \/ \E u \in req[h].todo : u.id = l
    /\ \A u \in req[h].todo : Exists(SeenListings(h)[u.id]) /\ u.price = Due(h, u.id)

\* What h leaves alone is right.
Kept(h) == \A l \in sound \ req[h].where : Exists(listings[l]) => RightSince(l, lastRun)

UpToDate(h) ==
    /\ Recalculates(h) =>
          /\ req[h].now \in lastRun..today
          /\ FreshConfig(req[h]) /\ FreshOffers(h) /\ FreshPrices(h)
          /\ req[h].kind \in OfAll => Kept(h)
    /\ pc[h] = "scope" =>
          /\ req[h].now = lastRun /\ req[h].from <= lastRun
          /\ \A l \in sound : Exists(listings[l]) => RightSince(l, req[h].from)

Prices ==
    /\ lastRun <= today
    /\ Quiet => \A l \in sound : Exists(listings[l]) => RightSince(l, lastRun)
    /\ \A h \in Active : req[h].alone => UpToDate(h)

\* What promotion p offers l.
OfferOf(heads, members, p, l) ==
    [promotionId |-> p, promoPrice |-> members[p][l], startsAt |-> heads[p].startsAt, endsAt |-> heads[p].endsAt]

LEMMA OffersAre ==
    ASSUME NEW heads, NEW members, NEW now, NEW l, NEW o
    PROVE  o \in OffersFor(l, LoadPromotions(heads, members, now)) <=>
              \E p \in LivePromotions(heads, now) : l \in DOMAIN members[p] /\ o = OfferOf(heads, members, p, l)
<1> DEFINE entry(p, m) == [listingId |-> m, offer |-> OfferOf(heads, members, p, m)]
<1>1. LoadPromotions(heads, members, now) = UNION {{entry(p, m) : m \in DOMAIN members[p]} : p \in LivePromotions(heads, now)}
  BY DEF LoadPromotions, OfferOf
<1>2. \A p, m : entry(p, m).listingId = m /\ entry(p, m).offer = OfferOf(heads, members, p, m)
  OBVIOUS
<1> HIDE DEF entry
<1>3. ASSUME o \in OffersFor(l, LoadPromotions(heads, members, now))
      PROVE  \E p \in LivePromotions(heads, now) : l \in DOMAIN members[p] /\ o = OfferOf(heads, members, p, l)
  <2>1. PICK c \in LoadPromotions(heads, members, now) : c.listingId = l /\ o = c.offer
    BY <1>3 DEF OffersFor
  <2>2. PICK p \in LivePromotions(heads, now) : \E m \in DOMAIN members[p] : c = entry(p, m)
    BY <1>1
  <2> QED BY <1>2, <2>1, <2>2
<1>4. ASSUME NEW p \in LivePromotions(heads, now), l \in DOMAIN members[p], o = OfferOf(heads, members, p, l)
      PROVE  o \in OffersFor(l, LoadPromotions(heads, members, now))
  <2>1. entry(p, l) \in LoadPromotions(heads, members, now)
    BY <1>1, <1>4
  <2>2. entry(p, l).listingId = l /\ o = entry(p, l).offer
    BY <1>2, <1>4
  <2> QED BY <2>1, <2>2 DEF OffersFor
<1> QED BY <1>3, <1>4

\* The offers for a listing depend on the promotions it is in.
LEMMA OffersSame ==
    ASSUME NEW heads, NEW members, NEW heads2, NEW members2, NEW now, NEW l,
           \A p \in Promotions :
              /\ l \in DOMAIN members[p] <=> l \in DOMAIN members2[p]
              /\ l \in DOMAIN members[p] => members2[p][l] = members[p][l] /\ heads2[p] = heads[p]
    PROVE  OffersFor(l, LoadPromotions(heads2, members2, now)) = OffersFor(l, LoadPromotions(heads, members, now))
<1>1. ASSUME NEW o, NEW p, l \in DOMAIN members[p]
      PROVE  /\ p \in LivePromotions(heads, now) <=> p \in LivePromotions(heads2, now)
             /\ p \in LivePromotions(heads, now) => OfferOf(heads, members, p, l) = OfferOf(heads2, members2, p, l)
  BY <1>1 DEF LivePromotions, OfferOf
<1>2. ASSUME NEW o
      PROVE  o \in OffersFor(l, LoadPromotions(heads2, members2, now))
                <=> o \in OffersFor(l, LoadPromotions(heads, members, now))
  <2>1. \A p : p \in LivePromotions(heads, now) \/ p \in LivePromotions(heads2, now) => p \in Promotions
    BY DEF LivePromotions
  <2> QED BY <1>1, <2>1, OffersAre
<1> QED BY <1>2

\* A price depends on the cost and the markup of the row, and on the open offers.
LEMMA ResolvedTarget ==
    ASSUME NEW row, NEW row2, Target(row2) = Target(row), NEW config, NEW offers, NEW now
    PROVE  Resolved(row2, config, offers, now) = Resolved(row, config, offers, now)
BY DEF Resolved

LEMMA ResolvedOpen ==
    ASSUME NEW row, NEW config, NEW offers, NEW now, NEW offers2, NEW now2, Open(offers2, now2) = Open(offers, now)
    PROVE  Resolved(row, config, offers2, now2) = Resolved(row, config, offers, now)
<1>1. PICK t : t = Target(row)
  OBVIOUS
<1>2. BestPromotion(t, offers2, now2) = BestPromotion(t, offers, now)
  BY DEF BestPromotion
<1>3. FirstSource(t, config, offers2, now2) = FirstSource(t, config, offers, now)
  <2>1. PromotionApplies(t, config, offers2, now2) = PromotionApplies(t, config, offers, now)
    BY <1>2 DEF PromotionApplies
  <2>2. ASSUME NEW s PROVE Applies(s, t, config, offers2, now2) = Applies(s, t, config, offers, now)
    BY <2>1 DEF Applies
  <2> DEFINE hits(o, n) == {i \in DOMAIN config.order : Applies(config.order[i], t, config, o, n)}
             first(S) == IF S = {} THEN "BASE_MARKUP" ELSE config.order[CHOOSE i \in S : \A j \in S : i <= j]
  <2>3. hits(offers2, now2) = hits(offers, now)
    BY <2>2
  <2>4. ASSUME NEW o, NEW n PROVE FirstSource(t, config, o, n) = first(hits(o, n))
    BY DEF FirstSource
  <2> HIDE DEF hits, first
  <2>5. FirstSource(t, config, offers2, now2) = first(hits(offers2, now2))
    BY <2>4
  <2>6. FirstSource(t, config, offers, now) = first(hits(offers, now))
    BY <2>4
  <2> QED BY <2>3, <2>5, <2>6
<1>4. ResolvePrice(t, config, offers2, now2) = ResolvePrice(t, config, offers, now)
  BY <1>2, <1>3 DEF ResolvePrice
<1> QED BY <1>1, <1>4 DEF Resolved

\* Nothing but days and requests has changed.
Untouched == UNCHANGED <<listings, promotions, items, settings>>

LEMMA StillRight ==
    ASSUME Untouched, today \in Nat, today' \in Nat, today <= today', NEW l, NEW d \in Nat, RightSince(l, d)
    PROVE  RightSince(l, d)'
<1>1. PICK n \in d..today : Right(l, n)
  BY DEF RightSince
<1>2. n \in d..today' /\ Right(l, n)'
  BY <1>1 DEF Right, PresentPrice, Untouched
<1> QED BY <1>2 DEF RightSince

LEMMA StillUpToDate ==
    ASSUME Typed, Typed', NEW k \in Handlers, UpToDate(k), pc'[k] = pc[k], req'[k] = req[k], tx'[k] = tx[k],
           Untouched, UNCHANGED lastRun, today <= today', sound' \subseteq sound
    PROVE  UpToDate(k)'
<1>1. today \in Nat /\ today' \in Nat /\ lastRun \in Nat
  BY DEF Typed, Tables
<1>2. PICK r \in RequestRow : r = req[k]
  BY DEF Typed
<1>3. r.now \in Nat /\ r.from \in Nat
  BY DEF RequestRow
<1>4. SeenListings(k)' = SeenListings(k) /\ SeenPromotions(k)' = SeenPromotions(k) /\ SeenItems(k)' = SeenItems(k)
  BY DEF Untouched, SeenListings, SeenPromotions, SeenItems
<1>5. ASSUME NEW l PROVE Due(k, l)' = Due(k, l) /\ SeenOffers(k, l)' = SeenOffers(k, l)
                         /\ LookedAt(k, l)' = LookedAt(k, l)
  BY <1>4 DEF Due, SeenOffers, LookedAt
<1>6. FreshConfig(req[k])' = FreshConfig(req[k])
  BY DEF FreshConfig, Untouched
<1>7. FreshOffers(k) => FreshOffers(k)'
  BY <1>5 DEF FreshOffers
<1>8. FreshPrices(k) => FreshPrices(k)'
  BY <1>4, <1>5 DEF FreshPrices
<1>9. ASSUME NEW l, NEW d \in Nat, Exists(listings[l]) => RightSince(l, d) PROVE (Exists(listings[l]) => RightSince(l, d))'
  BY <1>1, <1>9, StillRight DEF Untouched
<1>10. Kept(k) => Kept(k)'
  <2>1. PICK d \in Nat : d = lastRun
    BY <1>1
  <2>2. ASSUME Kept(k), NEW l \in sound' \ req'[k].where PROVE (Exists(listings[l]) => RightSince(l, d))'
    BY <1>9, <2>1, <2>2 DEF Kept
  <2> QED BY <2>1, <2>2 DEF Kept
<1>11. Recalculates(k)' = Recalculates(k)
  BY DEF Recalculates
<1>12. ASSUME Recalculates(k)
       PROVE  (/\ req[k].now \in lastRun..today /\ FreshConfig(req[k]) /\ FreshOffers(k) /\ FreshPrices(k)
               /\ req[k].kind \in OfAll => Kept(k))'
  <2>1. /\ r.now \in lastRun..today /\ FreshConfig(req[k]) /\ FreshOffers(k) /\ FreshPrices(k)
        /\ r.kind \in OfAll => Kept(k)
    BY <1>2, <1>12 DEF UpToDate
  <2>2. r.now \in lastRun..today'
    BY <1>1, <1>3, <2>1
  <2> QED BY <1>2, <1>6, <1>7, <1>8, <1>10, <2>1, <2>2
<1>13. ASSUME pc[k] = "scope"
       PROVE  (/\ req[k].now = lastRun /\ req[k].from <= lastRun
               /\ \A l \in sound : Exists(listings[l]) => RightSince(l, req[k].from))'
  <2>1. /\ r.now = lastRun /\ r.from <= lastRun
        /\ \A l \in sound : Exists(listings[l]) => RightSince(l, r.from)
    BY <1>2, <1>13 DEF UpToDate
  <2>2. ASSUME NEW l \in sound' PROVE (Exists(listings[l]) => RightSince(l, r.from))'
    BY <1>3, <1>9, <2>1
  <2> QED BY <1>2, <2>1, <2>2
<1> QED BY <1>11, <1>12, <1>13 DEF UpToDate

LEMMA PricesKept ==
    ASSUME Typed, Typed', Prices, Untouched, UNCHANGED lastRun, today <= today', sound' \subseteq sound, Quiet' => Quiet,
           \A k \in Active' : req'[k].alone =>
              \/ k \in Active /\ pc'[k] = pc[k] /\ req'[k] = req[k] /\ tx'[k] = tx[k]
              \/ UpToDate(k)'
    PROVE  Prices'
<1>1. today \in Nat /\ today' \in Nat /\ lastRun \in Nat
  BY DEF Typed, Tables
<1>2. lastRun' <= today'
  BY <1>1 DEF Prices
<1>3. ASSUME Quiet', NEW l \in sound' PROVE (Exists(listings[l]) => RightSince(l, lastRun))'
  <2>1. PICK d \in Nat : d = lastRun
    BY <1>1
  <2>2. Exists(listings[l]) => RightSince(l, d)
    BY <1>3, <2>1 DEF Prices
  <2>3. (Exists(listings[l]) => RightSince(l, d))'
    BY <1>1, <2>2, StillRight DEF Untouched
  <2> QED BY <2>1, <2>3
<1>4. ASSUME NEW k \in Active', req'[k].alone PROVE UpToDate(k)'
  <2>1. CASE k \in Active /\ pc'[k] = pc[k] /\ req'[k] = req[k] /\ tx'[k] = tx[k]
    <3>1. UpToDate(k) /\ k \in Handlers
      BY <1>4, <2>1 DEF Prices, Active
    <3> QED BY <2>1, <3>1, StillUpToDate
  <2> QED BY <1>4, <2>1
<1> QED BY <1>2, <1>3, <1>4 DEF Prices

\* While a request about all listings is under way, only it can be alone.
LEMMA PricesBusy ==
    ASSUME Transacted', Disjoint', NEW h \in Handlers, (h \in Active /\ req[h].kind \in OfAll)',
           lastRun' <= today', req'[h].alone => UpToDate(h)'
    PROVE  Prices'
<1>1. ~Quiet'
  BY DEF Quiet
<1>2. ASSUME NEW k \in Active', req'[k].alone PROVE k = h
  <2>1. (Members(req[k]) \subseteq About(req[k]) /\ \A j \in Active \ {k} : Apart(req[k], req[j]))'
    BY <1>2 DEF Disjoint, Overlaps, OverlapsOf
  <2> QED BY <2>1 DEF Apart
<1> QED BY <1>1, <1>2 DEF Prices

\* A request that is not about all listings leaves the others, and the quiet, as they are.
LEMMA PricesMoved ==
    ASSUME Typed, Typed', Prices, Untouched, UNCHANGED <<today, lastRun, sound>>,
           NEW h \in Active, NEW stage \in Stages \ {"idle", "bump"}, NEW r \in RequestRow, Moves(h, stage, r),
           r.kind = req[h].kind, r.alone = req[h].alone, \A k \in Handlers \ {h} : tx'[k] = tx[k],
           req[h].alone => UpToDate(h)'
    PROVE  Prices'
<1>1. h \in Handlers /\ pc'[h] = stage /\ req'[h] = r
      /\ \A k \in Handlers \ {h} : pc'[k] = pc[k] /\ req'[k] = req[k]
  BY DEF Active, Moves, Typed
<1>2. Active' = Active
  BY <1>1 DEF Active
<1>3. Quiet' => Quiet
  BY <1>1, <1>2 DEF Quiet, Active
<1>4. today <= today'
  BY DEF Typed, Tables
<1>5. ASSUME NEW k \in Active', req'[k].alone
      PROVE  \/ k \in Active /\ pc'[k] = pc[k] /\ req'[k] = req[k] /\ tx'[k] = tx[k]
             \/ UpToDate(k)'
  BY <1>1, <1>2, <1>5 DEF Active
<1> QED BY <1>3, <1>4, <1>5, PricesKept

LEMMA RestartPrices ==
    ASSUME Transacted, Transacted', Disjoint', NEW h \in Handlers, Restart(h)
    PROVE  Prices'
<1>0. Typed /\ Tables /\ Typed'
  BY DEF Transacted, Typed
<1>1. /\ lastRun' = today' /\ today' \in today..LastDay
      /\ pc' = [k \in Handlers |-> IF k = h THEN "read" ELSE "idle"]
      /\ req' = [k \in Handlers |-> IF k = h THEN Boot(today') ELSE NoReq]
  BY DEF Restart, Boot
<1>2. PICK now \in Nat : now = today'
  BY <1>0, <1>1, BoundsAssumption DEF Tables
<1>3. PICK r \in RequestRow : r = Boot(now) /\ r.kind = "boot" /\ r.now = now /\ r.reads = Queries /\ r.todo = {}
        /\ r.where = Listings
  BY BootTyped
<1>4. pc'[h] = "read" /\ req'[h] = r
  BY <1>1, <1>2, <1>3
<1>5. (h \in Active /\ req[h].kind \in OfAll)' /\ lastRun' <= today'
  BY <1>1, <1>2, <1>3, <1>4 DEF Active, OfAll
<1>6. UpToDate(h)'
  <2>1. (FreshConfig(req[h]) /\ FreshOffers(h))'
    BY <1>3, <1>4 DEF FreshConfig, FreshOffers, Queries
  <2>2. FreshPrices(h)'
    BY <1>3, <1>4 DEF FreshPrices, LookedAt
  <2>3. Kept(h)'
    BY <1>0, <1>3, <1>4 DEF Kept, Typed, Tables
  <2>4. (req[h].now \in lastRun..today)'
    BY <1>1, <1>2, <1>3, <1>4
  <2> QED BY <1>4, <2>1, <2>2, <2>3, <2>4 DEF UpToDate
<1> QED BY <1>5, <1>6, PricesBusy

LEMMA AcceptedPrices ==
    ASSUME Transacted, Disjoint, Prices, Transacted', Disjoint', NEW h \in Handlers, Accepted(h)
    PROVE  Prices'
<1>0. Typed /\ Tables /\ Typed'
  BY DEF Transacted, Typed
<1>1. PICK stage, r :
        /\ pc[h] = "idle" /\ Take(h, stage, r)
        /\ r \in RequestRow /\ r.kind # "none"
        /\ stage \in Stages \ ({"idle", "bump", "items", "commit", "done"} \cup Recalculating) /\ InPlace(stage, r)
        /\ r.kind = "tick" => r.from = lastRun /\ r.now = today /\ lastRun' = today /\ lastRun <= today
        /\ r.kind # "tick" => lastRun' = lastRun
        /\ UNCHANGED <<tables, cached, lost, today, tx>>
  BY DEF Accepted
<1>2. /\ pc' = [pc EXCEPT ![h] = stage] /\ req' \in [Handlers -> RequestRow]
      /\ SameButAlone(r, req'[h]) /\ req'[h].alone = (Foes(h, r) = {})
      /\ \A k \in Handlers \ {h} :
            /\ k \notin Foes(h, r) => req'[k] = req[k]
            /\ k \in Foes(h, r) => k \in Active /\ SameButAlone(req[k], req'[k]) /\ ~req'[k].alone
      /\ sound' \subseteq sound
  BY <1>0, <1>1, TakeIs
<1>3. Active' = Active \cup {h} /\ h \notin Active
  BY <1>0, <1>1, <1>2 DEF Active, Typed
<1>4. Untouched /\ UNCHANGED tx
  BY <1>1 DEF Untouched, tables
<1>5. PICK x \in RequestRow : x = req'[h]
  BY <1>2
<1>6. x.kind = r.kind /\ x.now = r.now /\ x.from = r.from /\ pc'[h] = stage
  BY <1>0, <1>1, <1>2, <1>5 DEF SameButAlone, Typed
<1>7. CASE r.kind \in OfAll
  <2>1. (h \in Active /\ req[h].kind \in OfAll)'
    BY <1>3, <1>5, <1>6, <1>7
  <2>2. lastRun' <= today'
    BY <1>0, <1>1 DEF Prices, Tables
  <2>3. ASSUME x.alone PROVE UpToDate(h)'
    <3>1. Active = {}
      <4>1. (Members(req[h]) \subseteq About(req[h]) /\ \A j \in Active \ {h} : Apart(req[h], req[j]))'
        BY <1>3, <1>5, <2>1, <2>3 DEF Disjoint, Overlaps, OverlapsOf
      <4> QED BY <1>3, <1>5, <1>6, <1>7, <4>1 DEF Apart
    <3>2. ~Recalculates(h)'
      BY <1>1, <1>6 DEF Recalculates
    <3>3. ASSUME pc'[h] = "scope"
          PROVE  (/\ req[h].now = lastRun /\ req[h].from <= lastRun
                  /\ \A l \in sound : Exists(listings[l]) => RightSince(l, req[h].from))'
      <4>1. r.kind = "tick"
        BY <1>1, <1>6, <3>3 DEF InPlace
      <4>2. x.now = lastRun' /\ x.from <= lastRun' /\ x.from = lastRun
        BY <1>1, <1>6, <4>1
      <4>3. \A l \in sound : Exists(listings[l]) => RightSince(l, x.from)
        BY <3>1, <4>2 DEF Prices, Quiet
      <4>4. x.from \in Nat /\ today \in Nat /\ today' \in Nat /\ today <= today'
        BY <1>0, <1>1 DEF RequestRow, Tables
      <4>5. ASSUME NEW l \in sound' PROVE (Exists(listings[l]) => RightSince(l, x.from))'
        BY <1>2, <1>4, <4>3, <4>4, StillRight DEF Untouched
      <4> QED BY <1>5, <4>2, <4>5
    <3> QED BY <3>2, <3>3 DEF UpToDate
  <2> QED BY <1>5, <2>1, <2>2, <2>3, PricesBusy
<1>8. CASE r.kind \notin OfAll
  <2>1. UNCHANGED lastRun /\ today <= today'
    BY <1>0, <1>1, <1>8 DEF OfAll, Tables
  <2>2. ASSUME NEW k \in Active PROVE req'[k].kind = req[k].kind
    BY <1>2, <1>3 DEF SameButAlone, Active
  <2>3. Quiet' => Quiet
    BY <1>3, <2>2 DEF Quiet
  <2>4. ASSUME NEW k \in Active', req'[k].alone
        PROVE  \/ k \in Active /\ pc'[k] = pc[k] /\ req'[k] = req[k] /\ tx'[k] = tx[k]
               \/ UpToDate(k)'
    <3>1. CASE k = h
      <4>1. ~Recalculates(h)' /\ pc'[h] # "scope"
        BY <1>1, <1>6, <1>8 DEF Recalculates, InPlace, OfAll
      <4> QED BY <3>1, <4>1 DEF UpToDate
    <3>2. CASE k # h
      BY <1>0, <1>2, <1>3, <1>4, <2>4, <3>2 DEF Active, Typed
    <3> QED BY <3>1, <3>2
  <2> QED BY <1>0, <1>2, <1>4, <2>1, <2>3, <2>4, PricesKept
<1> QED BY <1>7, <1>8

-----------------------------------------------------------------------------
(* Prices: days that pass *)

\* Which offers are open for a listing depends on the day only through the promotions
\* that begin or end.
LEMMA OpenSame ==
    ASSUME Typed, NEW h \in Handlers, NEW l, l \notin Transitioned(h),
           NEW n \in Nat, req[h].from <= n, n <= req[h].now
    PROVE  Open(OffersFor(l, LoadPromotions(promotions, items, n)), n)
              = Open(OffersFor(l, LoadPromotions(promotions, items, req[h].now)), req[h].now)
<1>1. PICK a \in Nat : a = req[h].from
  BY DEF Typed, RequestRow
<1>2. PICK b \in Nat : b = req[h].now
  BY DEF Typed, RequestRow
<1>3. a <= n /\ n <= b
  BY <1>1, <1>2
<1>4. ASSUME NEW p \in Promotions, l \in DOMAIN items[p], Exists(promotions[p]), promotions[p].enabled
      PROVE  /\ promotions[p].startsAt \in Nat \cup {None} /\ promotions[p].endsAt \in Nat \cup {None}
             /\ promotions[p].startsAt # None => ~(a < promotions[p].startsAt /\ promotions[p].startsAt <= b)
             /\ promotions[p].endsAt # None => ~(a < promotions[p].endsAt /\ promotions[p].endsAt <= b)
  <2>1. ~Crossed(h, promotions[p].startsAt) /\ ~Crossed(h, promotions[p].endsAt)
    BY <1>4 DEF Transitioned
  <2>2. promotions[p] \in PromotionRow
    BY <1>4, ExistsRow DEF Typed, Tables
  <2> QED BY <1>1, <1>2, <2>1, <2>2 DEF Crossed, PromotionRow, Date
<1>5. ASSUME NEW o, NEW m \in Nat
      PROVE  o \in Open(OffersFor(l, LoadPromotions(promotions, items, m)), m)
                <=> \E p \in Promotions :
                       /\ Exists(promotions[p]) /\ promotions[p].enabled /\ l \in DOMAIN items[p]
                       /\ o = OfferOf(promotions, items, p, l)
                       /\ promotions[p].startsAt # None => promotions[p].startsAt <= m
                       /\ promotions[p].endsAt # None => promotions[p].endsAt > m
  <2>1. \A p : /\ OfferOf(promotions, items, p, l).startsAt = promotions[p].startsAt
               /\ OfferOf(promotions, items, p, l).endsAt = promotions[p].endsAt
    BY DEF OfferOf
  <2>2. o \in OffersFor(l, LoadPromotions(promotions, items, m)) <=>
           \E p \in LivePromotions(promotions, m) : l \in DOMAIN items[p] /\ o = OfferOf(promotions, items, p, l)
    BY OffersAre
  <2> QED BY <2>1, <2>2 DEF Open, LivePromotions, IsInWindow
<1>6. ASSUME NEW p \in Promotions, l \in DOMAIN items[p], Exists(promotions[p]), promotions[p].enabled
      PROVE  /\ (promotions[p].startsAt # None => promotions[p].startsAt <= n)
                   <=> (promotions[p].startsAt # None => promotions[p].startsAt <= b)
             /\ (promotions[p].endsAt # None => promotions[p].endsAt > n)
                   <=> (promotions[p].endsAt # None => promotions[p].endsAt > b)
  BY <1>3, <1>4, <1>6
<1>7. ASSUME NEW o
      PROVE  o \in Open(OffersFor(l, LoadPromotions(promotions, items, n)), n)
                <=> o \in Open(OffersFor(l, LoadPromotions(promotions, items, b)), b)
  BY <1>5, <1>6
<1>8. Open(OffersFor(l, LoadPromotions(promotions, items, n)), n)
        = Open(OffersFor(l, LoadPromotions(promotions, items, b)), b)
  <2> DEFINE X == Open(OffersFor(l, LoadPromotions(promotions, items, n)), n)
             Y == Open(OffersFor(l, LoadPromotions(promotions, items, b)), b)
  <2>1. \A o : o \in X <=> o \in Y
    BY <1>7
  <2>2. X \subseteq OffersFor(l, LoadPromotions(promotions, items, n)) /\ Y \subseteq OffersFor(l, LoadPromotions(promotions, items, b))
    BY DEF Open
  <2> HIDE DEF X, Y
  <2>3. X = Y
    BY <2>1, <2>2
  <2> QED BY <2>3 DEF X, Y
<1> QED BY <1>2, <1>8

\* So a listing that no promotion crosses stays right.
LEMMA Uncrossed ==
    ASSUME Typed, NEW h \in Handlers, req[h].now = lastRun, req[h].from <= lastRun, lastRun <= today, NEW l,
           l \notin Transitioned(h), RightSince(l, req[h].from)
    PROVE  RightSince(l, lastRun)
<1>1. PICK a \in Nat, b \in Nat, c \in Nat : a = req[h].from /\ b = lastRun /\ c = today
  BY DEF Typed, RequestRow, Tables
<1>2. PICK n \in a..c : Right(l, n)
  BY <1>1 DEF RightSince
<1>3. CASE n >= b
  BY <1>1, <1>2, <1>3 DEF RightSince
<1>4. CASE n < b
  <2>1. Open(OffersFor(l, LoadPromotions(promotions, items, n)), n)
              = Open(OffersFor(l, LoadPromotions(promotions, items, b)), b)
    <3>1. n \in Nat /\ a <= n /\ n <= b
      BY <1>1, <1>2, <1>4
    <3> QED BY <1>1, <3>1, OpenSame
  <2>2. PresentPrice(l, b) = PresentPrice(l, n)
    BY <2>1, ResolvedOpen DEF PresentPrice
  <2>3. Right(l, b) /\ b \in b..c
    BY <1>1, <1>2, <2>2 DEF Right
  <2> QED BY <1>1, <2>3 DEF RightSince
<1> QED BY <1>1, <1>2, <1>3, <1>4

LEMMA ClockPrices ==
    ASSUME Transacted, Transacted', Prices, NextDay \/ Expire \/ UNCHANGED vars
    PROVE  Prices'
<1>1. Typed /\ Typed' /\ Tables
  BY DEF Transacted, Typed
<1>2. /\ UNCHANGED <<listings, promotions, items, settings, lastRun, pc, req, tx, sound>>
      /\ today' = today \/ today' = today + 1
  BY DEF NextDay, Expire, vars, tables, clock
<1>3. today <= today' /\ Untouched
  BY <1>1, <1>2 DEF Tables, Untouched
<1>4. Active' = Active
  BY <1>2 DEF Active
<1>5. (Quiet' => Quiet)
  BY <1>2, <1>4 DEF Quiet
<1> QED BY <1>1, <1>2, <1>3, <1>4, <1>5, PricesKept

LEMMA BumpPrices ==
    ASSUME Transacted, Transacted', Prices, NEW h \in Handlers, Bump(h)
    PROVE  Prices'
<1>1. Typed /\ Typed' /\ Tables
  BY DEF Transacted, Typed
<1>2. /\ Active' = Active /\ h \notin Active
      /\ \A k \in Handlers \ {h} : pc'[k] = pc[k] /\ req'[k] = req[k]
      /\ UNCHANGED <<listings, promotions, items, settings, today, lastRun, tx, sound>>
  BY BumpIs
<1>3. today <= today' /\ Untouched
  BY <1>1, <1>2 DEF Tables, Untouched
<1>4. ASSUME NEW k \in Active' PROVE k \in Active /\ pc'[k] = pc[k] /\ req'[k] = req[k] /\ tx'[k] = tx[k]
  BY <1>2 DEF Active
<1>5. Quiet' => Quiet
  BY <1>2, <1>4 DEF Quiet
<1> QED BY <1>1, <1>2, <1>3, <1>4, <1>5, PricesKept

LEMMA EndsPrices ==
    ASSUME Transacted, Disjoint, Transacted', Prices, NEW h \in Handlers, Ends(h)
    PROVE  Prices'
<1>1. Typed /\ Typed' /\ Tables
  BY DEF Transacted, Typed
<1>2. /\ h \in Active /\ Go(h, "idle", NoReq) /\ tx' = [tx EXCEPT ![h] = NoTx]
      /\ UNCHANGED <<listings, promotions, items, settings, today, lastRun>>
      /\ sound' \subseteq sound /\ sound' \subseteq Listings
      /\ req[h].kind \notin OfAll \/ sound' = {} \/ (pc[h] = "scope" /\ Transitioned(h) = {})
  BY DEF Ends, End, tables, clock
<1>3. /\ Active' = Active \ {h}
      /\ \A k \in Handlers \ {h} : pc'[k] = pc[k] /\ req'[k] = req[k] /\ tx'[k] = tx[k]
  BY <1>1, <1>2 DEF Active, Go, Goto, Typed
<1>4. ASSUME NEW k \in Active' PROVE k \in Active /\ pc'[k] = pc[k] /\ req'[k] = req[k] /\ tx'[k] = tx[k]
  BY <1>3 DEF Active
<1>5. today <= today' /\ Untouched
  BY <1>1, <1>2 DEF Tables, Untouched
<1>6. CASE req[h].kind \notin OfAll
  <2>1. Quiet' => Quiet
    BY <1>3, <1>4, <1>6 DEF Quiet
  <2> QED BY <1>1, <1>2, <1>4, <1>5, <2>1, PricesKept
<1>7. CASE req[h].kind \in OfAll /\ ~req[h].alone
  <2>1. sound' = {}
    BY <1>2, <1>7, OfAllAlone
  <2>2. ASSUME NEW k \in Active', req'[k].alone PROVE UpToDate(k)'
    <3>1. k \in Handlers /\ UpToDate(k)
      BY <1>4, <2>2 DEF Prices, Active
    <3> QED BY <1>1, <1>2, <1>4, <1>5, <3>1, StillUpToDate
  <2> QED BY <1>2, <2>1, <2>2 DEF Prices
<1>8. CASE req[h].kind \in OfAll /\ req[h].alone
  <2>1. Active' = {}
    BY <1>2, <1>3, <1>8, OfAllAlone
  <2>2. ASSUME NEW l \in sound' PROVE (Exists(listings[l]) => RightSince(l, lastRun))'
    <3>1. pc[h] = "scope" /\ Transitioned(h) = {}
      BY <1>2, <1>8, <2>2
    <3>2. req[h].now = lastRun /\ req[h].from <= lastRun
          /\ \A m \in sound : Exists(listings[m]) => RightSince(m, req[h].from)
      BY <1>2, <1>8, <3>1 DEF Prices, UpToDate
    <3>3. Exists(listings[l]) => RightSince(l, lastRun)
      BY <1>1, <1>2, <2>2, <3>1, <3>2, Uncrossed DEF Prices, Active
    <3> QED BY <1>2, <3>3 DEF RightSince, Right, PresentPrice
  <2> QED BY <1>2, <2>1, <2>2 DEF Prices
<1> QED BY <1>6, <1>7, <1>8

-----------------------------------------------------------------------------
(* Prices: steps on the way to a recalculation, and of one *)

\* A request goes on: what it knows is up to date, and if it is not about all listings
\* nobody else sees what it has done.
LEMMA PricesOnward ==
    ASSUME Transacted, Prices, Transacted', Disjoint', UNCHANGED <<today, lastRun, sound>>,
           NEW h \in Active, NEW stage \in Stages \ {"idle", "bump"}, NEW r \in RequestRow, Moves(h, stage, r),
           r.kind = req[h].kind, r.alone = req[h].alone,
           req[h].kind \notin OfAll => Untouched /\ \A k \in Handlers \ {h} : tx'[k] = tx[k],
           req[h].alone => UpToDate(h)'
    PROVE  Prices'
<1>1. Typed /\ Typed' /\ h \in Handlers
  BY DEF Transacted, Active
<1>2. pc'[h] = stage /\ req'[h] = r
  BY <1>1 DEF Moves, Typed
<1>3. CASE req[h].kind \in OfAll
  <2>1. (h \in Active /\ req[h].kind \in OfAll)'
    BY <1>1, <1>2, <1>3 DEF Active
  <2>2. lastRun' <= today'
    BY DEF Prices
  <2>3. req'[h].alone => UpToDate(h)'
    BY <1>2
  <2> QED BY <1>1, <2>1, <2>2, <2>3, PricesBusy
<1>4. CASE req[h].kind \notin OfAll
  BY <1>1, <1>4, PricesMoved
<1> QED BY <1>3, <1>4

LEMMA WorksPrices ==
    ASSUME Transacted, Disjoint, Prices, Transacted', Disjoint', NEW h \in Handlers, Works(h)
    PROVE  Prices'
<1>0. Typed /\ Tables /\ Typed' /\ Tables'
  BY DEF Transacted, Typed
<1>1. PICK stage \in Stages \ {"idle", "bump"}, r \in RequestRow, w \in Writes :
        /\ h \in Active /\ pc[h] \notin {"page", "write", "commit", "done", "read"}
        /\ Turns(h, stage, r, w) /\ Prepares(h, stage, r) /\ Begins(h, stage, r)
        /\ SameRequest(req[h], r) /\ InPlace(stage, r)
  BY DEF Works
<1>2. /\ UNCHANGED <<listings, promotions, items, today, lastRun, sound>>
      /\ req[h].kind \notin OfAll \/ pc[h] = "scope" => settings' = settings
      /\ Moves(h, stage, r) /\ r.kind = req[h].kind /\ r.alone = req[h].alone
  BY <1>1 DEF Prepares, clock, Turns, Moves, SameRequest
<1>3. pc'[h] = stage /\ req'[h] = r /\ \A k \in Handlers \ {h} : tx'[k] = tx[k]
  BY <1>0, <1>1 DEF Turns, Typed
<1>4. req[h].kind \notin OfAll => Untouched /\ \A k \in Handlers \ {h} : tx'[k] = tx[k]
  BY <1>2, <1>3 DEF Untouched
<1>5. ASSUME req[h].alone PROVE UpToDate(h)'
  <2>1. stage # "scope"
    BY <1>1 DEF Begins
  <2>2. ASSUME Recalculates(h)'
        PROVE  /\ stage = "read" /\ r.now = today /\ r.reads = Queries /\ r.todo = {}
               /\ r.where = IF r.kind \in OfAll THEN Recalculated(h) ELSE req[h].where
    <3>1. stage = "read"
      BY <1>1, <1>3, <2>2 DEF Recalculates, Begins, Recalculating
    <3> QED BY <1>1, <3>1 DEF Begins, InPlace
  <2>3. ASSUME Recalculates(h)' PROVE (req[h].now \in lastRun..today)'
    BY <1>0, <1>2, <1>3, <2>2, <2>3 DEF Prices, Tables
  <2>4. ASSUME Recalculates(h)' PROVE (FreshConfig(req[h]) /\ FreshOffers(h))'
    BY <1>3, <2>2, <2>4 DEF FreshConfig, FreshOffers, Queries
  <2>5. ASSUME Recalculates(h)' PROVE FreshPrices(h)'
    BY <1>3, <2>2, <2>5 DEF FreshPrices, LookedAt
  <2>6. ASSUME Recalculates(h)', r.kind \in OfAll, NEW l \in sound \ r.where, Exists(listings[l])
        PROVE  RightSince(l, lastRun)'
    <3>1. pc[h] = "scope" /\ l \notin Transitioned(h) /\ l \in sound
      BY <1>0, <2>2, <2>6 DEF Recalculated, Tables
    <3>2. req[h].now = lastRun /\ req[h].from <= lastRun /\ RightSince(l, req[h].from)
      BY <1>1, <1>5, <2>6, <3>1 DEF Prices, UpToDate
    <3>3. RightSince(l, lastRun)
      BY <1>0, <3>1, <3>2, Uncrossed DEF Prices
    <3> QED BY <1>2, <3>1, <3>3 DEF RightSince, Right, PresentPrice
  <2>7. ASSUME Recalculates(h)', (req[h].kind \in OfAll)' PROVE Kept(h)'
    BY <1>2, <1>3, <2>6, <2>7 DEF Kept
  <2> QED BY <1>3, <2>1, <2>3, <2>4, <2>5, <2>7 DEF UpToDate
<1> QED BY <1>1, <1>2, <1>4, <1>5, PricesOnward

\* Nobody but the request that is on its way to the bump can read an old step, unless a
\* bump was lost.
LEMMA CacheFresh ==
    ASSUME Transacted, Disjoint, NEW h \in Active, req[h].alone, pc[h] # "settingsBump", ~lost
    PROVE  cached = None
<1> SUFFICES ASSUME cached # None PROVE FALSE
  OBVIOUS
<1>1. PICK k \in Handlers : pc[k] = "settingsBump"
  BY DEF Disjoint, CacheIsRight
<1>2. k \in Active \ {h} /\ req[k].kind = "settings"
  BY <1>1 DEF Active, Transacted, Typed, InPlace
<1>3. Apart(req[h], req[k])
  BY <1>2 DEF Disjoint, Overlaps, OverlapsOf
<1> QED BY <1>2, <1>3 DEF Apart, OfAll

LEMMA ReadPrices ==
    ASSUME Transacted, Disjoint, Prices, Transacted', Disjoint', NEW h \in Handlers, Read(h)
    PROVE  Prices'
<1>0. Typed /\ Tables /\ Typed'
  BY DEF Transacted, Typed
<1>1. PICK query \in Queries, r \in RequestRow :
              /\ pc[h] = "read" /\ query \in req[h].reads /\ Answered(h, req[h], r, query)
              /\ Moves(h, IF r.reads = {} THEN "page" ELSE "read", r)
              /\ UNCHANGED <<tables, cached, lost, clock, tx, asked, sound>>
  BY <1>0, ReadIs
<1>2. PICK q \in RequestRow : q = req[h] /\ InPlace("read", q)
  BY <1>0, <1>1 DEF Typed
<1>3. PICK stage \in {"read", "page"} : stage = IF r.reads = {} THEN "page" ELSE "read"
  OBVIOUS
<1>4. Moves(h, stage, r) /\ h \in Active /\ pc'[h] = stage /\ req'[h] = r
  BY <1>0, <1>1, <1>3 DEF Moves, Active, Typed
<1>5. UNCHANGED <<listings, promotions, items, settings, today, lastRun, tx, sound>> /\ Untouched
  BY <1>1 DEF tables, clock, Untouched
<1>6. /\ r.kind = q.kind /\ r.alone = q.alone /\ r.where = q.where /\ r.now = q.now
      /\ r.reads = q.reads \ {query} /\ r.cursor = 0 /\ r.todo = {} /\ Answered(h, q, r, query)
  BY <1>1, <1>2 DEF Answered, SameWork, SameRequest, InPlace
<1>7. ASSUME q.alone PROVE UpToDate(h)'
  <2>1. /\ q.now \in lastRun..today /\ FreshConfig(q) /\ FreshOffers(h)
        /\ q.kind \in OfAll => Kept(h)
    BY <1>1, <1>2, <1>4, <1>7 DEF Prices, UpToDate, Recalculates, Recalculating
  <2>2. FreshConfig(r)'
    <3>1. query = "step" /\ ~r.stale => r.config.roundingStep = settings.roundingStep
      <4>1. ~lost => cached = None
        BY <1>1, <1>2, <1>4, <1>7, CacheFresh
      <4> QED BY <1>6, <4>1 DEF Answered
    <3>2. /\ query = "tiers" => r.config.markupTiers = settings.markupTiers
          /\ query = "order" => r.config.order = settings.order
      BY <1>6 DEF Answered
    <3>3. /\ query # "step" => r.config.roundingStep = q.config.roundingStep /\ r.stale = q.stale
          /\ query # "tiers" => r.config.markupTiers = q.config.markupTiers
          /\ query # "order" => r.config.order = q.config.order
      BY <1>6 DEF Answered
    <3>4. FreshConfig(r)
      BY <1>6, <2>1, <3>1, <3>2, <3>3 DEF FreshConfig
    <3> QED BY <1>5, <3>4 DEF FreshConfig
  <2>3. \A l : SeenOffers(h, l)' = SeenOffers(h, l)
    BY <1>2, <1>4, <1>5, <1>6 DEF SeenOffers, SeenPromotions, SeenItems
  <2>4. FreshOffers(h)'
    <3>1. CASE query = "promotions"
      <4>1. r.promotions = LoadPromotions(SeenPromotions(h), SeenItems(h), q.now)
        BY <1>6, <3>1 DEF Answered
      <4>2. \A l : OffersFor(l, r.promotions) = SeenOffers(h, l)
        BY <1>2, <4>1 DEF SeenOffers
      <4> QED BY <1>4, <2>3, <4>2 DEF FreshOffers
    <3>2. CASE query # "promotions"
      <4>1. r.promotions = q.promotions
        BY <1>6, <3>2 DEF Answered
      <4> QED BY <1>2, <1>4, <1>6, <2>1, <2>3, <3>2, <4>1 DEF FreshOffers
    <3> QED BY <3>1, <3>2
  <2>5. FreshPrices(h)'
    <3>1. ASSUME NEW l \in r.where PROVE ~LookedAt(h, l)'
      <4>1. l \in Nat \ {0}
        BY IdsAssumption DEF RequestRow
      <4> QED BY <1>4, <1>6, <4>1 DEF LookedAt
    <3> QED BY <1>4, <1>6, <3>1 DEF FreshPrices
  <2>6. q.kind \in OfAll => Kept(h)'
    BY <1>2, <1>4, <1>5, <1>6, <2>1 DEF Kept, RightSince, Right, PresentPrice
  <2> QED BY <1>4, <1>5, <1>6, <2>1, <2>2, <2>4, <2>5, <2>6 DEF UpToDate
<1>8. stage \in Stages \ {"idle", "bump"}
  BY DEF Stages
<1> QED BY <1>2, <1>4, <1>5, <1>6, <1>7, <1>8, PricesOnward

\* Whatever has been looked at when a page has been read was looked at before, or is of
\* the page.
LEMMA PageLooks ==
    ASSUME Typed, NEW h \in Handlers, pc[h] = "page", NEW r \in RequestRow, Paged(h, req[h], r),
           NEW l \in req[h].where, Exists(SeenListings(h)[l]), l <= r.cursor \/ ~r.more
    PROVE  l <= req[h].cursor \/ l \in Page(h)
<1>1. PICK q \in RequestRow : q = req[h]
  BY DEF Typed
<1>2. l \in Nat /\ q.cursor \in Nat /\ Ahead(h) \subseteq Nat
  BY <1>1, IdsAssumption DEF RequestRow, Ahead
<1>3. CASE l \notin Ahead(h)
  BY <1>1, <1>2, <1>3 DEF Ahead
<1>4. CASE l \in Ahead(h)
  <2>1. Leading(Page(h), Ahead(h), PageSize)
    BY PageLeads
  <2>2. CASE ~r.more
    <3>1. Cardinality(Page(h)) # PageSize
      BY <2>2 DEF Paged
    <3> QED BY <1>4, <2>1, <3>1 DEF Leading
  <2>3. CASE l <= r.cursor /\ Page(h) = {}
    BY <1>1, <2>3 DEF Paged
  <2>4. CASE l <= r.cursor /\ Page(h) # {}
    <3>1. r.cursor = Greatest(Page(h))
      BY <2>4 DEF Paged
    <3>2. Greatest(Page(h)) \in Page(h)
      BY <2>1, <2>4 DEF Leading
    <3> QED BY <1>4, <2>1, <2>4, <3>1, <3>2 DEF Leading
  <2> QED BY <2>2, <2>3, <2>4
<1> QED BY <1>3, <1>4

LEMMA ReadPagePrices ==
    ASSUME Transacted, Disjoint, Prices, Transacted', Disjoint', NEW h \in Handlers, ReadPage(h)
    PROVE  Prices'
<1>0. Typed /\ Tables /\ Typed'
  BY DEF Transacted, Typed
<1>1. PICK r \in RequestRow :
              /\ pc[h] = "page" /\ Paged(h, req[h], r) /\ ToWrite(r)
              /\ Moves(h, Onward(r), r)
              /\ UNCHANGED <<tables, cached, lost, clock, tx, asked, sound>>
  BY <1>0, ReadPageIs
<1>2. PICK q \in RequestRow : q = req[h] /\ InPlace("page", q)
  BY <1>0, <1>1 DEF Typed
<1>3. PICK stage : stage = Onward(r)
  OBVIOUS
<1>4. stage \in {"write", "page", "commit", "done"} /\ (stage \in {"commit", "done"} => ~r.more)
  BY <1>3 DEF Onward, AfterRecalculation
<1>5. stage \in Stages \ {"idle", "bump"} /\ stage # "scope"
  BY <1>4 DEF Stages
<1>6. Moves(h, stage, r) /\ h \in Active /\ pc'[h] = stage /\ req'[h] = r
  BY <1>0, <1>1, <1>3 DEF Moves, Active, Typed
<1>7. UNCHANGED <<listings, promotions, items, settings, today, lastRun, tx, sound>> /\ Untouched
  BY <1>1 DEF tables, clock, Untouched
<1>8. /\ r.kind = q.kind /\ r.alone = q.alone /\ r.where = q.where /\ r.now = q.now
      /\ r.reads = q.reads /\ r.config = q.config /\ r.promotions = q.promotions /\ r.stale = q.stale
      /\ r.todo = ToReprice(h) /\ q.todo = {}
  BY <1>1, <1>2 DEF Paged, SameWork, SameRequest, InPlace
<1>9. /\ SeenListings(h)' = SeenListings(h)
      /\ \A l : Due(h, l)' = Due(h, l) /\ SeenOffers(h, l)' = SeenOffers(h, l)
  <2>1. SeenListings(h)' = SeenListings(h) /\ SeenPromotions(h)' = SeenPromotions(h) /\ SeenItems(h)' = SeenItems(h)
    BY <1>7 DEF SeenListings, SeenPromotions, SeenItems
  <2> QED BY <1>2, <1>6, <1>8, <2>1 DEF Due, SeenOffers
<1>10. ASSUME q.alone PROVE UpToDate(h)'
  <2>1. /\ q.now \in lastRun..today /\ FreshConfig(q) /\ FreshOffers(h) /\ FreshPrices(h)
        /\ q.kind \in OfAll => Kept(h)
    BY <1>1, <1>2, <1>6, <1>10 DEF Prices, UpToDate, Recalculates, Recalculating
  <2>2. FreshConfig(r)'
    BY <1>7, <1>8, <2>1 DEF FreshConfig
  <2>3. FreshOffers(h)'
    BY <1>2, <1>6, <1>8, <1>9, <2>1 DEF FreshOffers
  <2>4. ASSUME NEW l \in q.where, Exists(SeenListings(h)[l]), LookedAt(h, l)'
        PROVE  PriceOf(SeenListings(h)[l]) = Due(h, l) \/ \E u \in r.todo : u.id = l
    <3>1. l <= r.cursor \/ ~r.more
      BY <1>4, <1>6, <2>4 DEF LookedAt
    <3>2. l <= q.cursor \/ l \in Page(h)
      BY <1>0, <1>1, <1>2, <2>4, <3>1, PageLooks
    <3>3. CASE l <= q.cursor
      BY <1>1, <1>2, <1>8, <2>1, <2>4, <3>3 DEF FreshPrices, LookedAt
    <3>4. CASE l \in Page(h) /\ PriceOf(SeenListings(h)[l]) # Due(h, l)
      <4>1. PICK u : u = [id |-> l, price |-> Due(h, l)]
        OBVIOUS
      <4>2. u \in ToReprice(h) /\ u.id = l
        BY <3>4, <4>1 DEF ToReprice
      <4> QED BY <1>8, <4>2
    <3> QED BY <3>2, <3>3, <3>4
  <2>5. ASSUME NEW u \in r.todo
        PROVE  Exists(SeenListings(h)[u.id]) /\ u.price = Due(h, u.id)
    <3>1. PICK l \in Page(h) : u = [id |-> l, price |-> Due(h, l)]
      BY <1>8 DEF ToReprice
    <3>2. l \in Ahead(h)
      BY <1>0, PageLeads DEF Leading
    <3>3. u.id = l /\ u.price = Due(h, l)
      BY <3>1
    <3> QED BY <3>2, <3>3 DEF Ahead
  <2>6. FreshPrices(h)'
    BY <1>6, <1>8, <1>9, <2>4, <2>5 DEF FreshPrices
  <2>7. q.kind \in OfAll => Kept(h)'
    BY <1>2, <1>6, <1>7, <1>8, <2>1 DEF Kept, RightSince, Right, PresentPrice
  <2> QED BY <1>5, <1>6, <1>7, <1>8, <2>1, <2>2, <2>3, <2>6, <2>7 DEF UpToDate
<1> QED BY <1>2, <1>5, <1>6, <1>7, <1>8, <1>10, PricesOnward

\* What h sees of the listings when it has written a chunk, and what the others do.
LEMMA PricedSees ==
    ASSUME Typed, Typed', NEW h \in Handlers, NEW new \in Rows(Listings, ListingRow), ~InTx(h) => tx[h] = NoTx,
           IF InTx(h) THEN tx' = [tx EXCEPT ![h].listings = Over(new, @)] /\ UNCHANGED listings
           ELSE listings' = Over(new, listings) /\ UNCHANGED tx
    PROVE  /\ \A l \in Listings : SeenListings(h)'[l] = IF l \in DOMAIN new THEN new[l] ELSE SeenListings(h)[l]
           /\ tx'[h].promotions = tx[h].promotions /\ tx'[h].items = tx[h].items
           /\ \A k \in Handlers \ {h} : tx'[k] = tx[k]
           /\ \A l \in Listings \ DOMAIN new : listings'[l] = listings[l]
<1>1. PICK w \in Writes, v \in Writes : w = tx'[h] /\ v = tx[h]
  BY DEF Typed
<1>2. \A l \in Listings : /\ SeenListings(h)'[l] = IF l \in DOMAIN w.listings THEN w.listings[l] ELSE listings'[l]
                          /\ SeenListings(h)[l] = IF l \in DOMAIN v.listings THEN v.listings[l] ELSE listings[l]
  <2>1. \A l \in Listings : SeenListings(h)[l] = IF l \in DOMAIN tx[h].listings THEN tx[h].listings[l] ELSE listings[l]
    BY SeenTyped
  <2>2. w.listings \in Rows(Listings, ListingRow \cup {None, Gone})
    <3>1. w.listings \in Rows(Listings, ListingRow)
      BY DEF Writes
    <3> QED BY <3>1, RowsWider
  <2>3. listings' \in [Listings -> ListingRow \cup {None, Gone}]
    BY DEF Typed, Tables
  <2>4. SeenListings(h)' = Over(w.listings, listings')
    BY <1>1 DEF SeenListings
  <2> QED BY <1>1, <2>1, <2>2, <2>3, <2>4, OverWhole
<1>3. CASE InTx(h)
  <2>1. tx' = [tx EXCEPT ![h].listings = Over(new, @)] /\ listings' = listings
    BY <1>3
  <2>2. w = [v EXCEPT !.listings = Over(new, @)] /\ \A k \in Handlers \ {h} : tx'[k] = tx[k]
    BY <1>1, <2>1 DEF Typed
  <2>3. w.listings = Over(new, v.listings) /\ w.promotions = v.promotions /\ w.items = v.items
    BY <2>2 DEF Writes
  <2>4. \A l \in Listings : /\ l \in DOMAIN w.listings <=> l \in DOMAIN new \/ l \in DOMAIN v.listings
                            /\ l \in DOMAIN w.listings => w.listings[l] = IF l \in DOMAIN new THEN new[l] ELSE v.listings[l]
    BY <2>3 DEF Over
  <2> QED BY <1>1, <1>2, <2>1, <2>2, <2>3, <2>4
<1>4. CASE ~InTx(h)
  <2>1. listings' = Over(new, listings) /\ tx' = tx /\ tx[h] = NoTx
    BY <1>4
  <2>2. DOMAIN v.listings = {} /\ w = v
    BY <1>1, <2>1, NothingWritten, EmptyRows
  <2>3. \A l \in Listings : listings'[l] = IF l \in DOMAIN new THEN new[l] ELSE listings[l]
    <3>1. new \in Rows(Listings, ListingRow \cup {None, Gone})
      BY RowsWider
    <3>2. listings \in [Listings -> ListingRow \cup {None, Gone}]
      BY DEF Typed, Tables
    <3> QED BY <2>1, <3>1, <3>2, OverWhole
  <2> QED BY <1>1, <1>2, <2>1, <2>2, <2>3
<1> QED BY <1>3, <1>4

\* A chunk writes the prices that are due, and leaves the rest of the row.
LEMMA PricedDue ==
    ASSUME Typed, NEW h \in Handlers, pc[h] = "write", FreshPrices(h), NEW r \in RequestRow,
           NEW new \in Rows(Listings, ListingRow), Priced(h, req[h], r, new), NEW l \in DOMAIN new
    PROVE  /\ l \in Listings /\ new[l] \in ListingRow
           /\ Exists(SeenListings(h)[l]) /\ Target(new[l]) = Target(SeenListings(h)[l]) /\ PriceOf(new[l]) = Due(h, l)
<1>1. PICK q \in RequestRow : q = req[h]
  BY DEF Typed
<1>2. PICK u \in Chunk(h) : Given(h, l, new[l], u)
  BY DEF Priced
<1>3. u \in q.todo /\ u \in [id : Listings, price : Price]
  BY <1>1 DEF Chunk, RequestRow
<1>4. u.id = l /\ l \in Listings /\ u.price \in Price /\ u.price = Due(h, l) /\ Exists(SeenListings(h)[l])
  BY <1>1, <1>2, <1>3 DEF Given, FreshPrices
<1>5. SeenListings(h)[l] \in ListingRow
  BY <1>4, SeenTyped, ExistsRow
<1>6. new[l] = Repriced(SeenListings(h)[l], u.price)
  BY <1>2 DEF Given
<1> QED BY <1>4, <1>5, <1>6, RepricedTyped

\* A listing that keeps its row, while the settings and the promotions stay, stays right.
LEMMA RowStays ==
    ASSUME NEW l, listings'[l] = listings[l], UNCHANGED <<promotions, items, settings, today>>, NEW d, RightSince(l, d)
    PROVE  RightSince(l, d)'
BY DEF RightSince, Right, PresentPrice

LEMMA WritePricesPrices ==
    ASSUME Transacted, Disjoint, Prices, Transacted', Disjoint', NEW h \in Handlers, WritePrices(h)
    PROVE  Prices'
<1>0. Typed /\ Tables /\ Typed'
  BY DEF Transacted, Typed
<1>1. PICK r \in RequestRow, new \in Rows(Listings, ListingRow) :
              /\ pc[h] = "write" /\ Priced(h, req[h], r, new) /\ ToWrite(r)
              /\ Moves(h, Onward(r), r)
              /\ IF InTx(h) THEN tx' = [tx EXCEPT ![h].listings = Over(new, @)] /\ UNCHANGED listings
                 ELSE listings' = Over(new, listings) /\ UNCHANGED tx
              /\ UNCHANGED <<promotions, items, settings, cached, lost, clock, asked, sound>>
  BY <1>0, WritePricesIs
<1>2. PICK q \in RequestRow : q = req[h] /\ InPlace("write", q)
  BY <1>0, <1>1 DEF Typed
<1>3. PICK stage : stage = Onward(r)
  OBVIOUS
<1>4. stage \in {"write", "page", "commit", "done"} /\ (stage \in {"commit", "done"} => ~r.more)
  BY <1>3 DEF Onward, AfterRecalculation
<1>5. stage \in Stages \ {"idle", "bump"} /\ stage # "scope"
  BY <1>4 DEF Stages
<1>6. Moves(h, stage, r) /\ h \in Active /\ pc'[h] = stage /\ req'[h] = r
  BY <1>0, <1>1, <1>3 DEF Moves, Active, Typed
<1>7. UNCHANGED <<promotions, items, settings, today, lastRun, sound>>
  BY <1>1 DEF clock
<1>8. /\ r.kind = q.kind /\ r.alone = q.alone /\ r.where = q.where /\ r.now = q.now
      /\ r.reads = q.reads /\ r.config = q.config /\ r.promotions = q.promotions /\ r.stale = q.stale
      /\ r.cursor = q.cursor /\ r.more = q.more /\ r.todo = q.todo \ Chunk(h)
  BY <1>1, <1>2 DEF Priced, SameWork, SameRequest
<1>9. ~InTx(h) => tx[h] = NoTx
  BY DEF Transacted, Wrote, InTx
<1>10. /\ \A l \in Listings : SeenListings(h)'[l] = IF l \in DOMAIN new THEN new[l] ELSE SeenListings(h)[l]
       /\ tx'[h].promotions = tx[h].promotions /\ tx'[h].items = tx[h].items
       /\ \A k \in Handlers \ {h} : tx'[k] = tx[k]
       /\ \A l \in Listings \ DOMAIN new : listings'[l] = listings[l]
  BY <1>0, <1>1, <1>9, PricedSees
<1>11. q.kind \notin OfAll => Untouched /\ \A k \in Handlers \ {h} : tx'[k] = tx[k]
  BY <1>1, <1>2, <1>7, <1>10 DEF Untouched, InPlace, Recalculating, InTx
<1>12. \A l : SeenOffers(h, l)' = SeenOffers(h, l)
  <2>1. SeenPromotions(h)' = SeenPromotions(h) /\ SeenItems(h)' = SeenItems(h)
    BY <1>7, <1>10 DEF SeenPromotions, SeenItems
  <2> QED BY <1>2, <1>6, <1>8, <2>1 DEF SeenOffers
<1>13. ASSUME q.alone PROVE UpToDate(h)'
  <2>1. /\ q.now \in lastRun..today /\ FreshConfig(q) /\ FreshOffers(h) /\ FreshPrices(h)
        /\ q.kind \in OfAll => Kept(h)
    BY <1>1, <1>2, <1>6, <1>13 DEF Prices, UpToDate, Recalculates, Recalculating
  <2>2. FreshConfig(r)'
    BY <1>7, <1>8, <2>1 DEF FreshConfig
  <2>3. FreshOffers(h)'
    BY <1>2, <1>6, <1>8, <1>12, <2>1 DEF FreshOffers
  <2>4. ASSUME NEW l \in DOMAIN new
        PROVE  /\ l \in Listings /\ new[l] \in ListingRow
               /\ Exists(SeenListings(h)[l]) /\ Target(new[l]) = Target(SeenListings(h)[l]) /\ PriceOf(new[l]) = Due(h, l)
    BY <1>0, <1>1, <2>1, PricedDue
  <2>5. ASSUME NEW l \in Listings
        PROVE  Due(h, l)' = Due(h, l) /\ (Exists(SeenListings(h)'[l]) <=> Exists(SeenListings(h)[l]))
    <3>1. PICK row, seen : row = SeenListings(h)'[l] /\ seen = SeenListings(h)[l]
      OBVIOUS
    <3>2. Target(row) = Target(seen) /\ (Exists(row) <=> Exists(seen))
      BY <1>10, <2>4, <3>1, ExistsRow
    <3>3. Due(h, l)' = Resolved(row, q.config, OffersFor(l, q.promotions), q.now)
      BY <1>6, <1>8, <3>1 DEF Due
    <3>4. Due(h, l) = Resolved(seen, q.config, OffersFor(l, q.promotions), q.now)
      BY <1>2, <3>1 DEF Due
    <3> QED BY <3>1, <3>2, <3>3, <3>4, ResolvedTarget
  <2>6. ASSUME NEW l \in q.where, Exists(SeenListings(h)'[l]), LookedAt(h, l)'
        PROVE  PriceOf(SeenListings(h)'[l]) = Due(h, l) \/ \E u \in r.todo : u.id = l
    <3>1. LookedAt(h, l) /\ l \in Listings
      BY <1>1, <1>2, <1>4, <1>6, <1>8, <2>6 DEF LookedAt, RequestRow
    <3>2. CASE l \in DOMAIN new
      BY <1>10, <2>4, <3>1, <3>2
    <3>3. CASE l \notin DOMAIN new
      <4>1. SeenListings(h)'[l] = SeenListings(h)[l] /\ Exists(SeenListings(h)[l])
        BY <1>10, <2>6, <3>1, <3>3
      <4>2. PriceOf(SeenListings(h)[l]) = Due(h, l) \/ \E u \in q.todo : u.id = l
        BY <1>2, <2>1, <3>1, <4>1 DEF FreshPrices
      <4>3. ASSUME NEW u \in q.todo, u.id = l PROVE u \in r.todo
        BY <1>1, <1>8, <3>3, <4>1, <4>3 DEF Priced
      <4> QED BY <4>1, <4>2, <4>3
    <3> QED BY <3>2, <3>3
  <2>7. ASSUME NEW u \in r.todo
        PROVE  u.id \in Listings /\ Exists(SeenListings(h)[u.id]) /\ u.price = Due(h, u.id)
    <3>1. u \in q.todo /\ u \in [id : Listings, price : Price]
      BY <1>8 DEF RequestRow
    <3> QED BY <1>2, <2>1, <3>1 DEF FreshPrices
  <2>8. FreshPrices(h)'
    <3>1. r.where \subseteq Listings
      BY DEF RequestRow
    <3> QED BY <1>6, <1>8, <2>5, <2>6, <2>7, <3>1 DEF FreshPrices
  <2>9. q.kind \in OfAll => Kept(h)'
    <3>1. \A l \in DOMAIN new : l \in q.where
      BY <1>1, <1>2, PricedWrites
    <3>2. ASSUME q.kind \in OfAll, NEW l \in sound \ q.where, Exists(listings'[l]) PROVE RightSince(l, lastRun)'
      <4>1. listings'[l] = listings[l]
        BY <1>0, <1>10, <3>1 DEF Tables
      <4>2. PICK d : d = lastRun
        OBVIOUS
      <4>3. RightSince(l, d)
        BY <1>2, <2>1, <3>2, <4>1, <4>2 DEF Kept
      <4>4. RightSince(l, d)'
        BY <1>7, <4>1, <4>3, RowStays
      <4> QED BY <1>7, <4>2, <4>4
    <3> QED BY <1>6, <1>7, <1>8, <3>2 DEF Kept
  <2> QED BY <1>5, <1>6, <1>7, <1>8, <2>1, <2>2, <2>3, <2>8, <2>9 DEF UpToDate
<1> QED BY <1>2, <1>5, <1>6, <1>7, <1>8, <1>11, <1>13, PricesOnward

-----------------------------------------------------------------------------
(* Prices: the end of a recalculation *)

\* Of the settings a price depends on the tiers, the step and the order.
LEMMA ResolvedConfig ==
    ASSUME NEW row, NEW config, NEW config2, NEW offers, NEW now,
           config2.markupTiers = config.markupTiers, config2.roundingStep = config.roundingStep,
           config2.order = config.order
    PROVE  Resolved(row, config2, offers, now) = Resolved(row, config, offers, now)
<1>1. PICK t : t = Target(row)
  OBVIOUS
<1>2. /\ RegularPrice(t, config2, TRUE) = RegularPrice(t, config, TRUE)
      /\ RegularPrice(t, config2, FALSE) = RegularPrice(t, config, FALSE)
  BY DEF RegularPrice
<1>3. FirstSource(t, config2, offers, now) = FirstSource(t, config, offers, now)
  <2>1. PromotionApplies(t, config2, offers, now) = PromotionApplies(t, config, offers, now)
    BY <1>2 DEF PromotionApplies
  <2>2. ASSUME NEW s PROVE Applies(s, t, config2, offers, now) = Applies(s, t, config, offers, now)
    BY <2>1 DEF Applies
  <2> DEFINE hits(c) == {i \in DOMAIN c.order : Applies(c.order[i], t, c, offers, now)}
             first(S) == IF S = {} THEN "BASE_MARKUP" ELSE config.order[CHOOSE i \in S : \A j \in S : i <= j]
  <2>3. hits(config2) = hits(config)
    BY <2>2
  <2>4. ASSUME NEW c, c.order = config.order PROVE FirstSource(t, c, offers, now) = first(hits(c))
    BY <2>4 DEF FirstSource
  <2> HIDE DEF hits, first
  <2>5. FirstSource(t, config2, offers, now) = first(hits(config2))
    BY <2>4
  <2>6. FirstSource(t, config, offers, now) = first(hits(config))
    BY <2>4
  <2> QED BY <2>3, <2>5, <2>6
<1>4. ResolvePrice(t, config2, offers, now) = ResolvePrice(t, config, offers, now)
  BY <1>2, <1>3 DEF ResolvePrice
<1> QED BY <1>1, <1>4 DEF Resolved

\* A recalculation that is over has given its listings what the settings and the
\* promotions it sees say.
LEMMA RecalculationOver ==
    ASSUME Transacted, NEW h \in Active, UpToDate(h), Recalculates(h), pc[h] \in {"commit", "done"}, ~req[h].stale,
           NEW l \in req[h].where, Exists(SeenListings(h)[l])
    PROVE  /\ req[h].now \in lastRun..today
           /\ PriceOf(SeenListings(h)[l]) = Resolved(SeenListings(h)[l], settings, SeenOffers(h, l), req[h].now)
<1>0. Typed /\ h \in Handlers
  BY DEF Transacted, Active
<1>1. PICK q \in RequestRow : q = req[h] /\ InPlace(pc[h], q)
  BY <1>0 DEF Typed
<1>2. q.reads = {} /\ q.todo = {}
  BY <1>1 DEF InPlace
<1>3. q.now \in lastRun..today /\ FreshConfig(q) /\ FreshOffers(h) /\ FreshPrices(h)
  BY <1>1 DEF UpToDate
<1>4. PriceOf(SeenListings(h)[l]) = Due(h, l)
  BY <1>1, <1>2, <1>3 DEF FreshPrices, LookedAt
<1>5. OffersFor(l, q.promotions) = SeenOffers(h, l)
  BY <1>1, <1>2, <1>3 DEF FreshOffers
<1>6. q.config.roundingStep = settings.roundingStep /\ q.config.markupTiers = settings.markupTiers
      /\ q.config.order = settings.order
  BY <1>1, <1>2, <1>3 DEF FreshConfig
<1>7. Due(h, l) = Resolved(SeenListings(h)[l], settings, OffersFor(l, q.promotions), q.now)
  BY <1>1, <1>6, ResolvedConfig DEF Due
<1> QED BY <1>1, <1>3, <1>4, <1>5, <1>7

LEMMA DonePrices ==
    ASSUME Transacted, Disjoint, Prices, Transacted', NEW h \in Handlers, Done(h)
    PROVE  Prices'
<1>0. Typed /\ Tables /\ Typed'
  BY DEF Transacted, Typed
<1>1. /\ pc[h] = "done" /\ h \in Active /\ req[h].kind \in OfAll /\ tx[h] = NoTx
      /\ Active' = Active \ {h} /\ \A k \in Handlers \ {h} : pc'[k] = pc[k] /\ req'[k] = req[k]
      /\ UNCHANGED <<listings, promotions, items, settings, today, lastRun, tx>> /\ sound' = Vouched(h)
  BY DoneIs
<1>2. lastRun' <= today' /\ today <= today' /\ Untouched
  BY <1>0, <1>1 DEF Prices, Tables, Untouched
<1>3. CASE ~req[h].alone
  <2>1. sound' = {}
    BY <1>1, <1>3, OfAllAlone DEF Vouched
  <2>2. ASSUME NEW k \in Active', req'[k].alone PROVE UpToDate(k)'
    <3>1. k \in Handlers \ {h} /\ k \in Active
      BY <1>1 DEF Active
    <3>2. pc'[k] = pc[k] /\ req'[k] = req[k] /\ tx'[k] = tx[k] /\ UpToDate(k)
      BY <1>1, <2>2, <3>1 DEF Prices
    <3> QED BY <1>0, <1>1, <1>2, <2>1, <3>1, <3>2, StillUpToDate
  <2> QED BY <1>2, <2>1, <2>2 DEF Prices
<1>4. CASE req[h].alone
  <2>1. Active' = {}
    BY <1>1, <1>4, OfAllAlone
  <2>2. UpToDate(h) /\ Recalculates(h) /\ Kept(h)
    BY <1>1, <1>4 DEF Prices, UpToDate, Recalculates
  <2>3. ASSUME NEW l \in sound', Exists(listings[l]) PROVE RightSince(l, lastRun)
    <3>1. CASE l \in sound \ req[h].where
      BY <2>2, <2>3, <3>1 DEF Kept
    <3>2. CASE l \notin sound \ req[h].where
      <4>1. ~req[h].stale /\ l \in req[h].where
        BY <1>1, <1>4, <2>3, <3>2 DEF Vouched
      <4>2. SeenListings(h) = listings /\ SeenPromotions(h) = promotions /\ SeenItems(h) = items
        <5>1. ASSUME NEW S, NEW T, NEW f \in [S -> T] PROVE Over(Empty, f) = f
          BY EmptyRows DEF Over
        <5>2. /\ listings \in [Listings -> ListingRow \cup {None, Gone}]
              /\ promotions \in [Promotions -> PromotionRow \cup {None, Gone}]
              /\ items \in [Promotions -> Rows(Listings, Nat)]
          BY <1>0 DEF Tables
        <5> QED BY <1>1, <5>1, <5>2, NothingWritten DEF SeenListings, SeenPromotions, SeenItems
      <4>3. PICK n : n = req[h].now
        OBVIOUS
      <4>4. /\ n \in lastRun..today
            /\ PriceOf(listings[l]) = Resolved(listings[l], settings, SeenOffers(h, l), n)
        BY <1>1, <2>2, <2>3, <4>1, <4>2, <4>3, RecalculationOver
      <4>5. Right(l, n)
        BY <4>2, <4>3, <4>4 DEF Right, PresentPrice, SeenOffers
      <4> QED BY <4>4, <4>5 DEF RightSince
    <3> QED BY <3>1, <3>2
  <2>4. ASSUME NEW l \in sound' PROVE (Exists(listings[l]) => RightSince(l, lastRun))'
    BY <1>1, <2>3 DEF RightSince, Right, PresentPrice
  <2> QED BY <1>2, <2>1, <2>4 DEF Prices
<1> QED BY <1>3, <1>4

-----------------------------------------------------------------------------
(* Prices: what the others commit *)

\* Nothing about listing l has changed in the promotions.
MembersStay(l) ==
    \A p \in Promotions :
        /\ l \in DOMAIN items'[p] <=> l \in DOMAIN items[p]
        /\ l \in DOMAIN items[p] => items'[p][l] = items[p][l] /\ promotions'[p] = promotions[p]

\* The row is as it was, or has lost a promotion that k does not find it in.
RowStaysFor(k, l) ==
    \/ listings'[l] = listings[l]
    \/ /\ Exists(listings[l]) /\ Exists(listings'[l]) /\ Target(listings'[l]) = Target(listings[l])
       /\ listings[l].promotionId # None /\ l \notin DOMAIN SeenItems(k)[listings[l].promotionId]

LEMMA OffersStay ==
    ASSUME Transacted, Transacted', NEW k \in Handlers, tx'[k] = tx[k], NEW l, MembersStay(l), NEW now
    PROVE  OffersFor(l, LoadPromotions(SeenPromotions(k)', SeenItems(k)', now))
              = OffersFor(l, LoadPromotions(SeenPromotions(k), SeenItems(k), now))
<1>0. Typed /\ Typed'
  BY DEF Transacted
<1>1. PICK heads, members, heads2, members2 :
        /\ heads = SeenPromotions(k) /\ members = SeenItems(k)
        /\ heads2 = SeenPromotions(k)' /\ members2 = SeenItems(k)'
  OBVIOUS
<1>2. \A p \in Promotions :
         /\ heads[p] = IF p \in DOMAIN tx[k].promotions THEN tx[k].promotions[p] ELSE promotions[p]
         /\ members[p] = IF p \in DOMAIN tx[k].items THEN tx[k].items[p] ELSE items[p]
  BY <1>0, <1>1, SeenTyped
<1>3. \A p \in Promotions :
         /\ heads2[p] = IF p \in DOMAIN tx[k].promotions THEN tx[k].promotions[p] ELSE promotions'[p]
         /\ members2[p] = IF p \in DOMAIN tx[k].items THEN tx[k].items[p] ELSE items'[p]
  <2>1. PICK w \in Writes : w = tx[k]
    BY <1>0 DEF Typed
  <2>2. /\ w.promotions \in Rows(Promotions, PromotionRow \cup {None, Gone})
        /\ w.items \in Rows(Promotions, Rows(Listings, Nat))
    <3>1. w.promotions \in Rows(Promotions, PromotionRow \cup {Gone}) /\ w.items \in Rows(Promotions, Rows(Listings, Nat))
      BY DEF Writes
    <3> QED BY <3>1, RowsWider
  <2>3. /\ promotions' \in [Promotions -> PromotionRow \cup {None, Gone}]
        /\ items' \in [Promotions -> Rows(Listings, Nat)]
    BY <1>0 DEF Typed, Tables
  <2>4. heads2 = Over(w.promotions, promotions') /\ members2 = Over(w.items, items')
    BY <1>1, <2>1 DEF SeenPromotions, SeenItems
  <2> QED BY <2>1, <2>2, <2>3, <2>4, OverWhole
<1>4. ASSUME NEW p \in Promotions
      PROVE  /\ l \in DOMAIN members[p] <=> l \in DOMAIN members2[p]
             /\ l \in DOMAIN members[p] => members2[p][l] = members[p][l] /\ heads2[p] = heads[p]
  <2>1. CASE p \in DOMAIN tx[k].items
    <3>1. p \in DOMAIN tx[k].promotions
      BY <2>1, WrotePromotions
    <3>2. members2[p] = members[p] /\ heads2[p] = heads[p]
      BY <1>2, <1>3, <2>1, <3>1
    <3> QED BY <3>2
  <2>2. CASE p \notin DOMAIN tx[k].items
    <3>1. members[p] = items[p] /\ members2[p] = items'[p]
      BY <1>2, <1>3, <2>2
    <3>2. promotions'[p] = promotions[p] => heads2[p] = heads[p]
      BY <1>2, <1>3
    <3> QED BY <3>1, <3>2 DEF MembersStay
  <2> QED BY <2>1, <2>2
<1> QED BY <1>1, <1>4, OffersSame

\* What another request knows stays up to date.
LEMMA OthersUpToDate ==
    ASSUME Transacted, Transacted', NEW k \in Active, UpToDate(k), req[k].kind \notin OfAll,
           pc'[k] = pc[k], req'[k] = req[k], tx'[k] = tx[k], UNCHANGED <<settings, today, lastRun>>,
           \A l \in req[k].where : MembersStay(l) /\ RowStaysFor(k, l)
    PROVE  UpToDate(k)'
<1>0. Typed /\ Typed' /\ k \in Handlers
  BY DEF Transacted, Active
<1>1. PICK q \in RequestRow : q = req[k] /\ InPlace(pc[k], q)
  BY <1>0 DEF Typed
<1>2. pc[k] # "scope" /\ Recalculates(k)' = Recalculates(k)
  BY <1>1 DEF InPlace, OfAll, Recalculates
<1>3. SUFFICES ASSUME Recalculates(k)
               PROVE  (/\ req[k].now \in lastRun..today
                       /\ FreshConfig(req[k]) /\ FreshOffers(k) /\ FreshPrices(k))'
  BY <1>1, <1>2 DEF UpToDate
<1>4. q.now \in lastRun..today /\ FreshConfig(q) /\ FreshOffers(k) /\ FreshPrices(k)
  BY <1>1, <1>3 DEF UpToDate
<1>5. FreshConfig(q)'
  BY <1>4 DEF FreshConfig
<1>6. \A l \in q.where : SeenOffers(k, l)' = SeenOffers(k, l)
  BY <1>0, <1>1, OffersStay DEF SeenOffers
<1>7. FreshOffers(k)'
  BY <1>1, <1>4, <1>6 DEF FreshOffers
<1>8. \A l : LookedAt(k, l)' = LookedAt(k, l)
  BY DEF LookedAt
<1>9. ASSUME NEW l \in q.where
      PROVE  \/ SeenListings(k)'[l] = SeenListings(k)[l]
             \/ /\ Exists(SeenListings(k)[l]) /\ Exists(SeenListings(k)'[l])
                /\ Target(SeenListings(k)'[l]) = Target(SeenListings(k)[l])
                /\ SeenListings(k)[l].promotionId # None
                /\ l \notin DOMAIN SeenItems(k)[SeenListings(k)[l].promotionId]
  <2>1. l \in Listings
    BY DEF RequestRow
  <2>2. SeenListings(k)[l] = IF l \in DOMAIN tx[k].listings THEN tx[k].listings[l] ELSE listings[l]
    BY <1>0, <2>1, SeenTyped
  <2>3. SeenListings(k)'[l] = IF l \in DOMAIN tx[k].listings THEN tx[k].listings[l] ELSE listings'[l]
    <3>1. PICK w \in Writes : w = tx[k]
      BY <1>0 DEF Typed
    <3>2. w.listings \in Rows(Listings, ListingRow \cup {None, Gone})
      <4>1. w.listings \in Rows(Listings, ListingRow)
        BY DEF Writes
      <4> QED BY <4>1, RowsWider
    <3>3. listings' \in [Listings -> ListingRow \cup {None, Gone}]
      BY <1>0 DEF Typed, Tables
    <3>4. SeenListings(k)' = Over(w.listings, listings')
      BY <3>1 DEF SeenListings
    <3> QED BY <2>1, <3>1, <3>2, <3>3, <3>4, OverWhole
  <2>4. RowStaysFor(k, l)
    BY <1>1
  <2>5. CASE l \in DOMAIN tx[k].listings
    BY <2>2, <2>3, <2>5
  <2>6. CASE l \notin DOMAIN tx[k].listings
    BY <2>2, <2>3, <2>4, <2>6 DEF RowStaysFor
  <2> QED BY <2>5, <2>6
<1>10. ASSUME NEW l \in q.where PROVE Due(k, l)' = Due(k, l) /\ (Exists(SeenListings(k)'[l]) <=> Exists(SeenListings(k)[l]))
  <2>1. PICK row, seen : row = SeenListings(k)'[l] /\ seen = SeenListings(k)[l]
    OBVIOUS
  <2>2. Target(row) = Target(seen) /\ (Exists(row) <=> Exists(seen))
    BY <1>9, <2>1
  <2>3. Due(k, l)' = Resolved(row, q.config, OffersFor(l, q.promotions), q.now)
    BY <1>1, <2>1 DEF Due
  <2>4. Due(k, l) = Resolved(seen, q.config, OffersFor(l, q.promotions), q.now)
    BY <1>1, <2>1 DEF Due
  <2> QED BY <2>1, <2>2, <2>3, <2>4, ResolvedTarget
<1>11. ASSUME NEW l \in q.where, Exists(SeenListings(k)'[l]), LookedAt(k, l)
       PROVE  PriceOf(SeenListings(k)'[l]) = Due(k, l) \/ \E u \in q.todo : u.id = l
  <2>1. CASE SeenListings(k)'[l] = SeenListings(k)[l]
    BY <1>1, <1>4, <1>11, <2>1 DEF FreshPrices
  <2>2. CASE SeenListings(k)'[l] # SeenListings(k)[l]
    <3>1. /\ Exists(SeenListings(k)[l]) /\ SeenListings(k)[l].promotionId # None
          /\ l \notin DOMAIN SeenItems(k)[SeenListings(k)[l].promotionId] /\ l \in Listings
      BY <1>9, <2>2 DEF RequestRow
    <3>2. PriceOf(SeenListings(k)[l]) # Due(k, l)
      <4>1. SUFFICES ASSUME PriceOf(SeenListings(k)[l]) = Due(k, l) PROVE FALSE
        OBVIOUS
      <4>2. Due(k, l).promotionId = SeenListings(k)[l].promotionId
        <5>1. PriceOf(SeenListings(k)[l]).promotionId = SeenListings(k)[l].promotionId
          BY DEF PriceOf
        <5> QED BY <4>1, <5>1
      <4>3. HasRead(q) /\ q.reads = {}
        BY <1>1, <1>11 DEF LookedAt, InPlace, Recalculating
      <4>4. \E o \in OffersFor(l, q.promotions) : o.promotionId = Due(k, l).promotionId
        BY <1>0, <1>1, <3>1, <4>2, <4>3, DueIsWhole
      <4>5. OffersFor(l, q.promotions) = SeenOffers(k, l)
        BY <1>1, <1>4, <4>3 DEF FreshOffers
      <4>6. \A o \in SeenOffers(k, l) : l \in DOMAIN SeenItems(k)[o.promotionId]
        BY LoadedLive DEF SeenOffers
      <4> QED BY <3>1, <4>2, <4>4, <4>5, <4>6
    <3> QED BY <1>1, <1>4, <1>11, <3>1, <3>2 DEF FreshPrices
  <2> QED BY <2>1, <2>2
<1>12. \A u \in q.todo : u.id \in q.where
  BY <1>1 DEF InPlace, ToWrite
<1>13. FreshPrices(k)'
  BY <1>1, <1>4, <1>8, <1>10, <1>11, <1>12 DEF FreshPrices
<1> QED BY <1>1, <1>4, <1>5, <1>7, <1>13

\* A listing that is right is in the promotion that it names.
LEMMA RightNames ==
    ASSUME Typed, NEW l \in Listings, Exists(listings[l]), NEW n, Right(l, n), listings[l].promotionId # None
    PROVE  l \in DOMAIN items[listings[l].promotionId]
<1>0. Tables
  BY DEF Typed
<1>1. PICK row \in ListingRow : row = listings[l]
  BY <1>0, ExistsRow DEF Tables
<1>2. PICK loaded \in SUBSET Candidate : loaded = LoadPromotions(promotions, items, n)
  BY <1>0, LoadedTyped DEF Tables
<1>3. PICK offers \in SUBSET Offered : offers = OffersFor(l, loaded)
  BY OffersTyped
<1>4. PICK config \in PriceConfig : config = settings
  BY <1>0, SettingsPrice DEF Tables
<1>5. PICK p : p = Resolved(row, config, offers, n)
  OBVIOUS
<1>6. row.costPrice \in Nat /\ row.customMarkupBps \in Nat \cup {None}
  BY DEF ListingRow
<1>7. p.promotionId # None => \E o \in offers : o.promotionId = p.promotionId
  BY <1>5, <1>6, ResolvedIsWhole
<1>8. p.promotionId = row.promotionId
  <2>1. PriceOf(row) = p
    BY <1>1, <1>2, <1>3, <1>4, <1>5 DEF Right, PresentPrice
  <2>2. PriceOf(row).promotionId = row.promotionId
    BY DEF PriceOf
  <2> QED BY <2>1, <2>2
<1> QED BY <1>1, <1>2, <1>3, <1>7, <1>8, LoadedLive

\* A listing whose row and promotions stay is right as it was.
LEMMA MembersStayRight ==
    ASSUME NEW l, MembersStay(l), listings'[l] = listings[l], UNCHANGED settings, NEW n, Right(l, n)
    PROVE  Right(l, n)'
<1>1. PICK heads, members, heads2, members2 :
        heads = promotions /\ members = items /\ heads2 = promotions' /\ members2 = items'
  OBVIOUS
<1>2. \A p \in Promotions :
         /\ l \in DOMAIN members[p] <=> l \in DOMAIN members2[p]
         /\ l \in DOMAIN members[p] => members2[p][l] = members[p][l] /\ heads2[p] = heads[p]
  BY <1>1 DEF MembersStay
<1>3. OffersFor(l, LoadPromotions(heads2, members2, n)) = OffersFor(l, LoadPromotions(heads, members, n))
  BY <1>2, OffersSame
<1> QED BY <1>1, <1>3 DEF Right, PresentPrice

LEMMA DeletePrices ==
    ASSUME Transacted, Disjoint, Prices, Transacted', NEW h \in Handlers, Delete(h)
    PROVE  Prices'
<1>0. Typed /\ Tables /\ Typed'
  BY DEF Transacted, Typed
<1>1. /\ h \in Active /\ req[h].kind = "remove" /\ req[h].id \in Listings /\ About(req[h]) = {req[h].id}
      /\ Active' = Active \ {h} /\ \A k \in Handlers \ {h} : pc'[k] = pc[k] /\ req'[k] = req[k]
      /\ listings' = [listings EXCEPT ![req[h].id] = Gone]
      /\ \A p \in Promotions : /\ DOMAIN items'[p] = DOMAIN items[p] \ {req[h].id}
                               /\ \A l \in DOMAIN items'[p] : items'[p][l] = items[p][l]
      /\ UNCHANGED <<promotions, settings, today, lastRun, tx, sound>>
  BY DeleteIs
<1>2. ASSUME NEW l \in Listings \ {req[h].id} PROVE listings'[l] = listings[l] /\ MembersStay(l)
  BY <1>0, <1>1 DEF MembersStay, Tables
<1>3. ~Exists(listings'[req[h].id])
  BY <1>0, <1>1 DEF Tables, Exists
<1>4. lastRun' <= today'
  BY <1>1 DEF Prices
<1>5. ASSUME Quiet', NEW l \in sound', Exists(listings'[l]) PROVE RightSince(l, lastRun)'
  <2>1. Quiet
    BY <1>1, <1>5 DEF Quiet, OfAll, Active
  <2>2. l \in Listings \ {req[h].id} /\ l \in sound
    BY <1>0, <1>1, <1>3, <1>5 DEF Tables
  <2>3. RightSince(l, lastRun)
    BY <1>2, <1>5, <2>1, <2>2 DEF Prices
  <2>4. PICK n \in lastRun..today : Right(l, n)
    BY <2>3 DEF RightSince
  <2>5. Right(l, n)'
    BY <1>1, <1>2, <2>2, <2>4, MembersStayRight
  <2> QED BY <1>1, <2>4, <2>5 DEF RightSince
<1>6. ASSUME NEW k \in Active', req'[k].alone PROVE UpToDate(k)'
  <2>1. k \in Active \ {h} /\ pc'[k] = pc[k] /\ req'[k] = req[k] /\ tx'[k] = tx[k] /\ UpToDate(k)
    BY <1>1, <1>6 DEF Prices, Active
  <2>2. Apart(req[k], req[h])
    BY <1>1, <1>6, <2>1 DEF Disjoint, Overlaps, OverlapsOf
  <2>3. req[k].kind \notin OfAll /\ req[h].id \notin About(req[k])
    BY <1>1, <2>2 DEF Apart
  <2>4. req[k].where \subseteq Listings
    BY <1>0, <2>1, ActiveIs DEF RequestRow
  <2>5. CASE Recalculates(k)
    <3>1. req[k].kind \in Transactional /\ Asks(req[k])
      BY <1>0, <2>1, <2>3, <2>5, ActiveIs DEF Recalculates, InPlace, Recalculating
    <3>2. About(req[k]) = req[k].where
      BY <3>1, AboutWhere
    <3>3. \A l \in req[k].where : MembersStay(l) /\ RowStaysFor(k, l)
      BY <1>2, <2>3, <2>4, <3>2 DEF RowStaysFor
    <3> QED BY <1>1, <2>1, <2>3, <3>3, OthersUpToDate
  <2>6. CASE ~Recalculates(k)
    <3>1. pc[k] # "scope"
      BY <1>0, <2>1, <2>3, ActiveIs DEF InPlace, OfAll
    <3> QED BY <2>1, <2>6, <3>1 DEF UpToDate, Recalculates
  <2> QED BY <2>5, <2>6
<1> QED BY <1>4, <1>5, <1>6 DEF Prices


\* What a commit does to a listing that it has not recalculated: nothing, or the
\* listing loses a promotion that is deleted.
LEMMA CommitRows ==
    ASSUME Transacted, NEW h \in Handlers, Commit(h), NEW l \in Listings, l \notin req[h].where
    PROVE  \/ listings'[l] = listings[l]
           \/ /\ req[h].kind \in OnPromotion /\ listings[l] \in ListingRow /\ Exists(listings[l])
              /\ listings[l].promotionId = req[h].id
              /\ listings'[l] = [listings[l] EXCEPT !.promotionId = None]
<1>0. Typed /\ Tables
  BY DEF Transacted, Typed
<1>1. PICK q, w, stage : q = req[h] /\ w = tx[h] /\ stage = pc[h]
  OBVIOUS
<1>2. listings'[l] = IF l \in DOMAIN w.listings THEN w.listings[l] ELSE listings[l]
  BY <1>0, <1>1, CommitIs, SeenTyped
<1>3. CASE l \notin DOMAIN w.listings
  BY <1>2, <1>3
<1>4. CASE l \in DOMAIN w.listings
  <2>1. Wrote(stage, q, w)
    BY <1>1 DEF Transacted
  <2>2. w # NoTx
    BY <1>4, NothingWritten, EmptyRows
  <2>3. Marked(q, w, l)
    BY <1>1, <1>4, <2>1, <2>2 DEF Wrote
  <2>4. listings[l] \in ListingRow
    BY <1>0, <2>3, ExistsRow DEF Tables, Marked
  <2> QED BY <1>1, <1>2, <1>4, <2>3, <2>4 DEF Marked, OnPromotion
<1> QED BY <1>3, <1>4

LEMMA CommitMembers ==
    ASSUME Transacted, NEW h \in Handlers, Commit(h), NEW l, l \notin req[h].where, l \notin Members(req[h])
    PROVE  MembersStay(l)
<1>1. PICK q : q = req[h]
  OBVIOUS
<1>2. ASSUME NEW p \in Promotions
      PROVE  /\ l \in DOMAIN items'[p] <=> l \in DOMAIN items[p]
             /\ l \in DOMAIN items[p] => items'[p][l] = items[p][l] /\ promotions'[p] = promotions[p]
  <2>1. CASE items'[p] = items[p] /\ promotions'[p] = promotions[p]
    BY <2>1
  <2>2. CASE ~(items'[p] = items[p] /\ promotions'[p] = promotions[p])
    <3>1. q.kind \in OnPromotion /\ p = q.id /\ (items'[p] = items[p] \/ DOMAIN items'[p] \subseteq q.where)
      BY <1>1, <2>2, CommitIs
    <3>2. l \notin DOMAIN items[p]
      BY <1>1, <3>1 DEF Members
    <3>3. l \notin DOMAIN items'[p]
      BY <1>1, <3>1, <3>2
    <3> QED BY <3>2, <3>3
  <2> QED BY <2>1, <2>2
<1> QED BY <1>2 DEF MembersStay

\* The row of a listing that a recalculation has priced is right.
LEMMA CommitRight ==
    ASSUME Transacted, NEW h \in Handlers, Commit(h), UpToDate(h), ~req[h].stale, NEW l \in req[h].where,
           Exists(listings'[l])
    PROVE  RightSince(l, lastRun)'
<1>1. /\ pc[h] = "commit" /\ h \in Active
      /\ listings' = SeenListings(h) /\ promotions' = SeenPromotions(h) /\ items' = SeenItems(h)
      /\ UNCHANGED <<settings, today, lastRun>>
  BY CommitIs
<1>2. Recalculates(h)
  BY <1>1 DEF Recalculates
<1>3. PICK n : n = req[h].now
  OBVIOUS
<1>4. /\ n \in lastRun..today
      /\ PriceOf(SeenListings(h)[l]) = Resolved(SeenListings(h)[l], settings, SeenOffers(h, l), n)
  BY <1>1, <1>2, <1>3, RecalculationOver
<1>5. SeenOffers(h, l) = OffersFor(l, LoadPromotions(promotions', items', n))
  BY <1>1, <1>3 DEF SeenOffers
<1>6. Right(l, n)'
  BY <1>1, <1>4, <1>5 DEF Right, PresentPrice
<1> QED BY <1>1, <1>4, <1>6 DEF RightSince

\* Another request that is alone does not notice a commit.
LEMMA CommitUnnoticed ==
    ASSUME Transacted, Disjoint, Prices, Transacted', NEW h \in Handlers, Commit(h), NEW k \in Active', req'[k].alone
    PROVE  UpToDate(k)'
<1>0. Typed /\ Tables /\ Typed'
  BY DEF Transacted, Typed
<1>1. /\ h \in Active /\ About(req[h]) = req[h].where
      /\ Active' = Active \ {h} /\ \A j \in Handlers \ {h} : pc'[j] = pc[j] /\ req'[j] = req[j] /\ tx'[j] = tx[j]
      /\ UNCHANGED <<settings, today, lastRun>>
  BY CommitIs
<1>2. k \in Active \ {h} /\ k \in Handlers /\ pc'[k] = pc[k] /\ req'[k] = req[k] /\ tx'[k] = tx[k] /\ UpToDate(k)
  BY <1>1 DEF Prices, Active
<1>3. Apart(req[k], req[h])
  BY <1>1, <1>2 DEF Disjoint, Overlaps, OverlapsOf
<1>4. req[k].kind \notin OfAll /\ InPlace(pc[k], req[k]) /\ Asks(req[k]) /\ req[k] \in RequestRow
  BY <1>0, <1>2, <1>3, ActiveIs DEF Apart
<1>5. CASE Recalculates(k)
  <2>1. req[k].kind \in Transactional
    BY <1>4, <1>5 DEF Recalculates, InPlace, Recalculating
  <2>2. About(req[k]) = req[k].where /\ req[k].where \subseteq Listings
    BY <1>4, <2>1, AboutWhere DEF RequestRow
  <2>3. ASSUME NEW l \in req[k].where PROVE MembersStay(l) /\ RowStaysFor(k, l)
    <3>1. l \in Listings /\ l \notin req[h].where /\ l \notin Members(req[h])
      BY <1>1, <1>3, <2>2 DEF Apart
    <3>2. MembersStay(l)
      BY <3>1, CommitMembers
    <3>3. CASE listings'[l] = listings[l]
      BY <3>2, <3>3 DEF RowStaysFor
    <3>4. CASE listings'[l] # listings[l]
      <4>1. PICK row \in ListingRow, p \in {req[h].id} : row = listings[l]
        BY <3>1, <3>4, CommitRows
      <4>2. /\ req[h].kind \in OnPromotion /\ Exists(row) /\ row.promotionId = p
            /\ listings'[l] = [row EXCEPT !.promotionId = None]
        BY <3>1, <3>4, <4>1, CommitRows
      <4>3. p \in Promotions /\ p # None
        <5>1. p \in Promotions
          BY <1>0, <1>1, <4>1, <4>2, ActiveIs DEF Asks
        <5>2. Promotions \subseteq Nat
          BY IdsAssumption
        <5> QED BY <5>1, <5>2, NoneIsNoNumber
      <4>4. l \notin DOMAIN items[p]
        BY <3>1, <4>1, <4>2 DEF Members
      <4>5. p \notin DOMAIN tx[k].items
        <5>1. SUFFICES ASSUME p \in DOMAIN tx[k].items PROVE FALSE
          OBVIOUS
        <5>2. p = req[k].id /\ req[k].kind \in OnPromotion
          BY <1>2, <5>1, WrotePromotions
        <5> QED BY <1>3, <4>1, <4>2, <5>2 DEF Apart
      <4>6. SeenItems(k)[p] = items[p]
        BY <1>0, <1>2, <4>3, <4>5, SeenTyped
      <4>7. Exists(listings'[l]) /\ Target(listings'[l]) = Target(row)
        <5>1. [row EXCEPT !.promotionId = None] \in ListingRow /\ Target([row EXCEPT !.promotionId = None]) = Target(row)
          BY DEF ListingRow, Target
        <5> QED BY <4>2, <5>1, ExistsRow
      <4> QED BY <3>2, <4>1, <4>2, <4>3, <4>4, <4>6, <4>7 DEF RowStaysFor
    <3> QED BY <3>3, <3>4
  <2> QED BY <1>0, <1>1, <1>2, <1>4, <2>3, OthersUpToDate
<1>6. CASE ~Recalculates(k)
  <2>1. pc[k] # "scope"
    BY <1>4 DEF InPlace, OfAll
  <2> QED BY <1>2, <1>6, <2>1 DEF UpToDate, Recalculates
<1> QED BY <1>5, <1>6

LEMMA CommitPrices ==
    ASSUME Transacted, Disjoint, Prices, Transacted', NEW h \in Handlers, Commit(h)
    PROVE  Prices'
<1>0. Typed /\ Tables /\ Typed'
  BY DEF Transacted, Typed
<1>1. /\ h \in Active /\ req[h].kind \notin OfAll /\ About(req[h]) = req[h].where
      /\ Active' = Active \ {h} /\ \A k \in Handlers \ {h} : pc'[k] = pc[k] /\ req'[k] = req[k]
      /\ UNCHANGED <<settings, today, lastRun>> /\ sound' = Vouched(h)
  BY CommitIs
<1>2. lastRun' <= today'
  BY <1>1 DEF Prices
<1>3. OverlapsOf(h)
  BY <1>1 DEF Disjoint, Overlaps
<1>4. ASSUME Quiet', NEW l \in sound', Exists(listings'[l]) PROVE RightSince(l, lastRun)'
  <2>1. Quiet
    BY <1>1, <1>4 DEF Quiet, Active
  <2>2. CASE l \in req[h].where
    <3>1. req[h].alone
      <4>1. SUFFICES ASSUME ~req[h].alone PROVE FALSE
        OBVIOUS
      <4>2. l \in sound
        BY <1>1, <1>4, <4>1 DEF Vouched
      <4> QED BY <1>1, <1>3, <2>2, <4>1, <4>2 DEF OverlapsOf
    <3>2. ~req[h].stale
      BY <1>1, <1>4, <2>2, <3>1 DEF Vouched
    <3>3. UpToDate(h)
      BY <1>1, <3>1 DEF Prices
    <3> QED BY <1>4, <2>2, <3>2, <3>3, CommitRight
  <2>3. CASE l \notin req[h].where
    <3>1. l \in sound /\ l \in Listings
      BY <1>0, <1>1, <1>4, <2>3 DEF Vouched, Tables
    <3>2. l \notin Members(req[h])
      BY <1>1, <1>3, <2>3, <3>1 DEF OverlapsOf
    <3>3. Exists(listings[l])
      BY <1>4, <2>3, <3>1, CommitRows
    <3>4. PICK n \in lastRun..today : Right(l, n)
      BY <2>1, <3>1, <3>3 DEF Prices, RightSince
    <3>5. listings'[l] = listings[l]
      <4>1. SUFFICES ASSUME listings'[l] # listings[l] PROVE FALSE
        OBVIOUS
      <4>2. req[h].kind \in OnPromotion /\ listings[l].promotionId = req[h].id
        BY <2>3, <3>1, <4>1, CommitRows
      <4>3. req[h].id \in Promotions
        BY <1>0, <1>1, <4>2, ActiveIs DEF Asks
      <4>4. listings[l].promotionId # None
        <5>1. PICK p \in Promotions : p = req[h].id
          BY <4>3
        <5>2. p # None
          BY IdsAssumption, NoneIsNoNumber
        <5> QED BY <4>2, <5>1, <5>2
      <4>5. l \in DOMAIN items[req[h].id]
        BY <1>0, <3>1, <3>3, <3>4, <4>2, <4>4, RightNames
      <4> QED BY <3>2, <4>2, <4>5 DEF Members
    <3>6. MembersStay(l)
      BY <2>3, <3>2, CommitMembers
    <3>7. Right(l, n)'
      BY <1>1, <3>4, <3>5, <3>6, MembersStayRight
    <3> QED BY <1>1, <3>4, <3>7 DEF RightSince
  <2> QED BY <2>2, <2>3
<1>5. ASSUME NEW k \in Active', req'[k].alone PROVE UpToDate(k)'
  BY <1>5, CommitUnnoticed
<1> QED BY <1>2, <1>4, <1>5 DEF Prices


LEMMA NextPrices ==
    ASSUME Transacted, Disjoint, Prices, [Next]_vars
    PROVE  Prices'
<1>1. Transacted' /\ Disjoint'
  BY NextTransacted, NextDisjoint
<1>2. ASSUME NEW h \in Handlers, Accepted(h) \/ Restart(h) \/ Works(h) \/ Ends(h) \/ Delete(h)
      PROVE  Prices'
  BY <1>1, <1>2, AcceptedPrices, RestartPrices, WorksPrices, EndsPrices, DeletePrices
<1>3. ASSUME NEW h \in Handlers, Read(h) \/ ReadPage(h) \/ WritePrices(h) \/ Commit(h) \/ Done(h) \/ Bump(h)
      PROVE  Prices'
  BY <1>1, <1>3, ReadPrices, ReadPagePrices, WritePricesPrices, CommitPrices, DonePrices, BumpPrices
<1> QED BY <1>1, <1>2, <1>3, NextIs, ClockPrices

LEMMA InitPrices ==
    ASSUME Init
    PROVE  Prices
<1>1. PICK b \in Beginnings :
          /\ promotions = b.promotions /\ items = b.items /\ settings = b.settings
          /\ listings = [l \in Listings |->
                IF b.targets[l] = None THEN None
                ELSE Repriced(Fresh(b.targets[l]),
                        Resolved(b.targets[l], b.settings,
                                 OffersFor(l, LoadPromotions(b.promotions, b.items, 0)), 0))]
  BY DEF Init
<1>2. today = 0 /\ lastRun = 0 /\ sound = Listings /\ Active = {}
  BY DEF Init, Active
<1>3. ASSUME NEW l \in Listings, Exists(listings[l]) PROVE Right(l, 0)
  <2>1. PICK t : t = b.targets[l]
    OBVIOUS
  <2>2. PICK p : p = Resolved(t, b.settings, OffersFor(l, LoadPromotions(b.promotions, b.items, 0)), 0)
    OBVIOUS
  <2>3. PICK row : row = Repriced(Fresh(t), p)
    OBVIOUS
  <2>4. t # None
    BY <1>1, <1>3, <2>1 DEF Exists
  <2>5. listings[l] = row
    BY <1>1, <2>1, <2>2, <2>3, <2>4
  <2>6. PriceOf(row) = p /\ Target(row) = Target(t)
    BY <2>1, <2>2, <2>3, <2>4, FirstPrice
  <2>7. Resolved(row, b.settings, OffersFor(l, LoadPromotions(b.promotions, b.items, 0)), 0) = p
    BY <2>2, <2>6, ResolvedTarget
  <2> QED BY <1>1, <2>5, <2>6, <2>7 DEF Right, PresentPrice
<1>4. ASSUME NEW l \in sound, Exists(listings[l]) PROVE RightSince(l, lastRun)
  <2>1. Right(l, 0) /\ 0 \in 0..0
    BY <1>2, <1>3, <1>4
  <2> QED BY <1>2, <2>1 DEF RightSince
<1> QED BY <1>2, <1>4 DEF Prices

LEMMA PricesResolved ==
    ASSUME Transacted, Prices
    PROVE  PricesAreResolved
<1>1. today \in Nat
  BY DEF Transacted, Typed, Tables
<1>2. SUFFICES ASSUME Settled, NEW l \in sound, Exists(listings[l])
               PROVE  PriceOf(listings[l]) = PresentPrice(l, today)
  BY DEF PricesAreResolved
<1>3. lastRun = today /\ Quiet
  <2>1. ASSUME NEW k \in Active PROVE req[k].kind \notin OfAll
    BY <1>2 DEF Settled, InTx, Transactional, OfAll
  <2> QED BY <1>2, <2>1 DEF Settled, Quiet
<1>4. PICK n \in today..today : Right(l, n)
  BY <1>2, <1>3 DEF Prices, RightSince
<1>5. n = today
  BY <1>1
<1> QED BY <1>4, <1>5 DEF Right

\* pricing.service.ts:38-41: whenever no change of the settings and no midnight waits for
\* its recalculation, every listing that no overlapping request has disturbed carries the
\* price that the present settings, priorities, promotions and cost resolve to; and
\* whatever overlapped, a discount is whole.
THEOREM PricesAreRight == Spec => []PricesHold
<1> DEFINE Inv == Transacted /\ Disjoint /\ Prices
<1>1. Init => Inv
  BY InitTransacted, InitDisjoint, InitPrices
<1>2. Inv /\ [Next]_vars => Inv'
  BY NextTransacted, NextDisjoint, NextPrices
<1>3. Inv => PricesHold
  BY TransactedWhole, PricesResolved DEF PricesHold
<1> QED BY <1>1, <1>2, <1>3, PTL DEF Spec
=============================================================================
