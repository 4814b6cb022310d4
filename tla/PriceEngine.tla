---------------------------- MODULE PriceEngine ----------------------------
(***************************************************************************)
(* The price of a listing as a function of its inputs                      *)
(* (src/src/pricing/price-engine.ts).  Pure: no variables.  Money is in    *)
(* tiyin and percents in basis points, both whole numbers; a point in time *)
(* is a day number, as dates of promotions are midnights.                  *)
(***************************************************************************)
EXTENDS Integers, Sequences

CONSTANT None   \* null

ASSUME NoneIsNoNumber == None \notin Int

BPS == 10000

Source == {"PROMOTION", "LISTING_MARKUP", "BASE_MARKUP"}

\* DEFAULT_PRICE_ORDER and the other order setPriorities accepts: BASE_MARKUP
\* is last.
PriceOrder == {<<"PROMOTION", "LISTING_MARKUP", "BASE_MARKUP">>,
               <<"LISTING_MARKUP", "PROMOTION", "BASE_MARKUP">>}

\* The greatest of a and b, and of a finite set of numbers.
Larger(a, b) == IF a >= b THEN a ELSE b

Greatest(S) == CHOOSE x \in S : \A y \in S : y <= x

\* Math.ceil of a quotient.
CeilDiv(amount, by) == (amount + by - 1) \div by

ApplyBps(amount, bps) == CeilDiv(amount * (BPS + bps), BPS)

RoundUp(amount, step) == IF step > 1 THEN CeilDiv(amount, step) * step ELSE amount

IsInWindow(p, now) ==
    /\ p.startsAt # None => now >= p.startsAt
    /\ p.endsAt # None => now < p.endsAt

\* assertPeriod (promotions.service.ts)
PeriodIsRight(startsAt, endsAt) ==
    startsAt # None /\ endsAt # None => startsAt < endsAt

-----------------------------------------------------------------------------
(* The base markup: tiers of cost, each with its percent *)

\* The tiers the loop enters, the first apart.
Entered(cost, tiers) ==
    {i \in 2..Len(tiers) : \A j \in 2..i : tiers[j].minCost <= cost}

TierOf(cost, tiers) == tiers[Greatest({1} \cup Entered(cost, tiers))]

\* Slip: a tier begins with its own percent, whatever the tier below reached.
BaseMarkupWithoutFloor(cost, tiers) ==
    IF tiers = <<>> THEN [price |-> cost, markupBps |-> 0]
    ELSE [price |-> ApplyBps(cost, TierOf(cost, tiers).markupBps),
          markupBps |-> TierOf(cost, tiers).markupBps]

\* No less than what the last tiyin of any lower tier costs.
BaseMarkup(cost, tiers) ==
    IF tiers = <<>> THEN [price |-> cost, markupBps |-> 0]
    ELSE LET bps == TierOf(cost, tiers).markupBps
             floors == {ApplyBps(tiers[i].minCost - 1, tiers[i - 1].markupBps) :
                           i \in Entered(cost, tiers)}
         IN  [price |-> Larger(ApplyBps(cost, bps), Greatest({0} \cup floors)),
              markupBps |-> bps]

\* What a listing costs without a promotion.
RegularPrice(target, config, custom) ==
    LET raw == IF custom /\ target.customMarkupBps # None
               THEN [price |-> ApplyBps(target.costPrice, target.customMarkupBps),
                     markupBps |-> target.customMarkupBps]
               ELSE BaseMarkup(target.costPrice, config.markupTiers)
    IN  [raw EXCEPT !.price =
            Larger(RoundUp(raw.price, config.roundingStep), target.costPrice)]

-----------------------------------------------------------------------------
(* Promotions: a candidate is the promotion's id, window and price for this listing *)

PriceBy(target, p) == Larger(p.promoPrice, target.costPrice)

Open(promotions, now) == {p \in promotions : IsInWindow(p, now)}

\* The cheapest, the one with the least id among equals.
BestPromotion(target, promotions, now) ==
    CHOOSE p \in Open(promotions, now) :
        \A q \in Open(promotions, now) :
            \/ PriceBy(target, p) < PriceBy(target, q)
            \/ /\ PriceBy(target, p) = PriceBy(target, q)
               /\ p.promotionId <= q.promotionId

\* Slip: a promotion at the regular price is applied too.
PromotionAppliesAnyway(target, config, promotions, now) ==
    Open(promotions, now) # {}

PromotionApplies(target, config, promotions, now) ==
    /\ Open(promotions, now) # {}
    /\ PriceBy(target, BestPromotion(target, promotions, now))
           < RegularPrice(target, config, TRUE).price

Applies(source, target, config, promotions, now) ==
    CASE source = "PROMOTION"      -> PromotionApplies(target, config, promotions, now)
      [] source = "LISTING_MARKUP" -> target.customMarkupBps # None
      [] OTHER                     -> TRUE

\* Whole, without a promotion.
Plain(regular, source) ==
    [price |-> regular.price, oldPrice |-> None, promotionId |-> None,
     source |-> source, markupBps |-> regular.markupBps]

\* The first source that applies; past the end of an order without BASE_MARKUP it
\* is BASE_MARKUP.
FirstSource(target, config, promotions, now) ==
    LET order == config.order
        hits == {i \in DOMAIN order : Applies(order[i], target, config, promotions, now)}
    IN  IF hits = {} THEN "BASE_MARKUP"
        ELSE order[CHOOSE i \in hits : \A j \in hits : i <= j]

ResolvePrice(target, config, promotions, now) ==
    LET regular == RegularPrice(target, config, TRUE)
        source == FirstSource(target, config, promotions, now)
        best == BestPromotion(target, promotions, now)
    IN  CASE source = "PROMOTION" ->
                [price |-> PriceBy(target, best), oldPrice |-> regular.price,
                 promotionId |-> best.promotionId, source |-> source,
                 markupBps |-> regular.markupBps]
          [] source = "LISTING_MARKUP" -> Plain(regular, source)
          [] OTHER -> Plain(RegularPrice(target, config, FALSE), "BASE_MARKUP")
=============================================================================
