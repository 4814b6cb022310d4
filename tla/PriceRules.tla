----------------------------- MODULE PriceRules -----------------------------
(***************************************************************************)
(* One question to the price engine whose cost rises, and what the panel   *)
(* shows of the promotions in it (src/src/promotions/promotion.response.ts *)
(* and the filter of promotions.service.ts).  What the shop pays for a     *)
(* listing rises; its markup, the settings and the promotions stay.        *)
(***************************************************************************)
EXTENDS PriceEngine, FiniteSets

CONSTANTS
    Questions,   \* those a price is asked for
    Instant,     \* when they are asked
    MaxCost      \* bound: how far a cost rises

PriceTarget == [costPrice : Nat, customMarkupBps : Nat \cup {None}]

TierSet == Seq([minCost : Nat, markupBps : Nat])

PriceConfig == [markupTiers : TierSet, roundingStep : Nat, order : PriceOrder]

\* What the engine is told of a promotion, for one listing; what the panel reads of it.
Offer == [promotionId : Nat, promoPrice : Nat,
          startsAt : Nat \cup {None}, endsAt : Nat \cup {None}]

Advertised == [promotionId : Nat, promoPrice : Nat, enabled : BOOLEAN,
               startsAt : Nat \cup {None}, endsAt : Nat \cup {None}]

Question == [target : PriceTarget, config : PriceConfig, promotions : SUBSET Advertised]

OneOfEach(ps) == \A p, q \in ps : p.promotionId = q.promotionId => p = q

ASSUME QuestionsAssumption ==
    Questions \subseteq Question /\ \A q \in Questions : OneOfEach(q.promotions)
ASSUME PeriodsAssumption ==
    \A q \in Questions : \A p \in q.promotions : PeriodIsRight(p.startsAt, p.endsAt)
ASSUME InstantAssumption == Instant \in Nat
ASSUME MaxCostAssumption == MaxCost \in Nat

VARIABLE question

-----------------------------------------------------------------------------
(* The engine's answer, and the row of the listing after it *)

\* loadPromotions: switched off or over, a promotion is not a candidate.
CandidatesOf(ps) ==
    {[promotionId |-> p.promotionId, promoPrice |-> p.promoPrice,
      startsAt |-> p.startsAt, endsAt |-> p.endsAt] :
        p \in {q \in ps : q.enabled /\ (q.endsAt = None \/ q.endsAt > Instant)}}

AnswerTo(q) == ResolvePrice(q.target, q.config, CandidatesOf(q.promotions), Instant)

RowAfter(q) ==
    LET a == AnswerTo(q)
    IN  [seller |-> 1, costPrice |-> q.target.costPrice, customMarkupBps |-> q.target.customMarkupBps,
         price |-> a.price, oldPrice |-> a.oldPrice, promotionId |-> a.promotionId,
         source |-> a.source, stock |-> 1, status |-> "ACTIVE"]

-----------------------------------------------------------------------------
(* The panel: promotions [promotionId, enabled, startsAt, endsAt] *)

\* Math.round of a share of the regular price in basis points.
DiscountBps(promoPrice, l) ==
    LET regular == IF l.oldPrice # None THEN l.oldPrice ELSE l.price
    IN  IF regular <= 0 \/ promoPrice >= regular THEN None
        ELSE (2 * (regular - promoPrice) * BPS + regular) \div (2 * regular)

\* Over the members of a promotion: [promoPrice, listing].
MaxDiscountBps(members) ==
    LET shown == {DiscountBps(m.promoPrice, m.listing) : m \in members} \ {None}
    IN  IF shown = {} THEN None ELSE Greatest(shown)

\* Slip: the last instant of a promotion still counts as active.
StateWithLastInstant(p, now) ==
    IF ~p.enabled THEN "disabled"
    ELSE IF p.startsAt # None /\ now < p.startsAt THEN "scheduled"
    ELSE IF p.endsAt # None /\ now > p.endsAt THEN "ended"
    ELSE "active"

PromotionState(p, now) ==
    IF ~p.enabled THEN "disabled"
    ELSE IF p.startsAt # None /\ now < p.startsAt THEN "scheduled"
    ELSE IF p.endsAt # None /\ now >= p.endsAt THEN "ended"
    ELSE "active"

\* stateFilter: the same as a condition on rows, where null compares as false.
InState(p, state, now) ==
    CASE state = "disabled"  -> ~p.enabled
      [] state = "scheduled" -> p.enabled /\ p.startsAt # None /\ p.startsAt > now
      [] state = "ended"     -> p.enabled /\ p.endsAt # None /\ p.endsAt <= now
      [] state = "active"    -> p.enabled /\ IsInWindow(p, now)

PromotionItem(p, m) ==
    [promoPrice |-> m.promoPrice, discountBps |-> DiscountBps(m.promoPrice, m.listing),
     costPrice |-> m.listing.costPrice, price |-> m.listing.price, oldPrice |-> m.listing.oldPrice,
     appliedHere |-> m.listing.promotionId = p.promotionId]

\* The page of a promotion: its head and its lines.
AdminPromotionDetail(p, members, now) ==
    [enabled |-> p.enabled, state |-> PromotionState(p, now),
     maxDiscountBps |-> MaxDiscountBps(members), itemsCount |-> Cardinality(members),
     items |-> {PromotionItem(p, m) : m \in members}]

-----------------------------------------------------------------------------
PriceInit == question \in Questions

RaiseCost ==
    /\ question.target.costPrice < MaxCost
    /\ question' = [question EXCEPT !.target.costPrice = @ + 1]

PriceSpec == PriceInit /\ [][RaiseCost]_question

-----------------------------------------------------------------------------
Regular(q) == RegularPrice(q.target, q.config, TRUE).price

\* price-engine.ts:82-87: of two listings with the same markups, the one that
\* costs the shop more is not cheaper in the storefront, whatever tiers lie between.
DearerCostsNoLess == [][Regular(question') >= Regular(question)]_question

\* price-engine.ts:128-133 and 154-162, told of the outcome: never below cost; a
\* discount is a lower price than the one struck through, by the cheapest promotion
\* that is open; and it is forgone only when it is none, or when the markup of the
\* listing goes first.
PromotionAsAdvertised ==
    LET a == AnswerTo(question)
        cost == question.target.costPrice
        first == question.config.order[1]
        open == {p \in question.promotions :
                    /\ p.enabled
                    /\ p.startsAt = None \/ p.startsAt <= Instant
                    /\ p.endsAt = None \/ Instant < p.endsAt}
        cheapest(price) == \A p \in open : price <= p.promoPrice \/ price = cost
    IN  /\ a.price >= cost
        /\ a.oldPrice = None <=> a.promotionId = None
        /\ a.promotionId # None =>
              /\ a.price < a.oldPrice
              /\ cheapest(a.price)
              /\ \E p \in open : p.promotionId = a.promotionId /\ a.price \in {p.promoPrice, cost}
        /\ a.promotionId = None =>
              \/ \A p \in open : Larger(p.promoPrice, cost) >= a.price
              \/ first = "LISTING_MARKUP" /\ question.target.customMarkupBps # None

\* promotions.service.ts:41 and promotion.response.ts:101: the panel calls a promotion
\* active exactly when the engine may apply it, and lists it under the state it
\* shows; a promotion that gives a listing its price is shown as an active one with
\* a discount, no deeper than the greatest one at its head.
PanelAgreesWithEngine ==
    LET row == RowAfter(question)
        plain == [row EXCEPT !.price = 10, !.oldPrice = None, !.promotionId = None]
    IN  \A p \in question.promotions :
            LET members == {[promoPrice |-> p.promoPrice, listing |-> row],
                            [promoPrice |-> p.promoPrice + 1, listing |-> plain]}
                page == AdminPromotionDetail(p, members, Instant)
            IN  /\ \A s \in {"disabled", "scheduled", "active", "ended"} :
                       InState(p, s, Instant) <=> page.state = s
                /\ page.state = "active"
                       <=> p \in Open({q \in question.promotions : q.enabled}, Instant)
                /\ \A line \in page.items : line.appliedHere =>
                       /\ page.state = "active"
                       /\ line.discountBps # None /\ line.discountBps <= page.maxDiscountBps
=============================================================================
