----------------------------- MODULE MCPricing -----------------------------
(* The instance of Pricing that TLC checks. *)
EXTENDS Pricing, TLC

Flat == <<[minCost |-> 0, markupBps |-> 5000]>>
Stepped == <<[minCost |-> 0, markupBps |-> 6000], [minCost |-> 12, markupBps |-> 2000]>>

Cost(c, bps) == [costPrice |-> c, customMarkupBps |-> bps]
MCListingDtos == {Cost(14, 1000)}

Dto(on, from, to, members) ==
    [enabled |-> on, startsAt |-> from, endsAt |-> to, items |-> members]
MCPromotionDtos ==
    {Dto(FALSE, Keep, Keep, Keep),
     Dto(Keep, 1, Keep, 2 :> 12), Dto(TRUE, None, 1, 2 :> 12)}

\* The first day alone, and the last day alone.
MCPeriodDtos == {Dto(Keep, 1, Keep, Keep), Dto(Keep, Keep, 1, Keep)}

MCSettingsDtos == {[markupTiers |-> Stepped, roundingStep |-> 4]}

MCSales == {{1, 2}}

\* One listing without a markup of its own and one with; a promotion on the first
\* that is open.  Or one listing and no promotion yet.
Beginning(promotion, order) ==
    [targets |-> 1 :> Cost(10, None) @@ 2 :> (IF promotion = None THEN None ELSE Cost(10, 3000)),
     promotions |-> 1 :> promotion,
     items |-> 1 :> (IF promotion = None THEN Empty ELSE 1 :> 11),
     settings |-> [markupTiers |-> Flat, roundingStep |-> 1, order |-> order]]
From(day) == [enabled |-> TRUE, startsAt |-> day, endsAt |-> None]
PromotionFirst == <<"PROMOTION", "LISTING_MARKUP", "BASE_MARKUP">>
MCBeginnings ==
    {Beginning(p, PromotionFirst) : p \in {None, From(None)}}

Symmetry == Permutations(Handlers)
=============================================================================
