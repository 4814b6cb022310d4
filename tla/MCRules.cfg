SPECIFICATION Spec
CONSTANTS
    None = None
    Null = Null
    Unparsable = Unparsable
    MaxOrders = 3
    Questions <- MCQuestions
    Instant = 1
    MaxCost = 9
    Versions <- MCVersions
    Patches <- MCPatches
INVARIANT MatchesBackfill
INVARIANT ButtonsWork
INVARIANT EachSeesItsOwn
INVARIANT MoneyAddsUp
INVARIANT PromotionAsAdvertised
INVARIANT PanelAgreesWithEngine
INVARIANT NobodyIsLockedOut
PROPERTY GroupNeverRegresses
PROPERTY DearerCostsNoLess
CHECK_DEADLOCK FALSE
