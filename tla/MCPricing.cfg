SPECIFICATION Spec
CONSTANTS
    None = None
    Keep = Keep
    Gone = Gone
    Handlers = {h1, h2}
    Listings = {1, 2}
    Promotions = {1}
    ListingDtos <- MCListingDtos
    PromotionDtos <- MCPromotionDtos
    SettingsDtos <- MCSettingsDtos
    Beginnings <- MCBeginnings
    Sales <- MCSales
    PageSize = 2
    UpdateChunk = 1
    LastDay = 1
    MaxRequests = 2
INVARIANT PricesHold
SYMMETRY Symmetry
CHECK_DEADLOCK FALSE
