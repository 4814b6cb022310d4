SPECIFICATION Spec
CONSTANTS
    None = None
    Gone = Gone
    Keep = Keep
    Super = Super
    s1 = s1
    s2 = s2
    UZ = UZ
    Sellers = {s1, s2}
    Handlers = {1, 2}
    CategoryIds <- MCCategoryIds
    ItemIds <- MCItemIds
    ListingIds <- MCListingIds
    CountryIds = {UZ}
    Codes = {"houseplants", "pots", "gifts"}
    Skus = {"R-60"}
    Variants <- MCVariants
    World <- MCWorld
    Mixes <- MCMixes
    MaxRequests = 3
INVARIANTS TreeStands ReviewHolds EverythingIsFound
CHECK_DEADLOCK FALSE
