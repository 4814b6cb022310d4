SPECIFICATION FairSpec
CONSTANTS
    None = None
    AnOrder = AnOrder
    Handlers = {1, 2}
    Users <- MCUsers
    Tokens <- MCTokens
    Malformed = {1}
    Batch = 2
    Limit = 1
    MaxRetries = 1
    MaxBroadcasts = 1
    World <- MCWorld
    Mixes <- MCMixes
INVARIANTS MissedOnlyOvertaken InstallationsHold EachToldOnce BroadcastsAddUp
PROPERTY BroadcastEnds
CHECK_DEADLOCK FALSE
