SPECIFICATION FairSpec
CONSTANT Orders = {1, 2}
CONSTANT Handlers = {h1, h2}
CONSTANT None = None
CONSTANT MaxRequests = 3
INVARIANT LedgersAgree
INVARIANT NoStepIsSkipped
INVARIANT GroupStatusIsWitnessed
INVARIANT FeedIsInHistory
PROPERTY RequestsEnd
CHECK_DEADLOCK FALSE
