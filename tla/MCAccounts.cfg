\* Two requests at a time, three requests or expiries in all, one address, one Telegram id.
CONSTANTS
    Handlers = {h1, h2}
    Addresses = {a1}
    Telegrams = {t1}
    None = None
    MaxAttempts = 2
    MaxRequests = 3
SPECIFICATION Spec
SYMMETRY Symmetric
INVARIANTS SpentOnce AttemptsBounded EndedStaysEnded
CHECK_DEADLOCK FALSE
