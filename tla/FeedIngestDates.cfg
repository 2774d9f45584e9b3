SPECIFICATION Spec
CONSTANTS
    x = x
    channel = channel
    p = p
    q = q
    Feeds = {x}
    List <- Alone
    Telegram = {}
    Posts = {p, q}
    Offers <- MCOffers
    Slots = 1
    Keep = 1
    StatementsFail = FALSE
    MaxTime = 2
    MaxCrashes = 0
INVARIANTS
    CursorIsTimestamp
