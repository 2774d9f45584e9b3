SPECIFICATION FairSpec
CONSTANTS
    x = x
    channel = channel
    p = p
    q = q
    Feeds = {x, channel}
    List <- ListedOnce
    Telegram = {channel}
    Posts = {p, q}
    Offers <- MCOffers
    Slots = 1
    Keep = 0
    StatementsFail = FALSE
    MaxTime = 2
    MaxCrashes = 1
INVARIANTS
    TypeOK
    NoneLeftBehind
PROPERTIES
    CursorNeverBack
    RefreshesEnd
    NewPostsStored
