SPECIFICATION FairSpec
CONSTANTS
    Requests = {r1, r2}
    Tokens = {t1, t2}
    IPs = {ip1}
    None = None
    RpsFlag = 2
    Second = 2
    ConsumeOnIssue = TRUE
    Deadline = 1
    TTLs = {0}
    PowerFails = FALSE
    MaxTime = 2
    MaxCrashes = 1
INVARIANTS
    TypeOK
    SingleUse
PROPERTIES
    ImplementsAllowlist
    EveryRequestEnds
    WritersGetTheirTurn
CHECK_DEADLOCK FALSE
