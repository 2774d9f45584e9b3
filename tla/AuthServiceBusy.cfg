SPECIFICATION Spec
CONSTANTS
    Requests = {r1, r2}
    Tokens = {t1, t2}
    IPs = {ip1}
    None = None
    RpsFlag = 2
    Second = 1
    ConsumeOnIssue = TRUE
    Deadline = 1
    TTLs = {1}
    PowerFails = FALSE
    MaxTime = 2
    MaxCrashes = 0
PROPERTIES
    OnlyBadTokensRefused
CHECK_DEADLOCK FALSE
