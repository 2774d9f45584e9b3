SPECIFICATION Spec
CONSTANTS
    Requests = {r1, r2}
    Tokens = {t1}
    IPs = {ip1}
    None = None
    RpsFlag = 2
    Second = 1
    ConsumeOnIssue = FALSE
    Deadline = 1
    TTLs = {1}
    PowerFails = TRUE
    MaxTime = 4
    MaxCrashes = 1
SYMMETRY Symmetry
PROPERTIES
    RevocationTakesHold
CHECK_DEADLOCK FALSE
