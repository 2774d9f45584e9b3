SPECIFICATION FairSpec
CONSTANTS
    Resolvers = {google, cloudflare}
    MaxAttempts = 2
    MaxRetries = 2
    Sizes = {2, 3}
    MaxGens = 3
    MaxRestarts = 1
INVARIANTS
    TypeOK
    CountsAgree
    QuietAttemptIsWhole
    QueryCountExact
    QueriesBounded
PROPERTIES
    ImplementsRead
    EveryFetchEnds
CHECK_DEADLOCK FALSE
