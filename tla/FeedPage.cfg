SPECIFICATION FairSpec
CONSTANTS
    Rounds = {a, b}
    Posts = {1, 2}
    Key <- Pair
    Words = {"old", "new"}
    Keys <- Phrases
    Size = 1
    Last = 1
INVARIANTS
    TypeOK
    OncePerPost
    FlagsHaveOwners
PROPERTIES
    StayingPostShown
