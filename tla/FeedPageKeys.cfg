SPECIFICATION FairSpec
CONSTANTS
    Rounds = {a, b}
    Posts = {1, 2}
    Key <- Pair
    Words = {"old", "new"}
    Keys <- Base64
    Size = 1
    Last = 1
INVARIANT GrantedKeyOpens
