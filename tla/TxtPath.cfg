SPECIFICATION FairSpec
CONSTANTS
    Chunks <- OneBatch
    PadMin = 12
    PadMax = 56
    MaxBytes = 308
    Sockets = {s1, s2}
    Ports = {p1, p2}
    Names <- MCNames
    Wait = 3
    Patience = 2
    Buffer = 2
    None = None
INVARIANTS
    TypeOK
    AnswersMatch
    TimeoutHasCause
PROPERTIES
    EveryGetEnds
    Recovers
