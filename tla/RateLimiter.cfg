SPECIFICATION Spec
CONSTANTS
    IPs = {ip1, ip2}
    RpsFlag = 2
    Second = 2
    MaxTime = 7
SYMMETRY Symmetry
INVARIANTS
    TypeOK
    BurstBound
PROPERTIES
    DeniedOnlyAtTheRate
CHECK_DEADLOCK FALSE
