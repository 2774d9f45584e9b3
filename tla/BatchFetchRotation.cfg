SPECIFICATION Spec
CONSTANTS
    Resolvers = {google, cloudflare}
    MaxAttempts = 2
    MaxRetries = 1
    Sizes = {1, 2}
    MaxGens = 2
    MaxRestarts = 0
SYMMETRY Symmetry
PROPERTIES
    RotationIsRetried
CHECK_DEADLOCK FALSE
