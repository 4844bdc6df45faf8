SPECIFICATION FairSpec
CONSTANTS
    NumPids = 1
    MaxKeys = 0
    MaxBuiltins = 0
    Builtins <- NoBuiltins
PROPERTY
    ForegroundReturns
CHECK_DEADLOCK FALSE
