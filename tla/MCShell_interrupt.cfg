SPECIFICATION Spec
CONSTANTS
    NumPids = 1
    MaxKeys = 1
    MaxBuiltins = 0
    Builtins <- NoBuiltins
INVARIANT
    InterruptEndsJob
CHECK_DEADLOCK FALSE
