SPECIFICATION Spec
CONSTANTS
    NumPids = 2
    MaxKeys = 0
    MaxBuiltins = 1
    Builtins <- OnlyKill
INVARIANT
    OtherJobsKept
CHECK_DEADLOCK FALSE
